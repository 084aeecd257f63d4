-------------------------- MODULE DownloadProofs --------------------------
(***************************************************************************)
(* Proofs about Download, and the parts of Negotiation and PathResolver it *)
(* rests on, for any directory tree, any versions of the file, any headers *)
(* and any width of the unsigned numbers.                                  *)
(***************************************************************************)
EXTENDS Download, SumTheorems, SequenceTheorems

-----------------------------------------------------------------------------
(* parseUnsigned() reads the number that the digits stand for, or none. *)

DigitOf(parsed, d) ==
    IF parsed = NotANumber \/ d > 9 \/ parsed > (MaxUnsigned - d) \div 10
    THEN NotANumber ELSE parsed * 10 + d

\* f gives the value, g the parsed number of every prefix of the text.
Valued(f, text, n) ==
    f \in [0..n -> Nat] /\ f[0] = 0 /\ \A i \in 1..n : f[i] = f[i - 1] * 10 + text[i]
Parsed(g, text, n) ==
    g \in [0..n -> Int] /\ g[0] = 0 /\ \A i \in 1..n : g[i] = DigitOf(g[i - 1], text[i])

LEMMA DigitType ==
  ASSUME NEW p \in Int, NEW d \in Nat PROVE DigitOf(p, d) \in Int
<1>1. MaxUnsigned \in Nat
  BY NegotiationConstants
<1> QED BY <1>1 DEF DigitOf, NotANumber

\* The functions that the two definitions recurse on exist.
LEMMA PrefixesExist ==
  ASSUME NEW text \in Seq(Nat)
  PROVE  (\E f : Valued(f, text, Len(text))) /\ (\E g : Parsed(g, text, Len(text)))
<1> DEFINE B == {k \in 0..Len(text) :
                   (\E f : Valued(f, text, k)) /\ (\E g : Parsed(g, text, k))}
<1>0. Len(text) \in Nat /\ \A i \in 1..Len(text) : text[i] \in Nat
  OBVIOUS
<1>1. 0 \in B
  <2>1. Valued([i \in 0..0 |-> 0], text, 0) /\ Parsed([i \in 0..0 |-> 0], text, 0)
    BY DEF Valued, Parsed
  <2> QED BY <1>0, <2>1
<1>2. ASSUME NEW i \in 1..Len(text), i - 1 \in B PROVE i \in B
  <2>1. PICK f, g : Valued(f, text, i - 1) /\ Parsed(g, text, i - 1)
    BY <1>2
  <2> DEFINE fv == f[i - 1] * 10 + text[i]
             gv == DigitOf(g[i - 1], text[i])
  <2>2. fv \in Nat /\ gv \in Int
    <3>1. i - 1 \in 0..(i - 1) /\ text[i] \in Nat
      BY <1>0
    <3>2. f[i - 1] \in Nat /\ g[i - 1] \in Int
      BY <2>1, <3>1 DEF Valued, Parsed
    <3>3. gv \in Int
      BY <3>1, <3>2, DigitType
    <3> QED BY <3>1, <3>2, <3>3, SMTT(30)
  <2> HIDE DEF fv, gv
  <2> DEFINE ff == [j \in 0..i |-> IF j = i THEN fv ELSE f[j]]
             gg == [j \in 0..i |-> IF j = i THEN gv ELSE g[j]]
  <2>3. Valued(ff, text, i)
    <3>1. ff \in [0..i -> Nat] /\ ff[0] = 0
      BY <2>1, <2>2 DEF Valued
    <3>2. \A j \in 1..i : ff[j] = ff[j - 1] * 10 + text[j]
      <4> TAKE j \in 1..i
      <4>1. j - 1 \in 0..i /\ j \in 0..i /\ j - 1 # i
        OBVIOUS
      <4>2. ff[j - 1] = f[j - 1] /\ ff[j] = IF j = i THEN fv ELSE f[j]
        BY <4>1, Zenon
      <4> HIDE DEF ff
      <4>3. CASE j = i
        BY <4>2, <4>3, Zenon DEF fv
      <4>4. CASE j # i
        <5>1. j \in 1..(i - 1)
          BY <4>4
        <5> QED BY <2>1, <4>2, <4>4, <5>1, Zenon DEF Valued
      <4> QED BY <4>3, <4>4
    <3> QED BY <3>1, <3>2 DEF Valued
  <2>4. Parsed(gg, text, i)
    <3>1. gg \in [0..i -> Int] /\ gg[0] = 0
      BY <2>1, <2>2 DEF Parsed
    <3>2. \A j \in 1..i : gg[j] = DigitOf(gg[j - 1], text[j])
      <4> TAKE j \in 1..i
      <4>1. j - 1 \in 0..i /\ j \in 0..i /\ j - 1 # i
        OBVIOUS
      <4>2. gg[j - 1] = g[j - 1] /\ gg[j] = IF j = i THEN gv ELSE g[j]
        BY <4>1, Zenon
      <4> HIDE DEF gg
      <4>3. CASE j = i
        BY <4>2, <4>3, Zenon DEF gv
      <4>4. CASE j # i
        <5>1. j \in 1..(i - 1)
          BY <4>4
        <5> QED BY <2>1, <4>2, <4>4, <5>1, Zenon DEF Parsed
      <4> QED BY <4>3, <4>4
    <3> QED BY <3>1, <3>2 DEF Parsed
  <2> QED BY <1>0, <2>3, <2>4
<1>3. 0..Len(text) \subseteq B
  <2> HIDE DEF B
  <2> QED BY <1>0, <1>1, <1>2, UpToInduction
<1> QED BY <1>0, <1>3

LEMMA ValueIs ==
  ASSUME NEW text \in Seq(Nat)
  PROVE  \E f : Valued(f, text, Len(text)) /\ Value(text) = f[Len(text)]
<1> DEFINE v == CHOOSE f : f = [i \in 0..Len(text) |->
                  IF i = 0 THEN 0 ELSE f[i - 1] * 10 + text[i]]
<1>0. Len(text) \in Nat /\ \A i \in 1..Len(text) : text[i] \in Nat
  OBVIOUS
<1>1. PICK f : Valued(f, text, Len(text))
  BY PrefixesExist
<1>2. f = [i \in 0..Len(text) |-> IF i = 0 THEN 0 ELSE f[i - 1] * 10 + text[i]]
  <2>1. f = [i \in 0..Len(text) |-> f[i]]
    BY <1>1 DEF Valued
  <2>2. \A i \in 0..Len(text) : f[i] = IF i = 0 THEN 0 ELSE f[i - 1] * 10 + text[i]
    BY <1>0, <1>1 DEF Valued
  <2> QED BY <2>1, <2>2
<1>3. v = [i \in 0..Len(text) |-> IF i = 0 THEN 0 ELSE v[i - 1] * 10 + text[i]]
  BY <1>2
<1>4. Value(text) = v[Len(text)]
  BY DEF Value
<1> HIDE DEF v
<1>5. v[0] = 0 /\ \A i \in 1..Len(text) : v[i] = v[i - 1] * 10 + text[i]
  <2>1. \A i \in 0..Len(text) : v[i] = IF i = 0 THEN 0 ELSE v[i - 1] * 10 + text[i]
    BY <1>3, Zenon
  <2>2. 0 \in 0..Len(text) /\ \A i \in 1..Len(text) : i \in 0..Len(text) /\ i # 0
    BY <1>0
  <2> QED BY <2>1, <2>2, Zenon
<1>6. \A i \in 0..Len(text) : v[i] \in Nat
  <2> DEFINE B == {i \in 0..Len(text) : v[i] \in Nat}
  <2>1. 0 \in B
    BY <1>0, <1>5
  <2>2. ASSUME NEW i \in 1..Len(text), i - 1 \in B PROVE i \in B
    <3>1. v[i] = v[i - 1] * 10 + text[i]
      BY <1>5
    <3>2. v[i - 1] \in Nat /\ text[i] \in Nat /\ i \in 0..Len(text)
      BY <1>0, <2>2
    <3>3. v[i] \in Nat
      BY <3>1, <3>2
    <3> QED BY <3>2, <3>3
  <2>3. 0..Len(text) \subseteq B
    <3> HIDE DEF B
    <3> QED BY <1>0, <2>1, <2>2, UpToInduction
  <2> QED BY <2>3
<1>7. Valued(v, text, Len(text))
  <2>1. v \in [0..Len(text) -> Nat]
    BY <1>3, <1>6
  <2> QED BY <1>5, <2>1 DEF Valued
<1> QED BY <1>4, <1>7

LEMMA ParsedIs ==
  ASSUME NEW text \in Seq(Nat)
  PROVE  \E f : /\ Parsed(f, text, Len(text))
                /\ ParseUnsigned(text) = IF text = <<>> THEN NotANumber ELSE f[Len(text)]
<1> DEFINE v == CHOOSE f : f = [i \in 0..Len(text) |->
                  IF i = 0 THEN 0 ELSE DigitOf(f[i - 1], text[i])]
<1>0. Len(text) \in Nat /\ \A i \in 1..Len(text) : text[i] \in Nat
  OBVIOUS
<1>1. PICK f : Parsed(f, text, Len(text))
  BY PrefixesExist
<1>2. f = [i \in 0..Len(text) |-> IF i = 0 THEN 0 ELSE DigitOf(f[i - 1], text[i])]
  <2>1. f = [i \in 0..Len(text) |-> f[i]]
    BY <1>1 DEF Parsed
  <2>2. \A i \in 0..Len(text) : f[i] = IF i = 0 THEN 0 ELSE DigitOf(f[i - 1], text[i])
    BY <1>0, <1>1 DEF Parsed
  <2> QED BY <2>1, <2>2
<1>3. v = [i \in 0..Len(text) |-> IF i = 0 THEN 0 ELSE DigitOf(v[i - 1], text[i])]
  BY <1>2
<1>4. ParseUnsigned(text) = IF text = <<>> THEN NotANumber ELSE v[Len(text)]
  BY DEF ParseUnsigned, DigitOf
<1> HIDE DEF v
<1>5. v[0] = 0 /\ \A i \in 1..Len(text) : v[i] = DigitOf(v[i - 1], text[i])
  <2>1. \A i \in 0..Len(text) : v[i] = IF i = 0 THEN 0 ELSE DigitOf(v[i - 1], text[i])
    BY <1>3, Zenon
  <2>2. 0 \in 0..Len(text) /\ \A i \in 1..Len(text) : i \in 0..Len(text) /\ i # 0
    BY <1>0
  <2> QED BY <2>1, <2>2, Zenon
<1>6. \A i \in 0..Len(text) : v[i] \in Int
  <2> DEFINE B == {i \in 0..Len(text) : v[i] \in Int}
  <2>1. 0 \in B
    BY <1>0, <1>5
  <2>2. ASSUME NEW i \in 1..Len(text), i - 1 \in B PROVE i \in B
    <3>1. v[i] = DigitOf(v[i - 1], text[i])
      BY <1>5
    <3>2. v[i - 1] \in Int /\ text[i] \in Nat
      BY <1>0, <2>2
    <3>3. DigitOf(v[i - 1], text[i]) \in Int
      BY <3>2, DigitType
    <3> QED BY <1>0, <3>1, <3>3
  <2>3. 0..Len(text) \subseteq B
    <3> HIDE DEF B
    <3> QED BY <1>0, <2>1, <2>2, UpToInduction
  <2> QED BY <2>3
<1>7. Parsed(v, text, Len(text))
  <2>1. v \in [0..Len(text) -> Int]
    BY <1>3, <1>6
  <2> QED BY <1>5, <2>1 DEF Parsed
<1> QED BY <1>4, <1>7


\* One more digit: the test against the largest number is made before the
\* multiplication and is exact.
LEMMA DigitExact ==
  ASSUME NEW ok \in BOOLEAN, NEW v \in Nat, NEW d \in Nat
  PROVE  DigitOf(IF ok /\ v <= MaxUnsigned THEN v ELSE NotANumber, d)
           = IF (ok /\ d <= 9) /\ v * 10 + d <= MaxUnsigned THEN v * 10 + d ELSE NotANumber
<1>0. MaxUnsigned \in Nat /\ MaxUnsigned >= 9
  BY NegotiationConstants
<1>1. CASE ok /\ v <= MaxUnsigned /\ d <= 9
  <2> DEFINE q == (MaxUnsigned - d) \div 10
  <2>1. q \in Int /\ 10 * q <= MaxUnsigned - d /\ MaxUnsigned - d < 10 * q + 10
    BY <1>0, <1>1
  <2> HIDE DEF q
  <2>2. v > q <=> v * 10 + d > MaxUnsigned
    BY <1>0, <1>1, <2>1
  <2>3. DigitOf(v, d) = IF v > q THEN NotANumber ELSE v * 10 + d
    BY <1>1 DEF DigitOf, q, NotANumber
  <2> QED BY <1>0, <1>1, <2>2, <2>3
<1>2. CASE ~(ok /\ v <= MaxUnsigned) \/ d > 9
  <2>1. DigitOf(IF ok /\ v <= MaxUnsigned THEN v ELSE NotANumber, d) = NotANumber
    BY <1>2 DEF DigitOf
  <2>2. ~((ok /\ d <= 9) /\ v * 10 + d <= MaxUnsigned)
    BY <1>0, <1>2
  <2> QED BY <2>1, <2>2
<1> QED BY <1>0, <1>1, <1>2

\* parseUnsigned() returns the value of the digits exactly when there are only
\* digits and the value fits.
LEMMA ParseUnsignedExact ==
  ASSUME NEW text \in Seq(Nat)
  PROVE  /\ Value(text) \in Nat
         /\ ParseUnsigned(text) = IF Number(text) /\ Value(text) <= MaxUnsigned
                                  THEN Value(text) ELSE NotANumber
<1> DEFINE n == Len(text)
           Ok(i) == \A j \in 1..i : text[j] <= 9
<1>0. n \in Nat /\ DOMAIN text = 1..n /\ \A i \in 1..n : text[i] \in Nat
  OBVIOUS
<1>1. PICK f : Valued(f, text, n) /\ Value(text) = f[n]
  BY ValueIs
<1>2. PICK g : /\ Parsed(g, text, n)
               /\ ParseUnsigned(text) = IF text = <<>> THEN NotANumber ELSE g[n]
  BY ParsedIs
<1> DEFINE B == {i \in 0..n : g[i] = IF Ok(i) /\ f[i] <= MaxUnsigned THEN f[i] ELSE NotANumber}
<1>3. 0 \in B
  BY <1>0, <1>1, <1>2, NegotiationConstants DEF Valued, Parsed
<1>4. ASSUME NEW i \in 1..n, i - 1 \in B PROVE i \in B
  <2>0. i - 1 \in 0..n
    BY <1>0
  <2>1. f[i - 1] \in Nat /\ text[i] \in Nat /\ f[i] = f[i - 1] * 10 + text[i]
    <3>1. f \in [0..n -> Nat] /\ f[i] = f[i - 1] * 10 + text[i]
      BY <1>1, Zenon DEF Valued
    <3>2. f[i - 1] \in Nat
      BY <2>0, <3>1, Zenon
    <3> QED BY <1>0, <3>1, <3>2, Zenon
  <2>2. g[i] = DigitOf(g[i - 1], text[i])
    BY <1>2, Zenon DEF Parsed
  <2>3. g[i - 1] = IF Ok(i - 1) /\ f[i - 1] <= MaxUnsigned THEN f[i - 1] ELSE NotANumber
    BY <1>4
  <2>4. Ok(i) <=> Ok(i - 1) /\ text[i] <= 9
    <3>1. \A j \in 1..i : j = i \/ j \in 1..(i - 1)
      OBVIOUS
    <3>2. i \in 1..i /\ 1..(i - 1) \subseteq 1..i
      OBVIOUS
    <3> QED BY <3>1, <3>2, Zenon
  <2> DEFINE ok == Ok(i - 1)
  <2>5. ok \in BOOLEAN
    OBVIOUS
  <2> HIDE DEF ok
  <2>6. DigitOf(IF ok /\ f[i - 1] <= MaxUnsigned THEN f[i - 1] ELSE NotANumber, text[i])
          = IF (ok /\ text[i] <= 9) /\ f[i] <= MaxUnsigned THEN f[i] ELSE NotANumber
    BY <2>1, <2>5, DigitExact
  <2>7. g[i] = IF (ok /\ text[i] <= 9) /\ f[i] <= MaxUnsigned THEN f[i] ELSE NotANumber
    BY <2>2, <2>3, <2>6 DEF ok
  <2>8. g[i] = IF Ok(i) /\ f[i] <= MaxUnsigned THEN f[i] ELSE NotANumber
    BY <2>4, <2>7 DEF ok
  <2>9. i \in 0..n
    BY <1>0
  <2> QED BY <2>8, <2>9
<1>5. n \in B
  <2>1. 0..n \subseteq B
    <3> HIDE DEF B
    <3> QED BY <1>0, <1>3, <1>4, UpToInduction
  <2> QED BY <1>0, <2>1
<1>6. Value(text) \in Nat
  BY <1>0, <1>1 DEF Valued
<1>7. Number(text) <=> text # <<>> /\ Ok(n)
  BY <1>0 DEF Number
<1> QED BY <1>1, <1>2, <1>5, <1>6, <1>7


-----------------------------------------------------------------------------
(* Headers *)

\* A header whose numbers are texts of digits and other characters
Textual(header) ==
    \/ header.form \in {"none", "malformed"}
    \/ header.form = "bytes" /\ header.first \in Seq(Nat) /\ header.last \in Seq(Nat)

\* parseRange(), for every header and every size: a valid range is what the
\* header selects, and a refused one selects nothing or is not understood.
LEMMA ParseRangeExact ==
  ASSUME NEW header, header.form = "bytes", Textual(header), NEW total \in Nat
  PROVE  LET r == ParseRange(header, total)
             wanted == Selected(header, total) IN
         /\ r.status \in {"Valid", "Invalid", "Unsatisfiable"}
         /\ r.status = "Valid" =>
              /\ r.start \in Nat /\ r.length \in Nat /\ r.start + r.length <= total
              /\ wanted = r.start..(r.start + r.length - 1)
              /\ header.first # <<>> => r.start = Value(header.first)
         /\ r.status # "Valid" =>
              wanted = {} \/ ~(Understood(header.first) /\ Understood(header.last))
<1> DEFINE r == ParseRange(header, total)
           wanted == Selected(header, total)
           a == Value(header.first)
           b == Value(header.last)
           first == ParseUnsigned(header.first)
           last == ParseUnsigned(header.last)
           fine(t) == Number(t) /\ Value(t) <= MaxUnsigned
<1>0. /\ a \in Nat /\ b \in Nat
      /\ first = IF fine(header.first) THEN a ELSE NotANumber
      /\ last = IF fine(header.last) THEN b ELSE NotANumber
  BY ParseUnsignedExact DEF Textual
<1>1. wanted = {i \in 0..(total - 1) :
                  IF header.first = <<>> THEN Number(header.last) /\ i >= total - b
                  ELSE /\ Number(header.first) /\ i >= a
                       /\ header.last = <<>> \/ (Number(header.last) /\ i <= b)}
  BY DEF Selected
<1>2. /\ Understood(header.first) <=> header.first = <<>> \/ fine(header.first)
      /\ Understood(header.last) <=> header.last = <<>> \/ fine(header.last)
      /\ ~Number(<<>>)
  BY DEF Understood, Number
<1>3. MaxUnsigned \in Nat
  BY NegotiationConstants
<1>4. CASE total = 0
  <2>1. r = Refused("Unsatisfiable")
    BY <1>4 DEF ParseRange
  <2>2. wanted = {}
    BY <1>1, <1>4
  <2> QED BY <2>1, <2>2 DEF Refused, NoRange
<1>5. CASE total # 0 /\ header.first = <<>>
  <2>1. r = IF last \in {NotANumber, 0} THEN Refused("Invalid") ELSE SuffixRange(last, total)
    BY <1>5 DEF ParseRange
  <2>2. CASE last \in {NotANumber, 0}
    <3>1. wanted = {} \/ ~Understood(header.last)
      <4>1. CASE ~fine(header.last) /\ header.last # <<>>
        BY <1>2, <4>1
      <4>2. CASE header.last = <<>>
        BY <1>1, <1>2, <1>5, <4>2
      <4>3. CASE fine(header.last)
        <5>1. b = 0
          BY <1>0, <2>2, <4>3 DEF NotANumber
        <5> QED BY <1>1, <1>5, <5>1
      <4> QED BY <4>1, <4>2, <4>3
    <3> QED BY <2>1, <2>2, <3>1 DEF Refused, NoRange
  <2>3. CASE last \notin {NotANumber, 0}
    <3>1. last = b /\ Number(header.last) /\ b > 0
      BY <1>0, <2>3
    <3> DEFINE m == Smaller(b, total)
    <3>2. m \in Nat /\ m <= total /\ m <= b /\ (m = b \/ m = total) /\ m > 0
      BY <1>0, <1>5, <3>1 DEF Smaller
    <3>3. r = [status |-> "Valid", start |-> total - m, length |-> (total - 1) - (total - m) + 1]
      BY <2>1, <2>3, <3>1 DEF SuffixRange, Span
    <3> HIDE DEF m
    <3>4. wanted = (total - m)..(total - 1)
      BY <1>0, <1>1, <1>5, <3>1, <3>2
    <3>5. r.status = "Valid" /\ r.start = total - m /\ r.length = m
      BY <3>2, <3>3
    <3>6. r.start + r.length - 1 = total - 1
      BY <3>2, <3>5
    <3> QED BY <1>5, <3>2, <3>4, <3>5, <3>6
  <2> QED BY <2>2, <2>3
<1>6. CASE total # 0 /\ header.first # <<>>
  <2> DEFINE e == IF header.last = <<>> THEN total - 1 ELSE last
             no == first >= total \/ e = NotANumber \/ e < first
  <2>1. r = IF first = NotANumber THEN Refused("Invalid")
            ELSE IF no THEN Refused("Unsatisfiable") ELSE Span(first, Smaller(e, total - 1))
    BY <1>6 DEF ParseRange, OpenRange
  <2>2. CASE first = NotANumber
    <3>1. ~Understood(header.first)
      BY <1>0, <1>2, <1>6, <2>2 DEF NotANumber
    <3> QED BY <2>1, <2>2, <3>1 DEF Refused, NoRange
  <2>3. CASE first # NotANumber
    <3>1. first = a /\ fine(header.first)
      BY <1>0, <2>3
    <3>2. CASE no
      <4>1. wanted = {} \/ ~Understood(header.last)
        <5>1. CASE first >= total
          BY <1>0, <1>1, <1>6, <3>1, <5>1
        <5>2. CASE header.last = <<>> /\ first < total
          BY <1>0, <3>1, <3>2, <5>2 DEF NotANumber
        <5>3. CASE header.last # <<>> /\ ~fine(header.last)
          BY <1>2, <5>3
        <5>4. CASE header.last # <<>> /\ fine(header.last) /\ first < total
          <6>1. e = b /\ b < a
            BY <1>0, <3>1, <3>2, <5>4 DEF NotANumber
          <6> QED BY <1>0, <1>1, <1>6, <5>4, <6>1
        <5> QED BY <1>0, <3>1, <5>1, <5>2, <5>3, <5>4
      <4> QED BY <2>1, <2>3, <3>2, <4>1 DEF Refused, NoRange
    <3>3. CASE ~no
      <4> DEFINE z == Smaller(e, total - 1)
      <4>1. e \in Nat /\ a <= e /\ a < total
        BY <1>0, <1>6, <3>1, <3>3
      <4>2. z \in Nat /\ a <= z /\ z < total /\ (e >= total - 1 => z = total - 1)
            /\ (e < total - 1 => z = e)
        BY <1>0, <4>1 DEF Smaller
      <4>3. r = [status |-> "Valid", start |-> a, length |-> z - a + 1]
        BY <2>1, <2>3, <3>1, <3>3 DEF Span
      <4>4. header.last # <<>> => Number(header.last) /\ e = b
        BY <1>0, <3>3
      <4> HIDE DEF z
      <4>5. wanted = a..z
        <5>1. CASE header.last = <<>>
          BY <1>0, <1>1, <1>6, <3>1, <4>1, <4>2, <5>1
        <5>2. CASE header.last # <<>>
          BY <1>0, <1>1, <1>6, <3>1, <4>1, <4>2, <4>4, <5>2
        <5> QED BY <5>1, <5>2
      <4>6. r.status = "Valid" /\ r.start = a /\ r.length = z - a + 1
        BY <4>3
      <4>7. r.start + r.length - 1 = z
        BY <1>0, <4>2, <4>6
      <4> QED BY <1>0, <4>2, <4>5, <4>6, <4>7
    <3> QED BY <3>2, <3>3
  <2> QED BY <2>2, <2>3
<1> QED BY <1>4, <1>5, <1>6

\* acceptsGzip() follows an item of the header that names gzip, or, if there is
\* none, one that names all codings.
LEMMA AcceptsGzipBy ==
  ASSUME NEW items \in Seq([coding : STRING, allowed : BOOLEAN]), AcceptsGzip(items)
  PROVE  LET verdicts(c) == {i.allowed : i \in {j \in ToSet(items) : j.coding = c}} IN
         TRUE \in (IF verdicts("gzip") # {} THEN verdicts("gzip") ELSE verdicts("*"))
<1> DEFINE Of(c) == {i \in DOMAIN items : items[i].coding = c}
           verdicts(c) == {i.allowed : i \in {j \in ToSet(items) : j.coding = c}}
<1>0. Len(items) \in Nat /\ DOMAIN items = 1..Len(items)
      /\ \A i \in DOMAIN items : items[i].allowed \in BOOLEAN
  <2> DEFINE Items == [coding : STRING, allowed : BOOLEAN]
  <2>1. \A x \in Items : x.allowed \in BOOLEAN
    OBVIOUS
  <2> HIDE DEF Items
  <2>2. items \in Seq(Items)
    BY DEF Items
  <2>3. Len(items) \in Nat /\ DOMAIN items = 1..Len(items) /\ \A i \in DOMAIN items : items[i] \in Items
    BY <2>2
  <2> QED BY <2>1, <2>3
<1>1. ASSUME NEW c PROVE IsFiniteSet(Of(c)) /\ \A i \in Of(c) : i \in Int
  <2>1. IsFiniteSet(1..Len(items))
    BY <1>0, FS_Interval
  <2>2. Of(c) \subseteq 1..Len(items)
    BY <1>0
  <2>3. \A i \in Of(c) : i \in Int
    BY <1>0, <2>2
  <2> QED BY <2>1, <2>2, <2>3, FS_Subset
<1>2. ASSUME NEW c, NEW i \in Of(c) PROVE items[i].allowed \in verdicts(c)
  BY <1>2 DEF ToSet
<1>3. CASE Of("gzip") # {}
  <2>1. Min(Of("gzip")) \in Of("gzip")
    <3>1. IsFiniteSet(Of("gzip")) /\ \A i \in Of("gzip") : i \in Int
      BY <1>1
    <3> HIDE DEF Of
    <3> QED BY <1>3, <3>1, SmallestExists
  <2>2. items[Min(Of("gzip"))].allowed
    BY <1>3 DEF AcceptsGzip
  <2>3. items[Min(Of("gzip"))].allowed = TRUE
    BY <1>0, <2>1, <2>2
  <2>4. TRUE \in verdicts("gzip")
    BY <1>2, <2>1, <2>3
  <2> QED BY <2>4
<1>4. CASE Of("gzip") = {}
  <2>1. Of("*") # {} /\ items[Max(Of("*"))].allowed
    BY <1>4 DEF AcceptsGzip
  <2>2. Max(Of("*")) \in Of("*")
    <3>1. IsFiniteSet(Of("*")) /\ \A i \in Of("*") : i \in Int
      BY <1>1
    <3> HIDE DEF Of
    <3> QED BY <2>1, <3>1, LargestExists
  <2>3. items[Max(Of("*"))].allowed = TRUE
    BY <1>0, <2>1, <2>2
  <2>4. TRUE \in verdicts("*")
    BY <1>2, <2>2, <2>3
  <2>5. verdicts("gzip") = {}
    BY <1>4 DEF ToSet
  <2> QED BY <2>4, <2>5
<1> QED BY <1>3, <1>4

-----------------------------------------------------------------------------
(* The state *)

\* The name stands for the newest version or for nothing; the descriptor holds
\* a version there has been.
FilesOK ==
    /\ latest \in Versions /\ disk \in {0, latest}
    /\ fd \in Nat /\ fd <= latest
    /\ phase = "opened" => fd # 0

\* A copy is the beginning of one representation of one version.
CopyOK ==
    /\ copy \in [etag : Etags \cup {NoEtag}, bytes : Seq(Etags \X Nat)]
    /\ copy.bytes = Bytes(copy.etag, 0, Len(copy.bytes))
    /\ IF copy.etag = NoEtag THEN copy.bytes = <<>>
       ELSE copy.etag.version <= latest /\ Len(copy.bytes) <= Length(copy.etag)

\* The conditions of a request are about the copy the client still has.
RequestOK ==
    phase # "idle" =>
      /\ req.accept \in Seq([coding : STRING, allowed : BOOLEAN]) /\ Textual(req.range)
      /\ req.kind = "resume" =>
           /\ copy.etag # NoEtag
           /\ req.range = [form |-> "bytes", first |-> Decimal[Len(copy.bytes)], last |-> <<>>]
           /\ req.ifRange = [form |-> "etag", etag |-> copy.etag]
           /\ req.filled = {}
      /\ req.kind = "check" =>
           /\ Complete
           /\ req.ifNone \in {{}, {copy.etag}}
           /\ req.ifSince \in {-1, Modified[copy.etag.version]}

\* What each answer says of the version that was opened
WholeOK ==
    /\ fd # 0 /\ reply.etag.version = fd /\ reply.etag \in Etags
    /\ reply.etag.gzip => AcceptsGzip(req.accept)
    /\ reply.body = Bytes(reply.etag, 0, Length(reply.etag))
    /\ req.range.form = "bytes" => req.ifRange.form # "none" \/ "Range" \in Oversized(req)

PartOK ==
    /\ "Range" \notin Oversized(req)
    /\ fd # 0 /\ reply.etag = MakeEtag(fd, FALSE)
    /\ \E s, l \in Nat :
         /\ reply.body = Bytes(reply.etag, s, l) /\ s + l <= Size[fd]
         /\ req.range.form = "bytes" => Selected(req.range, Size[fd]) = s..(s + l - 1)
         /\ req.kind = "resume" => copy.etag = reply.etag /\ s = Len(copy.bytes)

RefusedOK ==
    /\ "Range" \notin Oversized(req)
    /\ req.range.form = "bytes" =>
         \/ Selected(req.range, Size[fd]) = {}
         \/ ~(Understood(req.range.first) /\ Understood(req.range.last))

ReplyOK ==
    phase = "answered" =>
      /\ reply.body \in Seq(Etags \X Nat)
      /\ reply.status = "200" => WholeOK
      /\ reply.status = "206" => PartOK
      /\ reply.status = "416" => RefusedOK
      /\ reply.status = "304" /\ req.kind = "check" => copy.etag.version = fd

\* A target that was resolved leads to a file in a place that is served.
PlaceOK ==
    phase = "answered" /\ reply.status = "Ok" =>
      LET node == Canonical(Components(req.url)) IN
      /\ node.kind = "file" /\ node.under
      /\ Located(lists, Components(req.url), node)
      /\ AllowedExtension(lists, ExtensionOf(node))

DownloadInv == FilesOK /\ CopyOK /\ RequestOK /\ ReplyOK /\ PlaceOK


-----------------------------------------------------------------------------
(* Bytes and versions *)

LEMMA VersionFacts ==
  /\ \A v \in Versions : v \in Nat /\ v >= 1 /\ Size[v] \in Nat /\ GzSize[v] \in Nat
  /\ \A v, w \in Versions : v < w => Modified[v] < Modified[w]
  /\ \A v \in Versions : Modified[v] \in Nat
  /\ \A v \in Versions : \A n \in 0..Size[v] \cup 0..GzSize[v] :
       Decimal[n] \in Seq(Nat) /\ Number(Decimal[n]) /\ Value(Decimal[n]) = n
  /\ 1 \in Versions
  /\ \A v \in Versions, n \in Nat : 1 <= n /\ n <= v => n \in Versions
<1>1. Size \in Seq(Nat) /\ GzSize \in Seq(Nat) /\ Modified \in Seq(Nat) /\ Size # <<>>
      /\ DOMAIN Size = DOMAIN Modified /\ DOMAIN GzSize = DOMAIN Size
  BY DownloadConstants
<1>2. \A v \in Versions : v \in Nat /\ v >= 1 /\ Size[v] \in Nat /\ GzSize[v] \in Nat
  BY <1>1 DEF Versions
<1>3. \A v \in Versions : Modified[v] \in Nat
  BY <1>1 DEF Versions
<1>4. 1 \in Versions
  BY <1>1 DEF Versions
<1>5. \A v, w \in Versions : v < w => Modified[v] < Modified[w]
  BY <1>1, DownloadConstants DEF Versions
<1>6. \A v \in Versions : \A n \in 0..Size[v] \cup 0..GzSize[v] :
       Decimal[n] \in Seq(Nat) /\ Number(Decimal[n]) /\ Value(Decimal[n]) = n
  BY DownloadConstants DEF Versions
<1>7. \A v \in Versions, n \in Nat : 1 <= n /\ n <= v => n \in Versions
  BY <1>1 DEF Versions
<1> QED BY <1>2, <1>3, <1>4, <1>5, <1>6, <1>7

LEMMA EtagFacts ==
  /\ \A v \in Versions, g \in BOOLEAN : MakeEtag(v, g) \in Etags
  /\ \A e \in Etags : e.version \in Versions /\ e.gzip \in BOOLEAN /\ Length(e) \in Nat
                      /\ e # NoEtag /\ e # AnyEtag
                      /\ Length(e) \in {Size[e.version], GzSize[e.version]}
  /\ NoEtag # AnyEtag
<1>1. \A v \in Versions, g \in BOOLEAN : MakeEtag(v, g) \in Etags
  BY DEF MakeEtag, Etags
<1>2. \A e \in Etags : e.version \in Versions /\ e.gzip \in BOOLEAN
  BY DEF Etags
<1>3. \A e \in Etags : e.version # 0
  BY <1>2, VersionFacts
<1>4. NoEtag.version = 0 /\ AnyEtag.version = 0 /\ NoEtag.gzip = FALSE /\ AnyEtag.gzip = TRUE
  BY DEF NoEtag, AnyEtag
<1>5. \A e \in Etags : e # NoEtag /\ e # AnyEtag
  BY <1>3, <1>4
<1>6. \A e \in Etags : Length(e) \in {Size[e.version], GzSize[e.version]}
  BY DEF Length
<1>7. \A e \in Etags : Length(e) \in Nat
  BY <1>2, <1>6, VersionFacts
<1>8. NoEtag # AnyEtag
  BY <1>4
<1> QED BY <1>1, <1>2, <1>5, <1>6, <1>7, <1>8

LEMMA BytesFacts ==
  ASSUME NEW e, NEW s \in Nat, NEW l \in Nat
  PROVE  /\ Len(Bytes(e, s, l)) = l /\ DOMAIN Bytes(e, s, l) = 1..l
         /\ \A i \in 1..l : Bytes(e, s, l)[i] = <<e, s + i - 1>>
         /\ e \in Etags => Bytes(e, s, l) \in Seq(Etags \X Nat)
<1>1. DOMAIN Bytes(e, s, l) = 1..l /\ \A i \in 1..l : Bytes(e, s, l)[i] = <<e, s + i - 1>>
  BY DEF Bytes
<1>2. Len(Bytes(e, s, l)) = l
  BY DEF Bytes
<1>3. ASSUME e \in Etags PROVE Bytes(e, s, l) \in Seq(Etags \X Nat)
  <2>1. \A i \in 1..l : <<e, s + i - 1>> \in Etags \X Nat
    BY <1>3
  <2> DEFINE P == Etags \X Nat
  <2>2. \A i \in 1..l : <<e, s + i - 1>> \in P
    BY <2>1
  <2> HIDE DEF P
  <2>3. Bytes(e, s, l) \in Seq(P)
    BY <2>2 DEF Bytes
  <2> QED BY <2>3 DEF P
<1> QED BY <1>1, <1>2, <1>3

\* The first n bytes of a body, and what they continue
LEMMA BytesPrefix ==
  ASSUME NEW e, NEW s \in Nat, NEW l \in Nat, NEW n \in 0..l
  PROVE  SubSeq(Bytes(e, s, l), 1, n) = Bytes(e, s, n)
  BY BytesFacts DEF Bytes

LEMMA JoinIs ==
  ASSUME NEW P, NEW a \in Seq(P), NEW b \in Seq(P), NEW c \in Seq(P),
         Len(c) = Len(a) + Len(b), \A i \in 1..Len(a) : a[i] = c[i],
         \A i \in 1..Len(b) : b[i] = c[Len(a) + i]
  PROVE  a \o b = c
<1>1. a \o b \in Seq(P) /\ Len(a \o b) = Len(a) + Len(b)
  OBVIOUS
<1>2. \A i \in 1..Len(c) : (a \o b)[i] = c[i]
  <2> TAKE i \in 1..Len(c)
  <2>1. CASE i <= Len(a)
    BY <2>1
  <2>2. CASE i > Len(a)
    <3>1. i - Len(a) \in 1..Len(b) /\ Len(a) + (i - Len(a)) = i
      BY <2>2
    <3>2. (a \o b)[i] = b[i - Len(a)]
      BY <2>2
    <3> QED BY <3>1, <3>2
  <2> QED BY <2>1, <2>2
<1> DEFINE d == a \o b
<1>3. d \in Seq(P) /\ Len(d) = Len(c) /\ \A i \in 1..Len(d) : d[i] = c[i]
  <2>1. Len(d) = Len(c)
    BY <1>1
  <2> QED BY <1>1, <1>2, <2>1, Zenon
<1> HIDE DEF d
<1>4. d = c
  BY <1>3, SeqEqual, Zenon
<1> QED BY <1>4 DEF d

LEMMA BytesJoin ==
  ASSUME NEW e \in Etags, NEW m \in Nat, NEW n \in Nat
  PROVE  Bytes(e, 0, m) \o Bytes(e, m, n) = Bytes(e, 0, m + n)
<1> DEFINE a == Bytes(e, 0, m)
           b == Bytes(e, m, n)
           c == Bytes(e, 0, m + n)
           P == Etags \X Nat
<1>1. a \in Seq(P) /\ Len(a) = m /\ \A i \in 1..m : a[i] = <<e, 0 + i - 1>>
  BY BytesFacts
<1>2. b \in Seq(P) /\ Len(b) = n /\ \A i \in 1..n : b[i] = <<e, m + i - 1>>
  BY BytesFacts
<1>3. c \in Seq(P) /\ Len(c) = m + n /\ \A i \in 1..(m + n) : c[i] = <<e, 0 + i - 1>>
  <2>1. 0 \in Nat /\ m + n \in Nat
    OBVIOUS
  <2> QED BY <2>1, BytesFacts, Zenon
<1> HIDE DEF a, b, c, P
<1>4. \A i \in 1..m : a[i] = c[i]
  <2> TAKE i \in 1..m
  <2>1. i \in 1..(m + n)
    OBVIOUS
  <2> QED BY <1>1, <1>3, <2>1, Zenon
<1>5. \A i \in 1..n : b[i] = c[m + i]
  <2> TAKE i \in 1..n
  <2>1. m + i \in 1..(m + n) /\ 0 + (m + i) - 1 = m + i - 1
    OBVIOUS
  <2> QED BY <1>2, <1>3, <2>1
<1>6. a \o b = c
  BY <1>1, <1>2, <1>3, <1>4, <1>5, JoinIs, Zenon
<1> QED BY <1>6 DEF a, b, c


-----------------------------------------------------------------------------
(* The steps *)

LEMMA RequestKept ==
  ASSUME UNCHANGED <<lists, phase, req, reply, fd, copy>>, RequestOK, ReplyOK, PlaceOK
  PROVE  RequestOK' /\ ReplyOK' /\ PlaceOK'
<1>1. RequestOK'
  BY DEF RequestOK, Complete
<1>2. ReplyOK'
  BY DEF ReplyOK, WholeOK, PartOK, RefusedOK, Oversized
<1>3. PlaceOK'
  BY DEF PlaceOK
<1> QED BY <1>1, <1>2, <1>3

LEMMA CopyKept ==
  ASSUME FilesOK, CopyOK, UNCHANGED copy, latest' \in Versions, latest <= latest'
  PROVE  CopyOK'
<1>1. latest \in Nat /\ latest' \in Nat
  BY VersionFacts DEF FilesOK
<1>2. copy.etag # NoEtag => copy.etag \in Etags
  BY DEF CopyOK
<1>3. copy.etag # NoEtag => copy.etag.version \in Nat
  BY <1>2, EtagFacts, VersionFacts
<1>4. copy.etag # NoEtag => copy.etag.version <= latest'
  BY <1>1, <1>3 DEF CopyOK
<1> QED BY <1>4 DEF CopyOK

LEMMA OperatorInv ==
  ASSUME DownloadInv, Operator PROVE DownloadInv'
<1>0. FilesOK /\ CopyOK /\ RequestOK /\ ReplyOK /\ PlaceOK /\ latest \in Nat
  BY VersionFacts DEF DownloadInv, FilesOK
<1>1. UNCHANGED <<lists, phase, req, reply, fd, copy>>
  BY DEF Operator, ReplaceFile, RemoveFile, PutBackFile
<1>2. latest' \in Versions /\ latest <= latest' /\ disk' \in {0, latest'}
  BY <1>0, VersionFacts DEF FilesOK, Operator, ReplaceFile, RemoveFile, PutBackFile
<1>3. latest' \in Nat
  BY <1>2, VersionFacts
<1>4. FilesOK'
  BY <1>0, <1>1, <1>2, <1>3 DEF FilesOK
<1>5. CopyOK'
  BY <1>0, <1>1, <1>2, CopyKept
<1> QED BY <1>0, <1>1, <1>4, <1>5, RequestKept DEF DownloadInv

\* Every request a client makes is about the copy it has.
LEMMA AskInv ==
  ASSUME DownloadInv, phase = "idle", NEW r \in Offered, Ask(r) PROVE DownloadInv'
<1>0. FilesOK /\ CopyOK
  BY DEF DownloadInv
<1>1. phase' = "asked" /\ req' = r /\ UNCHANGED <<lists, disk, latest, reply, fd, copy>>
  BY DEF Ask
<1> DEFINE A == Seq([coding : STRING, allowed : BOOLEAN])
<1>2. <<>> \in A /\ AcceptHeaders \subseteq A
  BY DownloadConstants
<1> HIDE DEF A
<1>3. /\ r.accept \in A /\ Textual(r.range)
      /\ r.kind = "resume" =>
           /\ copy.etag # NoEtag
           /\ r.range = [form |-> "bytes", first |-> Decimal[Len(copy.bytes)], last |-> <<>>]
           /\ r.ifRange = [form |-> "etag", etag |-> copy.etag]
           /\ r.filled = {}
      /\ r.kind = "check" =>
           /\ Complete
           /\ r.ifNone \in {{}, {copy.etag}}
           /\ r.ifSince \in {-1, Modified[copy.etag.version]}
  <2>1. ASSUME NEW u \in Urls, r = Plain(u) PROVE <1>3!:
    BY <1>2, <2>1 DEF Plain, Textual, NoHeader
  <2>2. CASE r \in Probes
    <3>1. CASE r = ProbeAny
      BY <1>2, <3>1 DEF ProbeAny, Asked, Plain, Textual, NoHeader
    <3>2. CASE r # ProbeAny
      <4>0. PICK h \in RangeHeaders, a \in AcceptHeaders,
                 c \in ProbeConditions, f \in ProbeFilled : r = Probe(h, a, c, f)
        BY <2>2, <3>2 DEF Probes
      <4>1. r.range = h /\ r.accept = a /\ r.kind = "probe"
        BY <4>0 DEF Probe, Asked, Plain
      <4>2. Textual(h)
        BY DownloadConstants DEF Textual
      <4> QED BY <1>2, <4>1, <4>2
    <3> QED BY <3>1, <3>2
  <2>3. CASE r \in Downloads
    <3>1. PICK a \in AcceptHeaders : r = [Asked("get") EXCEPT !.accept = a]
      BY <2>3 DEF Downloads
    <3>2. r.range = [form |-> "none"] /\ r.accept = a /\ r.kind = "get"
      BY <3>1 DEF Asked, Plain, NoHeader
    <3> QED BY <1>2, <3>2 DEF Textual
  <2>4. CASE r \in Resumptions /\ ~Complete /\ copy.bytes # <<>>
    <3> DEFINE h == [form |-> "bytes", first |-> Decimal[Len(copy.bytes)], last |-> <<>>]
               c == [form |-> "etag", etag |-> copy.etag]
    <3>1. PICK a \in AcceptHeaders :
            r = [Asked("resume") EXCEPT !.range = h, !.ifRange = c, !.accept = a]
      BY <2>4 DEF Resumptions
    <3> HIDE DEF h, c
    <3>2. r.range = h /\ r.ifRange = c /\ r.accept = a /\ r.kind = "resume" /\ r.filled = {}
      BY <3>1 DEF Asked, Plain
    <3>3. copy.etag \in Etags /\ Len(copy.bytes) \in Nat /\ Len(copy.bytes) <= Length(copy.etag)
      BY <1>0, <2>4 DEF CopyOK
    <3>4. Len(copy.bytes) \in 0..Size[copy.etag.version] \cup 0..GzSize[copy.etag.version]
      BY <3>3, EtagFacts
    <3>5. Decimal[Len(copy.bytes)] \in Seq(Nat)
      BY <3>3, <3>4, EtagFacts, VersionFacts
    <3>6. Textual(h) /\ <<>> \in Seq(Nat)
      BY <3>5 DEF Textual, h
    <3> QED BY <1>2, <3>2, <3>3, <3>6, EtagFacts DEF h, c
  <2>5. CASE r \in Revalidations /\ Complete
    <3>1. ASSUME NEW a \in AcceptHeaders, r = CheckTag(a)
          PROVE  <1>3!:
      <4>1. /\ r.range = [form |-> "none"] /\ r.accept = a /\ r.kind = "check"
            /\ r.ifNone = {copy.etag} /\ r.ifSince = -1
        BY <3>1 DEF CheckTag, Asked, Plain, NoHeader
      <4> QED BY <1>2, <2>5, <4>1 DEF Textual
    <3>2. ASSUME NEW n \in {{}, {copy.etag}}, NEW f, r = CheckDate(n, f)
          PROVE  <1>3!:
      <4>1. /\ r.range = [form |-> "none"] /\ r.accept = <<>> /\ r.kind = "check"
            /\ r.ifNone = n /\ r.ifSince = Modified[copy.etag.version]
        BY <3>2 DEF CheckDate, Asked, Plain, NoHeader
      <4> QED BY <1>2, <2>5, <4>1 DEF Textual
    <3>3. \/ \E a \in AcceptHeaders : r = CheckTag(a)
          \/ \E n \in {{}, {copy.etag}}, f \in SUBSET {"If-None-Match", "If-Modified-Since"} :
               r = CheckDate(n, f)
      BY <2>5 DEF Revalidations
    <3> QED BY <3>1, <3>2, <3>3, Zenon
  <2> QED BY <2>1, <2>2, <2>3, <2>4, <2>5 DEF Offered
<1>4. RequestOK'
  BY <1>1, <1>3 DEF RequestOK, Complete, A
<1>5. FilesOK'
  BY <1>0, <1>1 DEF FilesOK
<1>6. CopyOK'
  BY <1>0, <1>1 DEF CopyOK
<1>7. ReplyOK' /\ PlaceOK'
  BY <1>1 DEF ReplyOK, PlaceOK
<1> QED BY <1>4, <1>5, <1>6, <1>7 DEF DownloadInv


\* An answer without a body that is neither a 304 nor a 416 says nothing.
LEMMA ErrorSays ==
  ASSUME NEW status, Error(status), status \notin {"200", "206", "304", "416"}
  PROVE  ReplyOK'
<1>1. reply'.status = status /\ reply'.body = <<>>
  BY DEF Error, Answered
<1>2. <<>> \in Seq(Etags \X Nat)
  OBVIOUS
<1> QED BY <1>1, <1>2 DEF ReplyOK

\* resolve() looks at the entry it finds now, which is the file of the tree or
\* nothing: what it lets pass is in a place that is served.
LEMMA DispatchInv ==
  ASSUME DownloadInv, Dispatch PROVE DownloadInv'
<1> DEFINE url == req.url
           node == Canonical(Components(url))
           resolved == Resolve(lists, url, Found(url))
<1>0. FilesOK /\ CopyOK /\ RequestOK /\ phase = "asked"
      /\ UNCHANGED <<lists, disk, latest, req, fd, copy>>
  BY DEF DownloadInv, Dispatch
<1>1. \/ phase' = "found" /\ UNCHANGED reply
      \/ Error(StatusOf(resolved))
  BY DEF Dispatch
<1>2. phase' \in {"found", "answered"}
  BY <1>1 DEF Error, Answered
<1>3. FilesOK' /\ CopyOK' /\ RequestOK'
  <2>1. FilesOK'
    BY <1>0, <1>2 DEF FilesOK
  <2>2. CopyOK'
    BY <1>0 DEF CopyOK
  <2>3. RequestOK'
    BY <1>0 DEF RequestOK, Complete
  <2> QED BY <2>1, <2>2, <2>3
<1>4. CASE phase' = "found"
  BY <1>3, <1>4 DEF DownloadInv, ReplyOK, PlaceOK
<1>5. CASE Error(StatusOf(resolved))
  <2>1. StatusOf(resolved) \notin {"200", "206", "304", "416"}
    BY DEF StatusOf
  <2>2. ReplyOK'
    BY <1>5, <2>1, ErrorSays
  <2>3. ASSUME reply'.status = "Ok" PROVE PlaceOK'
    <3>1. StatusOf(resolved) = "Ok"
      BY <1>5, <2>3 DEF Error, Answered
    <3>2. resolved = "Ok"
      BY <3>1 DEF StatusOf
    <3>3. /\ Found(url).kind = "file" /\ Found(url).under
          /\ Located(lists, Components(url), Found(url))
          /\ AllowedExtension(lists, ExtensionOf(Found(url)))
      BY <3>2 DEF Resolve
    <3>4. Found(url) # Missing
      BY <3>3 DEF Missing
    <3>5. Found(url) = node \/ Found(url) = [node EXCEPT !.size = Size[disk]]
      BY <3>4 DEF Found
    <3>6. Found(url).kind = node.kind /\ Found(url).under = node.under /\ Found(url).at = node.at
      <4>1. node = Missing \/ node \in [kind : {"file", "dir", "error"}, under : BOOLEAN,
                                        at : Seq(STRING), size : Nat]
        BY TreeIsCanonical DEF Canonical
      <4> QED BY <3>5, <4>1 DEF Missing
    <3>7. Located(lists, Components(url), node) /\ AllowedExtension(lists, ExtensionOf(node))
      BY <3>3, <3>6 DEF Located, PartsUnder, ExtensionOf
    <3> QED BY <1>0, <3>3, <3>6, <3>7 DEF PlaceOK
  <2>4. PlaceOK'
    BY <2>3 DEF PlaceOK
  <2> QED BY <1>3, <2>2, <2>4 DEF DownloadInv
<1> QED BY <1>1, <1>4, <1>5

LEMMA OpenInv ==
  ASSUME DownloadInv, OpenReadFile PROVE DownloadInv'
<1>0. /\ FilesOK /\ CopyOK /\ RequestOK /\ phase = "found"
      /\ UNCHANGED <<lists, disk, latest, req, copy>>
  BY DEF DownloadInv, OpenReadFile
<1>1. \/ Error("500") /\ fd' = fd
      \/ phase' = "opened" /\ fd' = disk /\ disk # 0 /\ UNCHANGED reply
  BY DEF OpenReadFile
<1>2. CopyOK'
  BY <1>0 DEF CopyOK
<1>3. RequestOK'
  BY <1>0 DEF RequestOK, Complete
<1>4. latest \in Nat
  BY <1>0, VersionFacts DEF FilesOK
<1>5. FilesOK'
  BY <1>0, <1>1, <1>4 DEF FilesOK, Error, Answered
<1>6. ReplyOK'
  <2>1. CASE Error("500")
    BY <2>1, ErrorSays
  <2>2. CASE phase' = "opened"
    BY <2>2 DEF ReplyOK
  <2> QED BY <1>1, <2>1, <2>2
<1>7. PlaceOK'
  BY <1>1 DEF PlaceOK, Error, Answered
<1> QED BY <1>2, <1>3, <1>5, <1>6, <1>7 DEF DownloadInv


\* A conditional request about a complete copy is answered with 304 only for
\* the version of the copy: times grow with the versions.
LEMMA CheckCurrent ==
  ASSUME FilesOK, CopyOK, RequestOK, phase = "opened", disk = fd, req.kind = "check",
         NEW g \in BOOLEAN, NEW none \in {{}, {copy.etag}},
         NEW since \in {-1, Modified[copy.etag.version]},
         NotModified(none, since, MakeEtag(fd, g), Modified[fd])
  PROVE  copy.etag.version = fd
<1>1. fd = latest /\ fd \in Versions
  BY DEF FilesOK
<1>2. copy.etag \in Etags /\ copy.etag.version <= fd
  BY <1>1 DEF RequestOK, Complete, CopyOK
<1>3. copy.etag.version \in Versions /\ copy.etag # AnyEtag
  BY <1>2, EtagFacts
<1>4. CASE none = {copy.etag}
  <2>1. EtagMatches({copy.etag}, MakeEtag(fd, g))
    BY <1>4 DEF NotModified
  <2>2. copy.etag = MakeEtag(fd, g)
    BY <1>3, <2>1 DEF EtagMatches
  <2> QED BY <2>2 DEF MakeEtag
<1>5. CASE none = {}
  <2>1. Modified[fd] <= Modified[copy.etag.version]
    BY <1>5 DEF NotModified
  <2> QED BY <1>1, <1>2, <1>3, <2>1, VersionFacts, SMTT(30)
<1> QED BY <1>4, <1>5

LEMMA ServeInv ==
  ASSUME DownloadInv, NEW hit \in BOOLEAN, ServeFile(hit) PROVE DownloadInv'
<1> DEFINE range    == Header("Range", req.range, NoHeader)
           ifRange  == Header("If-Range", req.ifRange, NoHeader)
           accept   == Header("Accept-Encoding", req.accept, <<>>)
           ifNone   == Header("If-None-Match", req.ifNone, {})
           ifSince  == Header("If-Modified-Since", req.ifSince, -1)
           asked    == ParseRange(range, Size[fd])
           matches  == IfRangeMatches(ifRange, MakeEtag(fd, FALSE), Modified[fd])
           partial  == asked.status = "Valid" /\ matches
           gzip     == ~partial /\ AcceptsGzip(accept) /\ hit /\ GzSize[fd] # 0
           etag     == MakeEtag(fd, gzip)
           unneeded == NotModified(ifNone, ifSince, etag, Modified[fd])
           big      == "Range" \in Oversized(req)
<1>0. /\ FilesOK /\ CopyOK /\ RequestOK /\ phase = "opened"
      /\ UNCHANGED <<lists, disk, latest, req, fd, copy>>
  BY DEF DownloadInv, ServeFile
<1>1. fd \in Versions /\ fd # 0 /\ Size[fd] \in Nat
  BY <1>0, VersionFacts DEF FilesOK
<1>2. IF ~InspectReadFile THEN Error("500")
      ELSE IF Size[fd] > MaxFileBytes THEN Error("403")
      ELSE IF asked.status \in {"Invalid", "Unsatisfiable"} THEN Error("416")
      ELSE IF unneeded THEN Answered("304", etag, <<>>)
      ELSE IF partial THEN Answered("206", etag, Bytes(etag, asked.start, asked.length))
      ELSE Answered("200", etag, Bytes(etag, 0, Length(etag)))
  BY DEF ServeFile
\* What is read of the headers
<1>r. /\ big => range = NoHeader
      /\ ~big => range = req.range
      /\ ifRange \in {req.ifRange, NoHeader}
      /\ ifNone \in {req.ifNone, {}} /\ ifSince \in {req.ifSince, -1}
      /\ accept = req.accept \/ accept = <<>>
  BY DEF Header
<1> HIDE DEF range, ifRange, accept, ifNone, ifSince, big
<1>3. /\ Textual(req.range)
      /\ range.form = "none" => asked.status = "None"
      /\ range.form = "malformed" => asked.status = "Invalid"
  BY <1>0 DEF RequestOK, ParseRange, NoRange, Refused
<1>b. big => asked.status = "None"
  BY <1>r, <1>3 DEF NoHeader
<1>4. gzip \in BOOLEAN /\ (gzip => AcceptsGzip(req.accept))
  <2>1. gzip \in BOOLEAN
    OBVIOUS
  <2>2. gzip => AcceptsGzip(accept)
    OBVIOUS
  <2>3. ~AcceptsGzip(<<>>)
    BY DEF AcceptsGzip
  <2> QED BY <1>r, <2>1, <2>2, <2>3, Zenon
<1>5. partial => ~gzip
  OBVIOUS
<1> HIDE DEF gzip, asked
<1>6. etag \in Etags /\ etag.version = fd /\ etag.gzip = gzip
  BY <1>1, <1>4, EtagFacts DEF MakeEtag
<1>7. FilesOK' /\ CopyOK' /\ RequestOK'
  <2>1. phase' = "answered"
    BY <1>2 DEF Error, Answered
  <2>2. FilesOK'
    BY <1>0, <2>1 DEF FilesOK
  <2>3. CopyOK'
    BY <1>0 DEF CopyOK
  <2>4. RequestOK'
    BY <1>0 DEF RequestOK, Complete
  <2> QED BY <2>2, <2>3, <2>4
<1>8. ReplyOK' /\ PlaceOK'
  <2>1. CASE Error("500") \/ Error("403")
    <3>1. ReplyOK'
      BY <2>1, ErrorSays
    <3>2. reply'.status \in {"500", "403"}
      BY <2>1 DEF Error, Answered
    <3> QED BY <3>1, <3>2 DEF PlaceOK
  <2>2. CASE Error("416") /\ asked.status \in {"Invalid", "Unsatisfiable"}
    <3>1. reply'.status = "416" /\ reply'.body = <<>>
      BY <2>2 DEF Error, Answered
    <3>2. RefusedOK
      <4>0. ~big /\ range = req.range
        BY <1>b, <1>r, <2>2
      <4> SUFFICES ASSUME req.range.form = "bytes" PROVE RefusedOK
        BY <4>0 DEF RefusedOK, big
      <4>1. asked.status # "Valid"
        BY <2>2
      <4>2. \/ Selected(req.range, Size[fd]) = {}
            \/ ~(Understood(req.range.first) /\ Understood(req.range.last))
        BY <1>1, <1>3, <4>0, <4>1, ParseRangeExact DEF asked
      <4> QED BY <4>0, <4>2 DEF RefusedOK, big
    <3>3. RefusedOK'
      BY <1>0, <3>2 DEF RefusedOK, Oversized
    <3>4. <<>> \in Seq(Etags \X Nat)
      OBVIOUS
    <3> QED BY <3>1, <3>3, <3>4 DEF ReplyOK, PlaceOK
  <2>3. CASE Answered("304", etag, <<>>) /\ unneeded /\ InspectReadFile
    <3>1. reply'.status = "304" /\ reply'.body = <<>>
      BY <2>3 DEF Answered
    <3>2. req.kind = "check" => copy.etag.version = fd
      <4> SUFFICES ASSUME req.kind = "check" PROVE copy.etag.version = fd
        OBVIOUS
      <4>1. ifNone \in {{}, {copy.etag}} /\ ifSince \in {-1, Modified[copy.etag.version]}
        BY <1>0, <1>r DEF RequestOK
      <4> QED BY <1>0, <1>4, <2>3, <4>1, CheckCurrent DEF InspectReadFile
    <3>3. <<>> \in Seq(Etags \X Nat)
      OBVIOUS
    <3> QED BY <1>0, <3>1, <3>2, <3>3 DEF ReplyOK, PlaceOK
  <2>4. CASE /\ Answered("206", etag, Bytes(etag, asked.start, asked.length)) /\ partial
    <3>1. /\ reply'.status = "206" /\ reply'.etag = etag
          /\ reply'.body = Bytes(etag, asked.start, asked.length)
      BY <2>4 DEF Answered
    <3>0. ~big /\ range = req.range
      BY <1>b, <1>r, <2>4
    <3>2. req.range.form = "bytes" /\ asked.status = "Valid" /\ etag = MakeEtag(fd, FALSE)
      <4>1. asked.status = "Valid" /\ matches
        BY <2>4
      <4>2. req.range.form = "bytes"
        BY <1>3, <3>0, <4>1 DEF Textual
      <4>3. gzip = FALSE
        BY <1>4, <1>5, <2>4, Zenon
      <4> QED BY <4>1, <4>2, <4>3, Zenon
    <3>3. /\ asked.start \in Nat /\ asked.length \in Nat /\ asked.start + asked.length <= Size[fd]
          /\ Selected(req.range, Size[fd]) = asked.start..(asked.start + asked.length - 1)
          /\ req.range.first # <<>> => asked.start = Value(req.range.first)
      BY <1>1, <1>3, <3>0, <3>2, ParseRangeExact DEF asked
    <3>4. ASSUME req.kind = "resume" PROVE copy.etag = etag /\ asked.start = Len(copy.bytes)
      <4>1. /\ req.range = [form |-> "bytes", first |-> Decimal[Len(copy.bytes)], last |-> <<>>]
            /\ req.ifRange = [form |-> "etag", etag |-> copy.etag] /\ req.filled = {}
            /\ copy.etag \in Etags /\ Len(copy.bytes) <= Length(copy.etag) /\ Len(copy.bytes) \in Nat
        BY <1>0, <3>4 DEF RequestOK, CopyOK
      <4>2. copy.etag = etag
        <5>0. "If-Range" \notin Oversized(req)
          BY <4>1 DEF Oversized
        <5>1. IfRangeMatches(req.ifRange, MakeEtag(fd, FALSE), Modified[fd])
          BY <2>4, <5>0 DEF ifRange, Header
        <5>2. req.ifRange.form = "etag" /\ req.ifRange.etag = copy.etag
          BY <4>1
        <5>3. req.ifRange.etag = MakeEtag(fd, FALSE)
          BY <5>1, <5>2 DEF IfRangeMatches
        <5> QED BY <3>2, <5>2, <5>3, Zenon
      <4>3. Len(copy.bytes) \in 0..Size[copy.etag.version] \cup 0..GzSize[copy.etag.version]
        BY <4>1, EtagFacts
      <4>4. Number(Decimal[Len(copy.bytes)]) /\ Value(Decimal[Len(copy.bytes)]) = Len(copy.bytes)
        BY <4>1, <4>3, EtagFacts, VersionFacts
      <4>5. req.range.first = Decimal[Len(copy.bytes)] /\ req.range.first # <<>>
        BY <4>1, <4>4 DEF Number
      <4> QED BY <3>3, <4>2, <4>4, <4>5
    <3>5. reply'.body \in Seq(Etags \X Nat)
      <4>1. Bytes(etag, asked.start, asked.length) \in Seq(Etags \X Nat)
        BY <1>6, <3>3, BytesFacts, Zenon
      <4> QED BY <3>1, <4>1, Zenon
    <3>6. PartOK'
      <4> DEFINE s == asked.start
                 l == asked.length
      <4>1. s \in Nat /\ l \in Nat
        BY <3>3
      <4>2. /\ reply'.body = Bytes(reply'.etag, s, l) /\ s + l <= Size[fd]
            /\ Selected(req.range, Size[fd]) = s..(s + l - 1)
            /\ req.kind = "resume" => copy.etag = reply'.etag /\ s = Len(copy.bytes)
        BY <3>1, <3>3, <3>4
      <4>3. fd # 0 /\ reply'.etag = MakeEtag(fd, FALSE)
        BY <1>1, <3>1, <3>2
      <4> HIDE DEF s, l
      <4>4. "Range" \notin Oversized(req)'
        BY <1>0, <3>0 DEF big, Oversized
      <4> QED BY <1>0, <4>1, <4>2, <4>3, <4>4 DEF PartOK
    <3> QED BY <3>1, <3>5, <3>6 DEF ReplyOK, PlaceOK
  <2>5. CASE /\ Answered("200", etag, Bytes(etag, 0, Length(etag)))
             /\ ~partial /\ asked.status \notin {"Invalid", "Unsatisfiable"}
    <3>1. /\ reply'.status = "200" /\ reply'.etag = etag
          /\ reply'.body = Bytes(etag, 0, Length(etag))
      BY <2>5 DEF Answered
    <3>2. req.range.form = "bytes" => req.ifRange.form # "none" \/ big
      <4> SUFFICES ASSUME req.range.form = "bytes", ~big PROVE req.ifRange.form # "none"
        OBVIOUS
      <4>1. asked.status \in {"Valid", "Invalid", "Unsatisfiable"}
        BY <1>1, <1>3, <1>r, ParseRangeExact DEF asked
      <4>2. ~matches
        BY <2>5, <4>1
      <4>3. ifRange.form # "none"
        BY <4>2 DEF IfRangeMatches
      <4> QED BY <1>r, <4>3 DEF NoHeader
    <3>3. reply'.body \in Seq(Etags \X Nat)
      <4>1. Length(etag) \in Nat /\ 0 \in Nat
        BY <1>6, EtagFacts
      <4> QED BY <1>6, <3>1, <4>1, BytesFacts
    <3>4. WholeOK'
      <4>1. big' = big
        BY <1>0 DEF big, Oversized
      <4> QED BY <1>0, <1>1, <1>4, <1>6, <3>1, <3>2, <4>1 DEF WholeOK, big
    <3> QED BY <3>1, <3>3, <3>4 DEF ReplyOK, PlaceOK
  <2> QED BY <1>2, <2>1, <2>2, <2>3, <2>4, <2>5
<1> QED BY <1>7, <1>8 DEF DownloadInv


\* Whatever part of the body arrives, the client keeps the beginning of one
\* representation: a 206 only ever continues the copy it was asked for.
LEMMA ReceivedOK ==
  ASSUME FilesOK, CopyOK, ReplyOK, phase = "answered", NEW n \in 0..Len(reply.body)
  PROVE  LET c == Received(n) IN
         /\ c \in [etag : Etags \cup {NoEtag}, bytes : Seq(Etags \X Nat)]
         /\ c.bytes = Bytes(c.etag, 0, Len(c.bytes))
         /\ IF c.etag = NoEtag THEN c.bytes = <<>>
            ELSE c.etag.version <= latest /\ Len(c.bytes) <= Length(c.etag)
<1> DEFINE c == Received(n)
           P == Etags \X Nat
           part == SubSeq(reply.body, 1, n)
           Kept(x) == /\ x \in [etag : Etags \cup {NoEtag}, bytes : Seq(P)]
                      /\ x.bytes = Bytes(x.etag, 0, Len(x.bytes))
                      /\ IF x.etag = NoEtag THEN x.bytes = <<>>
                         ELSE x.etag.version <= latest /\ Len(x.bytes) <= Length(x.etag)
<1>0. Kept(copy) /\ copy = [etag |-> copy.etag, bytes |-> copy.bytes]
  BY DEF CopyOK
\* The beginning of a representation is a copy.
<1>1. ASSUME NEW e \in Etags, NEW m \in Nat, e.version <= latest, m <= Length(e)
      PROVE  Kept([etag |-> e, bytes |-> Bytes(e, 0, m)])
  <2> DEFINE b == Bytes(e, 0, m)
             x == [etag |-> e, bytes |-> b]
  <2>1. b \in Seq(P) /\ Len(b) = m /\ b = Bytes(e, 0, m)
    BY BytesFacts
  <2> HIDE DEF b, P
  <2>2. x.etag = e /\ x.bytes = b /\ x \in [etag : Etags \cup {NoEtag}, bytes : Seq(P)]
    BY <2>1
  <2>3. x.bytes = Bytes(x.etag, 0, Len(x.bytes))
    BY <2>1, <2>2
  <2>4. e # NoEtag
    BY EtagFacts
  <2> HIDE DEF x
  <2>5. Kept(x)
    BY <1>1, <2>1, <2>2, <2>3, <2>4
  <2> QED BY <2>5 DEF x, b
<1>2. CASE req.kind \in {"get", "resume", "check"} /\ reply.status = "200"
  <2>1. c = [etag |-> reply.etag, bytes |-> part]
    BY <1>2 DEF Received
  <2>2. /\ reply.etag \in Etags /\ reply.etag.version <= latest
        /\ reply.body = Bytes(reply.etag, 0, Length(reply.etag)) /\ Length(reply.etag) \in Nat
    BY <1>2, EtagFacts DEF ReplyOK, WholeOK, FilesOK
  <2>3. Len(reply.body) = Length(reply.etag)
    <3>1. Len(Bytes(reply.etag, 0, Length(reply.etag))) = Length(reply.etag)
      BY <2>2, BytesFacts
    <3> QED BY <2>2, <3>1
  <2>4. part = Bytes(reply.etag, 0, n)
    BY <2>2, <2>3, BytesPrefix
  <2>5. n \in Nat /\ n <= Length(reply.etag)
    BY <2>2, <2>3
  <2>6. Kept([etag |-> reply.etag, bytes |-> Bytes(reply.etag, 0, n)])
    BY <1>1, <2>2, <2>5
  <2> QED BY <2>1, <2>4, <2>6
<1>3. CASE req.kind = "resume" /\ reply.status = "206"
  <2>1. c = [etag |-> copy.etag, bytes |-> copy.bytes \o part]
    <3>1. c = [copy EXCEPT !.bytes = @ \o part]
      BY <1>3 DEF Received
    <3> QED BY <1>0, <3>1
  <2>2. PICK s, l \in Nat :
          /\ reply.body = Bytes(reply.etag, s, l) /\ s + l <= Size[fd]
          /\ copy.etag = reply.etag /\ s = Len(copy.bytes)
    BY <1>3 DEF ReplyOK, PartOK
  <2>3. fd \in Versions /\ reply.etag = MakeEtag(fd, FALSE) /\ fd <= latest
    <3>1. fd # 0 /\ reply.etag = MakeEtag(fd, FALSE)
      BY <1>3 DEF ReplyOK, PartOK
    <3>2. fd \in Nat /\ fd <= latest /\ latest \in Versions
      BY DEF FilesOK
    <3>3. fd \in Versions
      BY <3>1, <3>2, VersionFacts
    <3> QED BY <3>1, <3>2, <3>3
  <2> DEFINE e == reply.etag
  <2>4. e \in Etags /\ e.version = fd /\ Length(e) = Size[fd] /\ Length(e) \in Nat
    <3>1. e \in Etags
      BY <2>3, EtagFacts
    <3>2. e.version = fd /\ e.gzip = FALSE
      BY <2>3 DEF MakeEtag
    <3>3. Length(e) = Size[fd]
      BY <3>2 DEF Length
    <3> QED BY <3>1, <3>2, <3>3, EtagFacts
  <2>5. n \in Nat /\ n <= l /\ n \in 0..l
    <3>1. Len(Bytes(e, s, l)) = l
      BY BytesFacts
    <3>2. Len(reply.body) = l
      BY <2>2, <3>1
    <3> QED BY <3>2
  <2>6. part = Bytes(e, s, n)
    <3>1. SubSeq(Bytes(e, s, l), 1, n) = Bytes(e, s, n)
      BY <2>5, BytesPrefix
    <3> QED BY <2>2, <3>1
  <2> HIDE DEF e
  <2>7. copy.bytes = Bytes(e, 0, s)
    BY <1>0, <2>2 DEF e
  <2>8. copy.bytes \o part = Bytes(e, 0, s + n)
    BY <2>4, <2>5, <2>6, <2>7, BytesJoin
  <2>9. s + n \in Nat /\ s + n <= Length(e) /\ e.version <= latest
    BY <2>2, <2>3, <2>4, <2>5
  <2>10. Kept([etag |-> e, bytes |-> Bytes(e, 0, s + n)])
    BY <1>1, <2>4, <2>9
  <2> QED BY <2>1, <2>2, <2>8, <2>10 DEF e
<1>4. CASE c = NoCopy
  <2>1. /\ NoCopy.etag = NoEtag /\ NoCopy.bytes = <<>> /\ <<>> \in Seq(P)
        /\ NoCopy \in [etag : Etags \cup {NoEtag}, bytes : Seq(P)]
    BY DEF NoCopy
  <2>2. Bytes(NoEtag, 0, 0) = <<>> /\ Len(<<>>) = 0
    BY DEF Bytes
  <2> QED BY <1>4, <2>1, <2>2
<1>5. CASE c = copy
  BY <1>0, <1>5
<1> QED BY <1>2, <1>3, <1>4, <1>5 DEF Received

LEMMA ReceiveInv ==
  ASSUME DownloadInv, NEW n \in 0..Len(reply.body), Receive(n) PROVE DownloadInv'
<1>0. FilesOK /\ CopyOK /\ ReplyOK
  BY DEF DownloadInv
<1>1. /\ phase = "answered" /\ copy' = Received(n) /\ phase' = "idle" /\ fd' = 0
      /\ UNCHANGED <<lists, disk, latest>>
  BY DEF Receive
<1>2. CopyOK'
  <2>1. latest' = latest
    BY <1>1
  <2> QED BY <1>0, <1>1, <2>1, ReceivedOK DEF CopyOK
<1>3. latest \in Nat
  BY <1>0, VersionFacts DEF FilesOK
<1>4. FilesOK'
  BY <1>0, <1>1, <1>3 DEF FilesOK
<1> QED BY <1>1, <1>2, <1>4 DEF DownloadInv, RequestOK, ReplyOK, PlaceOK

LEMMA DownloadInit == Init => DownloadInv
<1> SUFFICES ASSUME Init PROVE DownloadInv
  OBVIOUS
<1>1. FilesOK
  BY VersionFacts DEF Init, FilesOK
<1>2. CopyOK
  <2>1. /\ NoCopy.etag = NoEtag /\ NoCopy.bytes = <<>> /\ <<>> \in Seq(Etags \X Nat)
        /\ NoCopy \in [etag : Etags \cup {NoEtag}, bytes : Seq(Etags \X Nat)]
    BY DEF NoCopy
  <2>2. Bytes(NoEtag, 0, 0) = <<>> /\ Len(<<>>) = 0
    BY DEF Bytes
  <2> QED BY <2>1, <2>2 DEF Init, CopyOK
<1> QED BY <1>1, <1>2 DEF Init, DownloadInv, RequestOK, ReplyOK, PlaceOK

LEMMA DownloadNext == DownloadInv /\ [Next]_vars => DownloadInv'
<1> SUFFICES ASSUME DownloadInv, [Next]_vars PROVE DownloadInv'
  OBVIOUS
<1>1. CASE UNCHANGED vars
  <2>1. FilesOK' /\ CopyOK'
    BY <1>1 DEF vars, DownloadInv, FilesOK, CopyOK
  <2>2. RequestOK' /\ ReplyOK' /\ PlaceOK'
    BY <1>1, RequestKept DEF vars, DownloadInv
  <2> QED BY <2>1, <2>2 DEF DownloadInv
<1> QED BY <1>1, OperatorInv, DispatchInv, OpenInv, ServeInv, AskInv, ReceiveInv
        DEF Next, Server, Client

LEMMA AlwaysDownloadInv == Spec => []DownloadInv
  BY DownloadInit, DownloadNext, PTL DEF Spec


-----------------------------------------------------------------------------
(* The theorems *)

\* fastdl_server.cpp, header(), parseRange() and the 206 of serveFile(): whatever
\* digits a range is written with, if the header is short enough to be read the
\* body has exactly the bytes it selects, and a refused range selects nothing or
\* exceeds std::uint64_t; a longer header is ignored.
THEOREM RangesAlwaysExact == Spec => []RangeExact
<1>1. DownloadInv => RangeExact
  <2> SUFFICES ASSUME DownloadInv, phase = "answered", req.range.form = "bytes"
               PROVE  RangeExact
    BY DEF RangeExact
  <2> DEFINE wanted == Selected(req.range, Size[fd])
             body == reply.body
  <2>0. ReplyOK
    BY DEF DownloadInv
  <2>1. ASSUME reply.status = "206"
        PROVE  /\ {b[2] : b \in ToSet(body)} = wanted
               /\ \A i \in DOMAIN body : body[i] = <<MakeEtag(fd, FALSE), body[1][2] + i - 1>>
    <3>1. PartOK
      BY <2>0, <2>1 DEF ReplyOK
    <3>2. PICK s, l \in Nat : body = Bytes(reply.etag, s, l) /\ wanted = s..(s + l - 1)
      BY <3>1 DEF PartOK
    <3> DEFINE e == MakeEtag(fd, FALSE)
    <3>3. body = Bytes(e, s, l)
      BY <3>1, <3>2 DEF PartOK
    <3>4. DOMAIN Bytes(e, s, l) = 1..l /\ \A i \in 1..l : Bytes(e, s, l)[i] = <<e, s + i - 1>>
      BY BytesFacts
    <3> HIDE DEF e, wanted, body
    <3>5. DOMAIN body = 1..l /\ \A i \in 1..l : body[i] = <<e, s + i - 1>>
      BY <3>3, <3>4
    <3>6. \A i \in 1..l : body[i][2] = s + i - 1
      BY <3>5
    <3>7. {b[2] : b \in ToSet(body)} = wanted
      <4>1. {b[2] : b \in ToSet(body)} = {body[i][2] : i \in 1..l}
        BY <3>5 DEF ToSet
      <4>2. {body[i][2] : i \in 1..l} = s..(s + l - 1)
        <5>1. \A k \in s..(s + l - 1) : k - s + 1 \in 1..l /\ s + (k - s + 1) - 1 = k
          OBVIOUS
        <5>2. \A i \in 1..l : s + i - 1 \in s..(s + l - 1)
          OBVIOUS
        <5>3. {body[i][2] : i \in 1..l} \subseteq s..(s + l - 1)
          BY <3>6, <5>2
        <5>4. ASSUME NEW k \in s..(s + l - 1) PROVE k \in {body[i][2] : i \in 1..l}
          <6>1. k - s + 1 \in 1..l /\ body[k - s + 1][2] = k
            BY <3>6, <5>1
          <6> QED BY <6>1
        <5> QED BY <5>3, <5>4
      <4> QED BY <3>2, <4>1, <4>2
    <3>8. \A i \in DOMAIN body : body[i] = <<e, body[1][2] + i - 1>>
      <4> TAKE i \in DOMAIN body
      <4>1. 1 \in 1..l /\ i \in 1..l
        BY <3>5
      <4>2. body[1][2] = s
        BY <3>6, <4>1
      <4> QED BY <3>5, <4>1, <4>2
    <3> QED BY <3>7, <3>8 DEF e
  <2>2. ASSUME reply.status = "416"
        PROVE  wanted = {} \/ ~(Understood(req.range.first) /\ Understood(req.range.last))
    BY <2>0, <2>2 DEF ReplyOK, RefusedOK
  <2>3. ASSUME reply.status = "200"
        PROVE  req.ifRange.form # "none" \/ "Range" \in Oversized(req)
    BY <2>0, <2>3 DEF ReplyOK, WholeOK
  <2>4. ASSUME "Range" \in Oversized(req) PROVE reply.status \notin {"206", "416"}
    BY <2>0, <2>4 DEF ReplyOK, PartOK, RefusedOK
  <2> QED BY <2>1, <2>2, <2>3, <2>4, Zenon DEF RangeExact
<1> QED BY <1>1, AlwaysDownloadInv, PTL

\* fastdl_server.cpp, ifRangeMatches() and serveFile(): a client that resumes
\* never ends with bytes of two versions, or of the compressed and the plain
\* representation, in one copy, for any sequence of replacements.
THEOREM CopyAlwaysCoherent == Spec => []CopyCoherent
<1>1. DownloadInv => CopyCoherent
  <2> SUFFICES ASSUME DownloadInv, NEW i \in DOMAIN copy.bytes
               PROVE  copy.bytes[i] = <<copy.etag, i - 1>>
    BY DEF CopyCoherent
  <2>1. /\ copy.bytes \in Seq(Etags \X Nat)
        /\ copy.bytes = Bytes(copy.etag, 0, Len(copy.bytes))
    BY DEF DownloadInv, CopyOK
  <2>2. Len(copy.bytes) \in Nat /\ i \in 1..Len(copy.bytes)
    BY <2>1
  <2>3. Bytes(copy.etag, 0, Len(copy.bytes))[i] = <<copy.etag, 0 + i - 1>>
    BY <2>2, BytesFacts
  <2>4. copy.bytes[i] = <<copy.etag, 0 + i - 1>>
    BY <2>1, <2>3, Zenon
  <2>5. 0 + i - 1 = i - 1
    BY <2>2
  <2> QED BY <2>4, <2>5, Zenon
<1> QED BY <1>1, AlwaysDownloadInv, PTL

\* fastdl_server.cpp, the conditional requests of serveFile(): 304 only confirms a
\* copy of the version that is opened, whichever condition was read.
THEOREM NotModifiedAlwaysCurrent == Spec => []NotModifiedCurrent
<1>1. DownloadInv => NotModifiedCurrent
  BY DEF DownloadInv, ReplyOK, RequestOK, NotModifiedCurrent
<1> QED BY <1>1, AlwaysDownloadInv, PTL

\* fastdl_server.cpp, acceptsGzip(): gzip is only sent to a client that named
\* it as acceptable, or named none but all codings.
THEOREM GzipAlwaysAccepted == Spec => []GzipOnlyWhenAccepted
<1>1. DownloadInv => GzipOnlyWhenAccepted
  <2> SUFFICES ASSUME DownloadInv, phase = "answered", reply.status = "200", reply.etag.gzip
               PROVE  GzipOnlyWhenAccepted
    BY DEF GzipOnlyWhenAccepted
  <2>1. AcceptsGzip(req.accept)
    BY DEF DownloadInv, ReplyOK, WholeOK
  <2>2. req.accept \in Seq([coding : STRING, allowed : BOOLEAN])
    BY DEF DownloadInv, RequestOK
  <2> QED BY <2>1, <2>2, AcceptsGzipBy DEF GzipOnlyWhenAccepted
<1> QED BY <1>1, AlwaysDownloadInv, PTL

\* path_resolver.cpp, resolve() and scanDirectories(): in every directory tree,
\* whatever links it has, what is served has a listed type and lies in a listed
\* directory that the build of the gzip cache visits, or is a root file of a type
\* listed for the root as well.
THEOREM ServedAlwaysListed == Spec => []ServedIsListed
<1>1. DownloadInv => ServedIsListed
  <2> SUFFICES ASSUME DownloadInv, phase = "answered", reply.status = "Ok"
               PROVE  ServedIsListed
    BY DEF ServedIsListed
  <2> DEFINE parts == Components(req.url)
             node == Canonical(parts)
             at == node.at
  <2>1. node.kind = "file" /\ node.under /\ Located(lists, parts, node)
    BY DEF DownloadInv, PlaceOK
  <2>0. lists.allTypes \/ ExtensionOf(node) \in lists.types
    BY DEF DownloadInv, PlaceOK, AllowedExtension
  <2>2. parts \in DOMAIN Tree /\ node = Tree[parts]
    BY <2>1 DEF Canonical, Missing
  <2>3. at \in Seq(STRING) /\ Len(at) > 0
    BY <2>1, <2>2, TreeIsCanonical
  <2>4. /\ Len(PartsUnder(node)) = Len(at)
        /\ Head(PartsUnder(node)) = Lower[at[1]]
    BY <2>3 DEF PartsUnder
  <2>5. CASE Len(parts) = 1
    <3>1. Len(at) = 1 /\ (lists.allRootTypes \/ ExtensionOf(node) \in lists.rootTypes)
      BY <2>1, <2>4, <2>5 DEF Located, AllowedRootExtension
    <3> QED BY <2>0, <3>1 DEF ServedIsListed
  <2>6. CASE Len(parts) # 1
    <3> DEFINE top == <<at[1]>>
    <3>1. Len(at) > 1 /\ AllowedDirectory(lists, Lower[at[1]])
      BY <2>1, <2>3, <2>4, <2>6 DEF Located
    <3>2. /\ top \in DOMAIN Tree
          /\ Tree[top] = [kind |-> "dir", under |-> TRUE, at |-> top, size |-> 0]
      BY <2>1, <2>2, <3>1, TreeIsCanonical
    <3>3. Len(top) = 1 /\ Tree[top].kind = "dir" /\ Tree[top].under /\ Tree[top].at = top
      BY <3>2
    <3>4. Head(PartsUnder(Tree[top])) = Lower[at[1]]
      BY <3>3 DEF PartsUnder
    <3>5. top \in ScanDirectories(lists)
      BY <3>1, <3>2, <3>3, <3>4 DEF ScanDirectories
    <3>6. SubSeq(at, 1, 1) = top
      <4> HIDE DEF at
      <4>1. SubSeq(at, 1, 1) \in Seq(STRING) /\ Len(SubSeq(at, 1, 1)) = 1
        BY <2>3, <3>1
      <4>2. SubSeq(at, 1, 1)[1] = at[1] /\ at[1] \in STRING
        BY <2>3, <3>1
      <4> DEFINE u == SubSeq(at, 1, 1)
                 w == <<at[1]>>
      <4>3. /\ u \in Seq(STRING) /\ Len(u) = 1 /\ u[1] = at[1]
            /\ w \in Seq(STRING) /\ Len(w) = 1 /\ w[1] = at[1]
        BY <4>1, <4>2
      <4> HIDE DEF u, w
      <4>4. u = w
        BY <4>3
      <4> QED BY <4>4 DEF u, w
    <3> QED BY <2>0, <3>1, <3>5, <3>6 DEF ServedIsListed
  <2> QED BY <2>5, <2>6
<1> QED BY <1>1, AlwaysDownloadInv, PTL
=============================================================================
