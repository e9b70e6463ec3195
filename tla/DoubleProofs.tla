---------------------------- MODULE DoubleProofs ----------------------------
(***************************************************************************)
(* What WriteDouble says of a floating-point number, for all numbers,      *)
(* specifications, earlier texts and capacities: FloatInv is the           *)
(* inductive invariant. While the C library is asked again and again the   *)
(* buffer keeps its used part, the sign has its room and, once the number  *)
(* fits, its characters are at the offset (Printing); afterwards sign,     *)
(* number and padding are where the alignment wants them (Shown). The      *)
(* lemmas before it say what the operators of WriterFields do with a       *)
(* sequence of characters.                                                 *)
(***************************************************************************)
EXTENDS WriteDouble, SequenceTheorems, TLAPS

-----------------------------------------------------------------------------
(* A function on 1 .. n is a sequence.                                     *)
LEMMA SequenceIs ==
  ASSUME NEW S, NEW n \in Nat, NEW s, DOMAIN s = 1 .. n, s = [i \in 1 .. n |-> s[i]],
         \A i \in 1 .. n : s[i] \in S
  PROVE  s \in Seq(S) /\ Len(s) = n
<1>1. s \in [1 .. n -> S]
  OBVIOUS
<1> QED
  BY <1>1

LEMMA CopiedIs ==
  ASSUME NEW b \in Seq(Glyphs), NEW p \in Int, NEW s \in Seq(Glyphs)
  PROVE  /\ Copied(b, p, s) \in Seq(Glyphs)
         /\ Len(Copied(b, p, s)) = Len(b)
         /\ \A i \in 1 .. Len(b) :
               Copied(b, p, s)[i] =
                 IF p + 1 <= i /\ i <= p + Len(s) THEN s[i - p] ELSE b[i]
<1> DEFINE c == Copied(b, p, s)
<1>1. Len(b) \in Nat /\ Len(s) \in Nat /\ DOMAIN b = 1 .. Len(b)
  OBVIOUS
<1>2. c = [i \in 1 .. Len(b) |-> IF i \in (p + 1) .. (p + Len(s)) THEN s[i - p] ELSE b[i]]
  BY <1>1 DEF Copied
<1>3. ASSUME NEW i \in 1 .. Len(b)
      PROVE  c[i] = IF p + 1 <= i /\ i <= p + Len(s) THEN s[i - p] ELSE b[i]
  BY <1>1, <1>2
<1>4. ASSUME NEW i \in 1 .. Len(b) PROVE c[i] \in Glyphs
  <2>1. CASE p + 1 <= i /\ i <= p + Len(s)
    <3>1. i - p \in 1 .. Len(s)
      BY <2>1, <1>1
    <3> QED
      BY <3>1, <2>1, <1>3
  <2>2. CASE ~(p + 1 <= i /\ i <= p + Len(s))
    BY <2>2, <1>3
  <2> QED
    BY <2>1, <2>2
<1>5. DOMAIN c = 1 .. Len(b) /\ c = [i \in 1 .. Len(b) |-> c[i]]
  BY <1>2
<1> HIDE DEF c
<1>6. c \in Seq(Glyphs) /\ Len(c) = Len(b)
  BY <1>1, <1>4, <1>5, SequenceIs
<1> QED
  BY <1>3, <1>6 DEF c

LEMMA RepeatedIs ==
  ASSUME NEW c \in Glyphs, NEW n \in Int
  PROVE  /\ Repeated(c, n) \in Seq(Glyphs)
         /\ Len(Repeated(c, n)) = IF n > 0 THEN n ELSE 0
         /\ \A i \in 1 .. n : Repeated(c, n)[i] = c
<1> DEFINE r == Repeated(c, n)
           k == IF n > 0 THEN n ELSE 0
<1>1. k \in Nat /\ 1 .. k = 1 .. n
  OBVIOUS
<1>2. r = [i \in 1 .. k |-> c]
  BY <1>1 DEF Repeated
<1>3. r \in Seq(Glyphs) /\ Len(r) = k
  <2> HIDE DEF k
  <2> QED
    BY <1>1, <1>2, SequenceIs
<1> QED
  BY <1>1, <1>2, <1>3

LEMMA MaxIs ==
  ASSUME NEW m \in Int, NEW n \in Int
  PROVE  /\ Max({m, n}) = IF m > n THEN m ELSE n
         /\ Min({m, n}) = IF m < n THEN m ELSE n
  BY DEF Max, Min

LEMMA FilledIs ==
  ASSUME NEW b \in Seq(Glyphs), NEW p \in Int, NEW n \in Int, NEW c \in Glyphs
  PROVE  /\ Filled(b, p, n, c) \in Seq(Glyphs)
         /\ Len(Filled(b, p, n, c)) = Len(b)
         /\ \A i \in 1 .. Len(b) :
               Filled(b, p, n, c)[i] =
                 IF p + 1 <= i /\ i <= p + n THEN c ELSE b[i]
<1> DEFINE r == Repeated(c, n)
<1>1. /\ r \in Seq(Glyphs) /\ Len(r) = (IF n > 0 THEN n ELSE 0)
      /\ \A i \in 1 .. n : r[i] = c
  BY RepeatedIs
<1>2. Filled(b, p, n, c) = Copied(b, p, r)
  BY DEF Filled
<1> HIDE DEF r
<1>3. Len(b) \in Nat
  OBVIOUS
<1>4. ASSUME NEW i \in 1 .. Len(b)
      PROVE  Copied(b, p, r)[i] = IF p + 1 <= i /\ i <= p + n THEN c ELSE b[i]
  <2>1. Copied(b, p, r)[i] = IF p + 1 <= i /\ i <= p + Len(r) THEN r[i - p] ELSE b[i]
    BY <1>1, CopiedIs
  <2>2. CASE p + 1 <= i /\ i <= p + n
    <3>1. i - p \in 1 .. n /\ i <= p + Len(r)
      BY <2>2, <1>1, <1>3
    <3> QED
      BY <3>1, <2>1, <2>2, <1>1
  <2>3. CASE ~(p + 1 <= i /\ i <= p + n)
    <3>1. ~(p + 1 <= i /\ i <= p + Len(r))
      BY <2>3, <1>1, <1>3
    <3> QED
      BY <3>1, <2>1, <2>3
  <2> QED
    BY <2>2, <2>3
<1> QED
  BY <1>1, <1>2, <1>4, CopiedIs

-----------------------------------------------------------------------------
(* Room in a field.                                                        *)
LEMMA PaddingIs ==
  ASSUME NEW b \in Seq(Glyphs), NEW p \in Nat, NEW total \in Nat, NEW content \in Nat,
         content <= total, p + total <= Len(b), NEW c \in Glyphs
  PROVE  /\ fill_padding(b, p, total, content, c).at = p + (total - content) \div 2
         /\ fill_padding(b, p, total, content, c).buffer \in Seq(Glyphs)
         /\ Len(fill_padding(b, p, total, content, c).buffer) = Len(b)
         /\ \A i \in 1 .. Len(b) :
               fill_padding(b, p, total, content, c).buffer[i] =
                 IF \/ p + 1 <= i /\ i <= p + (total - content) \div 2
                    \/ p + (total - content) \div 2 + content + 1 <= i /\ i <= p + total
                 THEN c ELSE b[i]
<1> DEFINE left == (total - content) \div 2
           one == Filled(b, p, left, c)
           <1>1. left \in Nat /\ left <= total - content
  OBVIOUS
<1> HIDE DEF left
<1>2. /\ one \in Seq(Glyphs) /\ Len(one) = Len(b)
      /\ \A i \in 1 .. Len(b) :
            one[i] = IF p + 1 <= i /\ i <= p + left THEN c ELSE b[i]
  BY <1>1, FilledIs
<1> HIDE DEF one
<1> DEFINE x == p + left + content
           y == total - content - left
<1>3. x \in Int /\ y \in Int
  BY <1>1
<1> HIDE DEF x, y
<1> DEFINE two == Filled(one, x, y, c)
<1>4. /\ two \in Seq(Glyphs) /\ Len(two) = Len(one)
      /\ \A i \in 1 .. Len(one) :
            two[i] = IF x + 1 <= i /\ i <= x + y THEN c ELSE one[i]
  BY <1>2, <1>3, FilledIs
<1>5. fill_padding(b, p, total, content, c) = [buffer |-> two, at |-> p + left]
  BY DEF fill_padding, two, one, left, x, y
<1> HIDE DEF two
<1>6. Len(b) \in Nat
  OBVIOUS
<1>7. ASSUME NEW i \in 1 .. Len(b)
      PROVE  two[i] = IF \/ p + 1 <= i /\ i <= p + left
                         \/ p + left + content + 1 <= i /\ i <= p + total
                      THEN c ELSE b[i]
  <2>1. x = p + left + content /\ x + y = p + total
    BY <1>1 DEF x, y
  <2> QED
    BY <2>1, <1>1, <1>2, <1>4, <1>6
<1> QED
  BY <1>2, <1>4, <1>5, <1>7 DEF left

LEMMA GrownIs ==
  ASSUME Unwritten \in Glyphs, NEW b \in Seq(Glyphs), NEW n \in Nat
  PROVE  /\ grow_buffer(b, n) \in Seq(Glyphs)
         /\ Len(grow_buffer(b, n)) = Len(b) + n
         /\ \A i \in 1 .. Len(b) : grow_buffer(b, n)[i] = b[i]
<1> DEFINE r == Repeated(Unwritten, n)
<1>1. n \in Int
  OBVIOUS
<1>2. r \in Seq(Glyphs) /\ Len(r) = IF n > 0 THEN n ELSE 0
  BY <1>1, RepeatedIs
<1>3. grow_buffer(b, n) = b \o r
  BY DEF grow_buffer
<1> HIDE DEF r
<1>4. r \in Seq(Glyphs) /\ Len(r) = n
  BY <1>2
<1>5. b \o r \in Seq(Glyphs) /\ Len(b \o r) = Len(b) + n
  BY <1>4
<1>6. ASSUME NEW i \in 1 .. Len(b) PROVE (b \o r)[i] = b[i]
  BY <1>4
<1> QED
  BY <1>3, <1>5, <1>6

(* A field for n characters keeps what was there, and consists of them and *)
(* of padding.                                                             *)
IsField(b, n, w, c, field) ==
    /\ field.buffer \in Seq(Glyphs)
    /\ Len(field.buffer) = Len(b) + IF w > n THEN w ELSE n
    /\ field.at \in Nat
    /\ field.at >= Len(b) /\ field.at + n <= Len(field.buffer)
    /\ \A i \in 1 .. Len(b) : field.buffer[i] = b[i]
    /\ \A i \in (Len(b) + 1) .. Len(field.buffer) :
          i <= field.at \/ i > field.at + n => field.buffer[i] = c

LEMMA FieldIs ==
  ASSUME Unwritten \in Glyphs, NEW b \in Seq(Glyphs), NEW n \in Nat,
         NEW s, s.width \in Nat, s.fill \in Glyphs
  PROVE  IsField(b, n, s.width, s.fill, Field(b, n, s))
<1> DEFINE p == Len(b)
           w == s.width
           c == s.fill
           grown == grow_buffer(b, w)
           field == Field(b, n, s)
<1>1. p \in Nat /\ w \in Nat /\ c \in Glyphs
  OBVIOUS
<1>2. /\ grown \in Seq(Glyphs) /\ Len(grown) = p + w
      /\ \A i \in 1 .. p : grown[i] = b[i]
  BY <1>1, GrownIs
<1>3. /\ w <= n => field = [buffer |-> grow_buffer(b, n), at |-> p]
      /\ w > n /\ s.align = "RIGHT" =>
            field = [buffer |-> Filled(grown, p, w - n, c), at |-> p + (w - n)]
      /\ w > n /\ s.align = "CENTER" =>
            field = fill_padding(grown, p, w, n, c)
      /\ w > n /\ s.align \notin {"RIGHT", "CENTER"} =>
            field = [buffer |-> Filled(grown, p + n, w - n, c), at |-> p]
  BY <1>1 DEF Field
<1> HIDE DEF w, c, p, grown, field
<1>4. CASE w <= n
  <2> DEFINE g == grow_buffer(b, n)
  <2>1. g \in Seq(Glyphs) /\ Len(g) = p + n /\ \A i \in 1 .. p : g[i] = b[i]
    BY GrownIs DEF p
  <2> HIDE DEF g
  <2>2. field = [buffer |-> g, at |-> p]
    BY <1>3, <1>4 DEF g
  <2> QED
    BY <2>1, <2>2, <1>1, <1>4 DEF IsField, field, w, c, p
<1>5. CASE w > n /\ s.align # "CENTER"
  <2> DEFINE x == IF s.align = "RIGHT" THEN p ELSE p + n
             y == w - n
             g == Filled(grown, x, y, c)
  <2>1. x \in Int /\ y \in Int
    BY <1>1
  <2>2. field = [buffer |-> g, at |-> IF s.align = "RIGHT" THEN p + y ELSE p]
    BY <1>3, <1>5
  <2> HIDE DEF x, y
  <2>3. /\ g \in Seq(Glyphs) /\ Len(g) = Len(grown)
        /\ \A i \in 1 .. Len(grown) :
              g[i] = IF x + 1 <= i /\ i <= x + y THEN c ELSE grown[i]
    BY <1>1, <1>2, <2>1, FilledIs
  <2> HIDE DEF g
  <2> DEFINE at == IF s.align = "RIGHT" THEN p + y ELSE p
  <2>4. /\ at \in Nat /\ at >= p /\ at + n <= p + w
        /\ \A i \in (p + 1) .. (p + w) :
              i <= at \/ i > at + n => x + 1 <= i /\ i <= x + y
        /\ x >= p
    BY <1>1, <1>5 DEF x, y
  <2>5. field.buffer = g /\ field.at = at
    BY <2>2
  <2> HIDE DEF at
  <2>6. \A i \in 1 .. p : g[i] = b[i]
    BY <2>3, <2>4, <1>1, <1>2, <2>1
  <2>7. \A i \in (p + 1) .. (p + w) : i <= at \/ i > at + n => g[i] = c
    BY <2>3, <2>4, <1>1, <1>2
  <2>8. IsField(b, n, w, c, field)
    BY <2>3, <2>4, <2>5, <2>6, <2>7, <1>1, <1>2, <1>5 DEF IsField, p
  <2> QED
    BY <2>8 DEF field, w, c
<1>6. CASE w > n /\ s.align = "CENTER"
  <2> DEFINE half == (w - n) \div 2
             at == p + half
             area == fill_padding(grown, p, w, n, c)
  <2>1. half \in Nat /\ half <= w - n
    BY <1>1, <1>6
  <2>9. at = p + (w - n) \div 2 /\ n <= w /\ p + w <= Len(grown)
    BY <1>1, <1>2, <1>6
  <2> HIDE DEF at, half
  <2>12. grown \in Seq(Glyphs) /\ p \in Nat /\ w \in Nat /\ c \in Glyphs /\ n \in Nat
    BY <1>1, <1>2
  <2>0. area.at = p + (w - n) \div 2
    BY <2>9 DEF fill_padding
  <2>10. area.buffer \in Seq(Glyphs) /\ Len(area.buffer) = Len(grown)
    BY <2>9, <2>12, PaddingIs
  <2>11. \A i \in 1 .. Len(grown) :
            area.buffer[i] = IF \/ p + 1 <= i /\ i <= p + (w - n) \div 2
                                \/ p + (w - n) \div 2 + n + 1 <= i /\ i <= p + w
                             THEN c ELSE grown[i]
    BY <2>9, <2>12, PaddingIs
  <2>2. /\ area.at = at
        /\ area.buffer \in Seq(Glyphs)
        /\ Len(area.buffer) = Len(grown)
        /\ \A i \in 1 .. Len(grown) :
              area.buffer[i] = IF \/ p + 1 <= i /\ i <= at
                                  \/ at + n + 1 <= i /\ i <= p + w
                               THEN c ELSE grown[i]
    BY <2>0, <2>9, <2>10, <2>11
  <2>3. field = area
    BY <1>3, <1>6
  <2> HIDE DEF area
  <2>4. at \in Nat /\ at >= p /\ at + n <= p + w
    BY <2>1, <1>1, <1>6 DEF at
  <2> DEFINE g == area.buffer
  <2>6. \A i \in 1 .. p : g[i] = b[i]
    BY <2>2, <2>4, <1>1, <1>2
  <2>7. \A i \in (p + 1) .. (p + w) : i <= at \/ i > at + n => g[i] = c
    BY <2>2, <2>4, <1>1, <1>2
  <2>8. g \in Seq(Glyphs) /\ Len(g) = p + w /\ field.buffer = g /\ field.at = at
    BY <2>2, <2>3, <1>2
  <2> HIDE DEF g
  <2>5. IsField(b, n, w, c, field)
    BY <2>4, <2>6, <2>7, <2>8, <1>1, <1>6 DEF IsField, p
  <2> QED
    BY <2>5 DEF field, w, c
<1> QED
  BY <1>1, <1>4, <1>5, <1>6

-----------------------------------------------------------------------------
(* Floating-point numbers.                                                 *)
LEMMA SignIs ==
  ASSUME FloatAssumption, NEW v \in Values, NEW s \in Specs
  PROVE  /\ SignOf(v, s) \in Seq(Glyphs)
         /\ \/ SignOf(v, s) = <<>> /\ Len(SignOf(v, s)) = 0
            \/ SignOf(v, s) # <<>> /\ Len(SignOf(v, s)) = 1
<1> DEFINE sign == SignOf(v, s)
<1>1. sign = <<>> \/ sign = <<"-">> \/ sign = <<"+">> \/ sign = <<Blank>>
  BY DEF FloatAssumption, SignOf, Sign
<1>2. {Blank, "-", "+"} \subseteq Glyphs
  BY DEF FloatAssumption
<1> HIDE DEF sign
<1>3. CASE sign = <<>>
  BY <1>3 DEF sign
<1>4. CASE \E c \in Glyphs : sign = <<c>>
  <2>1. PICK c \in Glyphs : sign = <<c>>
    BY <1>4
  <2>2. <<c>> \in Seq(Glyphs) /\ Len(<<c>>) = 1 /\ <<c>> # <<>>
    OBVIOUS
  <2> QED
    BY <2>1, <2>2 DEF sign
<1> QED
  BY <1>1, <1>2, <1>3, <1>4

(* The characters of a number begin behind the blanks.                     *)
Blanks(v, s) ==
    IF s.align = "LEFT" THEN 0 ELSE Len(Printed(v, s)) - Len(v.chars)

LEMMA PrintedIs ==
  ASSUME FloatAssumption, NEW v \in Values, NEW s \in Specs
  PROVE  LET printed == Printed(v, s)
             blanks == Blanks(v, s)
             width == IF s.align = "CENTER" THEN 0 ELSE s.width - Len(SignOf(v, s))
         IN  /\ printed \in Seq(Glyphs)
             /\ Len(printed) = IF width > Len(v.chars) THEN width ELSE Len(v.chars)
             /\ blanks \in Nat /\ blanks + Len(v.chars) <= Len(printed)
             /\ s.align # "LEFT" => blanks + Len(v.chars) = Len(printed)
             /\ \A i \in 1 .. Len(printed) :
                   printed[i] = IF blanks + 1 <= i /\ i <= blanks + Len(v.chars)
                                THEN v.chars[i - blanks] ELSE Blank
<1> DEFINE printed == Printed(v, s)
           chars == v.chars
           w == IF s.align = "CENTER" THEN 0 ELSE s.width - Len(SignOf(v, s))
           short == Max({0, w - Len(chars)})
           pad == Repeated(Blank, short)
           n == IF w > Len(chars) THEN w - Len(chars) ELSE 0
<1>1. chars \in Seq(Glyphs) /\ Len(chars) \in Nat /\ Blank \in Glyphs /\ s.width \in Nat
  <2>1. v.chars \in Seq(Glyphs) /\ s.width \in Nat
    BY DEF FloatAssumption
  <2>2. Blank \in Glyphs
    BY DEF FloatAssumption
  <2> QED
    BY <2>1, <2>2
<1>2. Len(SignOf(v, s)) \in Nat
  BY SignIs
<1>3. w \in Int
  BY <1>1, <1>2
<1>4. printed = IF s.align = "LEFT" THEN chars \o pad ELSE pad \o chars
  BY DEF Printed, w, pad, short
<1> HIDE DEF w, chars
<1>5. w - Len(chars) \in Int /\ 0 \in Int
  BY <1>1, <1>3
<1>6. short = n /\ n \in Nat
  <2>1. short = IF 0 > w - Len(chars) THEN 0 ELSE w - Len(chars)
    BY <1>5, MaxIs
  <2> QED
    BY <2>1, <1>1, <1>3
<1> HIDE DEF n, short
<1>7. pad \in Seq(Glyphs) /\ Len(pad) = n /\ \A i \in 1 .. n : pad[i] = Blank
  <2>1. n \in Int /\ n >= 0
    BY <1>6
  <2>2. /\ Repeated(Blank, n) \in Seq(Glyphs)
        /\ Len(Repeated(Blank, n)) = IF n > 0 THEN n ELSE 0
        /\ \A i \in 1 .. n : Repeated(Blank, n)[i] = Blank
    BY <2>1, <1>1, RepeatedIs
  <2> QED
    BY <2>1, <2>2, <1>6
<1> HIDE DEF pad, printed
<1>8. printed \in Seq(Glyphs) /\ Len(printed) = n + Len(chars)
  <2>1. chars \o pad \in Seq(Glyphs) /\ Len(chars \o pad) = Len(chars) + n
    BY <1>1, <1>6, <1>7
  <2>2. pad \o chars \in Seq(Glyphs) /\ Len(pad \o chars) = n + Len(chars)
    BY <1>1, <1>6, <1>7
  <2> QED
    BY <2>1, <2>2, <1>1, <1>4, <1>6
<1>9. Blanks(v, s) = IF s.align = "LEFT" THEN 0 ELSE n
  BY <1>1, <1>6, <1>8 DEF Blanks, printed, chars
<1>10. ASSUME NEW i \in 1 .. Len(printed)
       PROVE  printed[i] = IF Blanks(v, s) + 1 <= i /\ i <= Blanks(v, s) + Len(chars)
                           THEN chars[i - Blanks(v, s)] ELSE Blank
  <2>1. CASE s.align = "LEFT"
    <3>1. printed[i] = IF i <= Len(chars) THEN chars[i] ELSE pad[i - Len(chars)]
      BY <2>1, <1>1, <1>4, <1>6, <1>7, <1>8
    <3>2. i > Len(chars) => i - Len(chars) \in 1 .. n
      BY <1>1, <1>6, <1>8
    <3> QED
      BY <3>1, <3>2, <2>1, <1>1, <1>7, <1>9
  <2>2. CASE s.align # "LEFT"
    <3>1. printed[i] = IF i <= n THEN pad[i] ELSE chars[i - n]
      BY <2>2, <1>1, <1>4, <1>6, <1>7, <1>8
    <3> QED
      BY <3>1, <2>2, <1>1, <1>6, <1>7, <1>8, <1>9
  <2> QED
    BY <2>1, <2>2
<1>11. Len(printed) = IF w > Len(chars) THEN w ELSE Len(chars)
  BY <1>1, <1>3, <1>8 DEF n
<1>12. /\ Blanks(v, s) \in Nat /\ Blanks(v, s) + Len(chars) <= Len(printed)
       /\ s.align # "LEFT" => Blanks(v, s) + Len(chars) = Len(printed)
  BY <1>1, <1>6, <1>8, <1>9
<1> QED
  BY <1>8, <1>10, <1>11, <1>12 DEF printed, chars, w

LEMMA ReservedIs ==
  ASSUME FloatAssumption, NEW b \in Seq(Glyphs), NEW n \in Nat, size \in 0 .. Len(b)
  PROVE  /\ reserved(b, n) \in Seq(Glyphs)
         /\ Len(reserved(b, n)) >= n
         /\ Len(reserved(b, n)) >= Len(b)
         /\ n <= Len(b) => reserved(b, n) = b
         /\ \A i \in 1 .. size : reserved(b, n)[i] = b[i]
<1> DEFINE r == reserved(b, n)
           half == Len(b) + Len(b) \div 2
           m == Max({n, half})
           rest == Repeated(Unwritten, m - size)
           kept == SubSeq(b, 1, size)
<1>1. Len(b) \in Nat /\ size \in Nat /\ size <= Len(b) /\ Len(b) \div 2 \in Nat
  OBVIOUS
<1>2. r = IF n <= Len(b) THEN b ELSE kept \o rest
  BY DEF reserved
<1>3. half \in Int /\ n \in Int
  BY <1>1
<1> HIDE DEF half
<1>4. m \in Int /\ m >= n
  <2>1. m = IF n > half THEN n ELSE half
    BY <1>3, MaxIs
  <2> QED
    BY <2>1, <1>3
<1> HIDE DEF m
<1>5. ASSUME n > Len(b)
      PROVE  rest \in Seq(Glyphs) /\ Len(rest) = m - size
  <2> DEFINE k == m - size
  <2>1. k \in Int /\ k > 0
    BY <1>1, <1>4, <1>5
  <2>2. Unwritten \in Glyphs
    BY DEF FloatAssumption
  <2> HIDE DEF k
  <2>3. /\ Repeated(Unwritten, k) \in Seq(Glyphs)
        /\ Len(Repeated(Unwritten, k)) = IF k > 0 THEN k ELSE 0
    BY <2>1, <2>2, RepeatedIs
  <2> QED
    BY <2>1, <2>3 DEF k
<1>6. /\ kept \in Seq(Glyphs) /\ Len(kept) = size
      /\ \A i \in 1 .. size : kept[i] = b[i]
  BY <1>1, SubSeqProperties
<1> HIDE DEF r, rest, kept
<1>7. CASE n <= Len(b)
  BY <1>1, <1>2, <1>7 DEF r
<1>8. CASE n > Len(b)
  <2>1. r = kept \o rest
    BY <1>1, <1>2, <1>8
  <2>4. rest \in Seq(Glyphs) /\ Len(rest) = m - size
    BY <1>1, <1>5, <1>8
  <2>5. Len(kept \o rest) = size + (m - size) /\ kept \o rest \in Seq(Glyphs)
    BY <2>4, <1>6
  <2>2. r \in Seq(Glyphs) /\ Len(r) = m
    BY <2>1, <2>5, <1>1, <1>4
  <2>3. \A i \in 1 .. size : r[i] = b[i]
    BY <2>1, <1>1, <1>5, <1>6, <1>8
  <2> QED
    BY <2>2, <2>3, <1>1, <1>4, <1>8 DEF r
<1> QED
  BY <1>1, <1>7, <1>8

(* The inductive invariant.                                                *)
Sgn == SignOf(value, spec)
Num == Printed(value, spec)

FloatTypes ==
    /\ cells \in Seq(Glyphs)
    /\ size \in 0 .. Len(cells)
    /\ offset \in 0 .. Len(cells)
    /\ value \in Values /\ spec \in Specs
    /\ pc \in {"begin", "print", "sign", "done"}
    /\ before.size \in 0 .. size
    /\ before.capacity \in 0 .. Len(cells)

(* Sign, number and padding are where the alignment wants them.            *)
Shown(at, signAt) ==
    /\ at \in (before.size + Len(Sgn)) .. (size - Len(value.chars))
    /\ Sgn # <<>> => signAt \in (before.size + 1) .. at /\ cells[signAt] = Sgn[1]
    /\ Sgn # <<>> => signAt = IF spec.align = "NUMERIC" THEN before.size + 1 ELSE at
    /\ value.finite /\ spec.align # "CENTER" =>
          at = IF spec.align = "LEFT" THEN before.size + Len(Sgn)
               ELSE size - Len(value.chars)
    /\ \A i \in 1 .. Len(value.chars) : cells[at + i] = value.chars[i]
    /\ \A i \in (before.size + 1) .. size :
          i <= at \/ i > at + Len(value.chars) =>
              \/ Sgn # <<>> /\ i = signAt
              \/ cells[i] = spec.fill
              \/ cells[i] = Blank /\ spec.align = "LEFT" /\ value.finite

NumberIsShown ==
    LET n == Len(Sgn) + Len(value.chars)
    IN  /\ size - before.size = IF spec.width > n THEN spec.width ELSE n
        /\ RoomForField => \E at, signAt \in Nat : Shown(at, signAt)

Printing ==
    /\ pc = "begin" => size = before.size
    /\ pc \in {"print", "sign"} =>
          /\ value.finite /\ size = before.size
          /\ offset = size + Len(Sgn)
          /\ Sgn # <<>> => size + spec.width <= Len(cells)
    /\ pc = "sign" =>
          /\ offset + Len(Num) < Len(cells)
          /\ \A i \in 1 .. Len(Num) : cells[offset + i] = Num[i]

FloatInv ==
    /\ FloatTypes
    /\ EarlierTextStays
    /\ Printing
    /\ pc = "done" => NumberIsShown

LEMMA SamePrefix ==
  ASSUME NEW b \in Seq(Glyphs), NEW c \in Seq(Glyphs), NEW n \in Nat,
         n <= Len(b), n <= Len(c), \A i \in 1 .. n : b[i] = c[i]
  PROVE  SubSeq(b, 1, n) = SubSeq(c, 1, n)
<1>1. /\ SubSeq(b, 1, n) \in Seq(Glyphs) /\ Len(SubSeq(b, 1, n)) = n
      /\ \A i \in 1 .. n : SubSeq(b, 1, n)[i] = b[i]
  OBVIOUS
<1>2. /\ SubSeq(c, 1, n) \in Seq(Glyphs) /\ Len(SubSeq(c, 1, n)) = n
      /\ \A i \in 1 .. n : SubSeq(c, 1, n)[i] = c[i]
  OBVIOUS
<1> QED
  BY <1>1, <1>2, SeqEqual

(* What a step has to keep: the part of the buffer that was there before.  *)
LEMMA EarlierKept ==
  ASSUME FloatTypes, EarlierTextStays, before' = before,
         cells' \in Seq(Glyphs), Len(cells') >= size,
         \A i \in 1 .. before.size : cells'[i] = cells[i]
  PROVE  EarlierTextStays'
<1> DEFINE n == before.size
<1>1. n \in Nat /\ n <= Len(cells) /\ n <= Len(cells') /\ cells \in Seq(Glyphs)
  <2>1. /\ cells \in Seq(Glyphs) /\ size \in 0 .. Len(cells) /\ before.size \in 0 .. size
    BY DEF FloatTypes
  <2>2. Len(cells) \in Nat /\ Len(cells') \in Nat
    BY <2>1
  <2> QED
    BY <2>1, <2>2
<1> HIDE DEF n
<1>2. \A i \in 1 .. n : cells[i] = cells'[i]
  BY DEF n
<1>3. SubSeq(cells, 1, n) = SubSeq(cells', 1, n)
  BY <1>1, <1>2, SamePrefix
<1> QED
  BY <1>3 DEF EarlierTextStays, n

LEMMA FloatInit ==
  ASSUME FloatAssumption, Init
  PROVE  FloatInv
<1>1. PICK t \in Earlier, room \in Capacities :
          /\ size = Len(t)
          /\ cells = t \o Repeated(Unwritten, room - Len(t))
  BY DEF Init
<1>2. /\ t \in Seq(Glyphs) /\ Len(t) \in Nat /\ room \in Nat /\ Len(t) <= room
      /\ Unwritten \in Glyphs
  <2>1. Earlier \subseteq Seq(Glyphs) /\ Capacities \subseteq Nat /\ Len(t) <= room
    BY DEF FloatAssumption
  <2>2. Unwritten \in Glyphs
    BY DEF FloatAssumption
  <2> QED
    BY <2>1, <2>2
<1> DEFINE n == room - Len(t)
           rest == Repeated(Unwritten, n)
<1>3. n \in Int /\ n >= 0
  BY <1>2
<1>4. rest \in Seq(Glyphs) /\ Len(rest) = n
  <2> HIDE DEF n
  <2>1. rest \in Seq(Glyphs) /\ Len(rest) = IF n > 0 THEN n ELSE 0
    BY <1>2, <1>3, RepeatedIs
  <2> QED
    BY <2>1, <1>3
<1> HIDE DEF rest
<1>5. cells = t \o rest
  BY <1>1 DEF rest
<1>6. /\ cells \in Seq(Glyphs) /\ Len(cells) = room /\ size \in 0 .. Len(cells)
      /\ \A i \in 1 .. Len(t) : cells[i] = t[i]
  <2>1. /\ t \o rest \in Seq(Glyphs) /\ Len(t \o rest) = Len(t) + n
        /\ \A i \in 1 .. Len(t) : (t \o rest)[i] = t[i]
    BY <1>2, <1>4
  <2>2. Len(t) + n = room
    BY <1>2
  <2> HIDE DEF n
  <2>3. Len(cells) = room /\ cells \in Seq(Glyphs)
    BY <2>1, <2>2, <1>5
  <2>4. \A i \in 1 .. Len(t) : cells[i] = t[i]
    BY <2>1, <1>5
  <2> QED
    BY <2>3, <2>4, <1>1, <1>2
<1>7. /\ value \in Values /\ spec \in Specs /\ offset = 0 /\ pc = "begin"
      /\ before.size = size /\ before.capacity = Len(cells)
  BY DEF Init
<1>8. FloatTypes
  BY <1>2, <1>6, <1>7 DEF FloatTypes
<1>9. SubSeq(cells, 1, size) = SubSeq(t, 1, size)
  BY <1>1, <1>2, <1>6, SamePrefix
<1>10. SubSeq(t, 1, Len(t)) = t
  BY <1>2, SubSeqFull
<1>11. EarlierTextStays
  BY <1>1, <1>7, <1>9, <1>10 DEF EarlierTextStays
<1> QED
  BY <1>7, <1>8, <1>11 DEF FloatInv, Printing

LEMMA BeginKeeps ==
  ASSUME FloatAssumption, FloatInv, Begin
  PROVE  FloatInv'
<1> DEFINE w == Max({spec.width, 1})
<1>1. /\ cells \in Seq(Glyphs) /\ Len(cells) \in Nat /\ size \in 0 .. Len(cells) /\ size \in Nat
      /\ value \in Values /\ spec \in Specs
      /\ before.size \in 0 .. size /\ before.capacity \in 0 .. Len(cells)
  BY DEF FloatInv, FloatTypes
<1>2. spec.width \in Nat
  BY <1>1 DEF FloatAssumption
<1>3. w \in Nat /\ w >= spec.width /\ w >= 1
  <2>1. spec.width \in Int /\ 1 \in Int
    BY <1>2
  <2>2. w = IF spec.width > 1 THEN spec.width ELSE 1
    BY <2>1, MaxIs
  <2> QED
    BY <2>2, <1>2
<1> HIDE DEF w
<1>4. /\ value' = value /\ spec' = spec /\ size' = size /\ before' = before
      /\ pc = "begin" /\ pc' = "print" /\ value.finite /\ offset' = size + Len(Sgn)
      /\ cells' = IF Sgn = <<>> THEN cells ELSE reserved(cells, size + w)
  BY DEF Begin, Sgn, w
<1>5. \/ Sgn = <<>> /\ Len(Sgn) = 0
      \/ Sgn # <<>> /\ Len(Sgn) = 1
  BY <1>1, SignIs DEF Sgn
<1>6. /\ cells' \in Seq(Glyphs) /\ Len(cells') >= Len(cells)
      /\ \A i \in 1 .. size : cells'[i] = cells[i]
      /\ Sgn # <<>> => Len(cells') >= size + w
  <2>1. CASE Sgn = <<>>
    BY <2>1, <1>1, <1>4
  <2>2. CASE Sgn # <<>>
    <3> DEFINE n == size + w
    <3>1. n \in Nat
      BY <1>1, <1>3
    <3> HIDE DEF n
    <3>2. /\ reserved(cells, n) \in Seq(Glyphs)
          /\ Len(reserved(cells, n)) >= n
          /\ Len(reserved(cells, n)) >= Len(cells)
          /\ \A i \in 1 .. size : reserved(cells, n)[i] = cells[i]
      BY <3>1, <1>1, ReservedIs
    <3> QED
      BY <3>2, <2>2, <1>4 DEF n
  <2> QED
    BY <2>1, <2>2
<1>7. Len(cells') \in Nat
  BY <1>6
<1>8. Sgn' = Sgn
  BY <1>4 DEF Sgn, SignOf, Sign
<1>9. FloatTypes'
  <2>1. offset' \in 0 .. Len(cells')
    <3>1. size + Len(Sgn) \in Nat /\ size + Len(Sgn) <= Len(cells')
      <4>1. CASE Sgn = <<>> /\ Len(Sgn) = 0
        BY <4>1, <1>1, <1>6, <1>7
      <4>2. CASE Sgn # <<>> /\ Len(Sgn) = 1
        <5>1. Len(cells') >= size + w /\ size + w >= size + 1
          BY <4>2, <1>1, <1>3, <1>6
        <5> QED
          BY <4>2, <5>1, <1>1, <1>3, <1>7
      <4> QED
        BY <4>1, <4>2, <1>5
    <3> QED
      BY <3>1, <1>4, <1>7
  <2>2. size' \in 0 .. Len(cells') /\ before'.capacity \in 0 .. Len(cells')
    BY <1>1, <1>4, <1>6, <1>7
  <2>3. before'.size \in 0 .. size'
    BY <1>1, <1>4
  <2> QED
    BY <2>1, <2>2, <2>3, <1>1, <1>4, <1>6 DEF FloatTypes
<1>10. EarlierTextStays'
  <2>1. \A i \in 1 .. before.size : cells'[i] = cells[i]
    BY <1>1, <1>6
  <2>2. Len(cells') >= size
    BY <1>1, <1>6, <1>7
  <2> QED
    BY <2>1, <2>2, <1>4, <1>6, EarlierKept DEF FloatInv
<1>11. Printing'
  <2>1. size = before.size
    BY <1>4 DEF FloatInv, Printing
  <2>2. Sgn # <<>> => size + spec.width <= Len(cells')
    BY <1>1, <1>2, <1>3, <1>6, <1>7
  <2> QED
    BY <2>1, <2>2, <1>4, <1>8 DEF Printing
<1> QED
  BY <1>4, <1>9, <1>10, <1>11 DEF FloatInv

LEMMA SnprintfKeeps ==
  ASSUME FloatAssumption, FloatInv, Snprintf
  PROVE  FloatInv' /\ (pc' = "print" => Len(cells') > Len(cells))
<1>1. /\ cells \in Seq(Glyphs) /\ Len(cells) \in Nat /\ size \in 0 .. Len(cells) /\ size \in Nat
      /\ value \in Values /\ spec \in Specs
      /\ offset \in Nat /\ offset <= Len(cells)
      /\ before.size \in 0 .. size /\ before.capacity \in 0 .. Len(cells)
  BY DEF FloatInv, FloatTypes
<1>2. /\ value.finite /\ size = before.size /\ offset = size + Len(Sgn)
      /\ Sgn # <<>> => size + spec.width <= Len(cells)
      /\ pc = "print"
  BY DEF FloatInv, Printing, Snprintf
<1>3. \/ Sgn = <<>> /\ Len(Sgn) = 0
      \/ Sgn # <<>> /\ Len(Sgn) = 1
  BY <1>1, SignIs DEF Sgn
<1>4. Num \in Seq(Glyphs) /\ Len(Num) \in Nat
  <2>1. Num \in Seq(Glyphs)
    BY <1>1, PrintedIs DEF Num
  <2> QED
    BY <2>1
<1>5. Msc \in BOOLEAN /\ "NUL" \in Glyphs
  BY DEF FloatAssumption
<1> DEFINE full == Msc /\ Len(cells) = offset
           storage == IF full THEN reserved(cells, offset + 1) ELSE cells
           room == Len(storage) - offset
           short == Min({Len(Num), room - 1})
           cut == SubSeq(Num, 1, short)
           ended == Append(cut, "NUL")
           after == IF room = 0 THEN storage ELSE Copied(storage, offset, ended)
<1>6. /\ value' = value /\ spec' = spec /\ size' = size /\ before' = before /\ offset' = offset
      /\ \/ /\ offset + Len(Num) < Len(storage)
            /\ cells' = after /\ pc' = "sign"
         \/ /\ offset + Len(Num) >= Len(storage) /\ ~Msc
            /\ cells' = reserved(after, offset + Len(Num) + 1) /\ pc' = pc
         \/ /\ offset + Len(Num) >= Len(storage) /\ Msc
            /\ cells' = reserved(after, Len(storage) + 1) /\ pc' = pc
  <2>1. Snprintf
    OBVIOUS
  <2>2. capacity = Len(cells)
    BY DEF capacity
  <2>3. Len(storage) \in Int
    <3>1. full => reserved(cells, offset + 1) \in Seq(Glyphs)
      BY <1>1, ReservedIs
    <3> QED
      BY <3>1, <1>1
  <2>4. /\ value' = value /\ spec' = spec /\ size' = size /\ before' = before
        /\ offset' = offset
        /\ CASE offset + Len(Num) < Len(storage) ->
                  cells' = after /\ pc' = "sign"
             [] offset + Len(Num) >= Len(storage) /\ ~Msc ->
                  cells' = reserved(after, offset + Len(Num) + 1) /\ pc' = pc
             [] OTHER ->
                  cells' = reserved(after, Len(storage) + 1) /\ pc' = pc
    BY <2>1, <2>2 DEF Snprintf, Num
  <2>5. offset + Len(Num) < Len(storage) <=> ~(offset + Len(Num) >= Len(storage))
    BY <2>3, <1>1, <1>4
  <2> HIDE DEF storage, after
  <2>6. CASE offset + Len(Num) < Len(storage)
    BY <2>4, <2>6
  <2>7. CASE offset + Len(Num) >= Len(storage) /\ ~Msc
    BY <2>4, <2>5, <2>7
  <2>8. CASE offset + Len(Num) >= Len(storage) /\ Msc
    BY <2>4, <2>5, <2>8
  <2> QED
    BY <2>5, <2>6, <2>7, <2>8
<1> HIDE DEF full
<1>7. /\ storage \in Seq(Glyphs) /\ Len(storage) >= Len(cells)
      /\ \A i \in 1 .. size : storage[i] = cells[i]
      /\ ~full => storage = cells
  <2> DEFINE n == offset + 1
  <2>1. n \in Nat
    BY <1>1
  <2> HIDE DEF n
  <2>2. /\ reserved(cells, n) \in Seq(Glyphs)
        /\ Len(reserved(cells, n)) >= Len(cells)
        /\ \A i \in 1 .. size : reserved(cells, n)[i] = cells[i]
    BY <2>1, <1>1, ReservedIs
  <2> QED
    BY <2>2, <1>1 DEF n
<1> HIDE DEF storage
<1>8. Len(storage) \in Nat /\ room \in Nat
  BY <1>1, <1>7
<1> HIDE DEF room
<1>9. short \in Int /\ short <= room - 1 /\ short <= Len(Num)
      /\ (Len(Num) < room => short = Len(Num))
      /\ (room > 0 => short >= 0)
  <2>1. Len(Num) \in Int /\ room - 1 \in Int
    BY <1>4, <1>8
  <2>2. short = IF Len(Num) < room - 1 THEN Len(Num) ELSE room - 1
    BY <2>1, MaxIs
  <2> HIDE DEF short
  <2> QED
    BY <2>2, <1>4, <1>8
<1> HIDE DEF short
<1>10. ASSUME room > 0
       PROVE  /\ ended \in Seq(Glyphs) /\ Len(ended) <= room
              /\ Len(Num) < room => \A i \in 1 .. Len(Num) : ended[i] = Num[i]
              /\ Len(Num) < room => Len(ended) > Len(Num)
  <2>1. short \in 0 .. Len(Num)
    BY <1>4, <1>8, <1>9, <1>10
  <2>2. /\ cut \in Seq(Glyphs) /\ Len(cut) = short
        /\ \A i \in 1 .. short : cut[i] = Num[i]
    BY <2>1, <1>4
  <2> HIDE DEF cut
  <2>3. /\ ended \in Seq(Glyphs) /\ Len(ended) = short + 1
        /\ \A i \in 1 .. short : ended[i] = cut[i]
    BY <2>1, <2>2, <1>5
  <2> HIDE DEF ended
  <2> QED
    BY <2>1, <2>2, <2>3, <1>4, <1>8, <1>9
<1> HIDE DEF ended
<1>11. /\ after \in Seq(Glyphs) /\ Len(after) = Len(storage)
       /\ \A i \in 1 .. size : after[i] = cells[i]
       /\ offset + Len(Num) < Len(storage) =>
             \A i \in 1 .. Len(Num) : after[offset + i] = Num[i]
  <2>1. CASE room = 0
    <3>1. ~(offset + Len(Num) < Len(storage))
      BY <2>1, <1>1, <1>4, <1>8 DEF room
    <3> QED
      BY <3>1, <2>1, <1>7
  <2>2. CASE room > 0
    <3> DEFINE c == Copied(storage, offset, ended)
    <3>1. ended \in Seq(Glyphs) /\ Len(ended) \in Nat
      BY <2>2, <1>10
    <3>2. /\ c \in Seq(Glyphs) /\ Len(c) = Len(storage)
          /\ \A i \in 1 .. Len(storage) :
                c[i] = IF offset + 1 <= i /\ i <= offset + Len(ended)
                       THEN ended[i - offset] ELSE storage[i]
      <4>1. offset \in Int
        BY <1>1
      <4> QED
        BY <4>1, <3>1, <1>7, CopiedIs
    <3>3. after = c
      BY <2>2, <1>8
    <3> HIDE DEF c, after
    <3>4. ASSUME NEW i \in 1 .. size PROVE c[i] = cells[i]
      <4>1. i \in 1 .. Len(storage) /\ ~(offset + 1 <= i)
        BY <1>1, <1>2, <1>3, <1>7, <1>8
      <4> QED
        BY <4>1, <3>2, <1>7
    <3>5. ASSUME offset + Len(Num) < Len(storage), NEW i \in 1 .. Len(Num)
          PROVE  c[offset + i] = Num[i]
      <4>1. Len(Num) < room
        BY <3>5, <1>1, <1>4, <1>8 DEF room
      <4>2. /\ offset + i \in 1 .. Len(storage) /\ offset + 1 <= offset + i
            /\ offset + i <= offset + Len(ended) /\ (offset + i) - offset = i
        BY <4>1, <3>1, <3>5, <2>2, <1>1, <1>4, <1>8, <1>10
      <4>3. c[offset + i] = ended[(offset + i) - offset]
        BY <4>2, <3>2
      <4> QED
        BY <4>1, <4>2, <4>3, <2>2, <1>10
    <3> QED
      BY <3>2, <3>3, <3>4, <3>5
  <2> QED
    BY <2>1, <2>2, <1>8
<1> HIDE DEF after
<1>12. Sgn' = Sgn /\ Num' = Num
  BY <1>6 DEF Sgn, Num, SignOf, Sign, Printed
<1>13. /\ cells' \in Seq(Glyphs) /\ Len(cells') >= Len(cells)
       /\ \A i \in 1 .. size : cells'[i] = cells[i]
       /\ pc' = "print" => Len(cells') > Len(cells)
       /\ \/ pc' = "sign" /\ cells' = after /\ offset + Len(Num) < Len(after)
          \/ pc' = "print"
  <2>1. CASE offset + Len(Num) < Len(storage)
    BY <2>1, <1>1, <1>4, <1>6, <1>7, <1>8, <1>11
  <2>2. CASE offset + Len(Num) >= Len(storage)
    <3> DEFINE n == IF Msc THEN Len(storage) + 1 ELSE offset + Len(Num) + 1
    <3>6. Len(storage) + 1 \in Nat /\ offset + Len(Num) + 1 \in Nat
      BY <1>1, <1>4, <1>8
    <3>7. ~(offset + Len(Num) < Len(storage))
      BY <2>2, <1>1, <1>4, <1>8
    <3>8. cells' = reserved(after, n) /\ pc' = "print"
      BY <3>7, <1>2, <1>6
    <3>9. n \in Nat /\ n > Len(storage)
      <4>1. CASE Msc
        BY <4>1, <3>6, <1>8
      <4>2. CASE ~Msc
        BY <4>2, <3>6, <2>2, <1>1, <1>4, <1>8
      <4> QED
        BY <4>1, <4>2
    <3> HIDE DEF n
    <3>1. n \in Nat /\ n > Len(after) /\ cells' = reserved(after, n) /\ pc' = "print"
      BY <3>8, <3>9, <1>11
    <3> HIDE DEF n
    <3>2. size \in 0 .. Len(after) /\ Len(after) \in Nat
      BY <1>1, <1>7, <1>8, <1>11
    <3>3. /\ reserved(after, n) \in Seq(Glyphs)
          /\ Len(reserved(after, n)) >= n
          /\ \A i \in 1 .. size : reserved(after, n)[i] = after[i]
      BY <3>1, <3>2, <1>11, ReservedIs
    <3>4. Len(cells') \in Nat
      BY <3>1, <3>3
    <3>5. Len(cells') > Len(cells)
      BY <3>1, <3>2, <3>3, <3>4, <1>1, <1>7, <1>8, <1>11
    <3> QED
      BY <3>1, <3>2, <3>3, <3>4, <3>5, <1>1, <1>11
  <2> QED
    BY <2>1, <2>2, <1>1, <1>4, <1>8
<1>14. Len(cells') \in Nat
  BY <1>13
<1>15. FloatTypes'
  <2>1. /\ size' \in 0 .. Len(cells') /\ offset' \in 0 .. Len(cells')
        /\ before'.capacity \in 0 .. Len(cells')
    BY <1>1, <1>6, <1>13, <1>14
  <2>2. before'.size \in 0 .. size' /\ pc' \in {"begin", "print", "sign", "done"}
    BY <1>1, <1>6, <1>13
  <2> QED
    BY <2>1, <2>2, <1>1, <1>6, <1>13 DEF FloatTypes
<1>16. EarlierTextStays'
  <2>1. \A i \in 1 .. before.size : cells'[i] = cells[i]
    BY <1>2, <1>13
  <2>2. Len(cells') >= size
    BY <1>1, <1>13, <1>14
  <2> QED
    BY <2>1, <2>2, <1>6, <1>13, EarlierKept DEF FloatInv
<1>17. Printing'
  <2>1. Sgn # <<>> => size + spec.width <= Len(cells')
    <3>1. spec.width \in Nat
      BY <1>1 DEF FloatAssumption
    <3> QED
      BY <3>1, <1>1, <1>2, <1>13, <1>14
  <2> QED
    BY <2>1, <1>2, <1>6, <1>11, <1>12, <1>13 DEF Printing
<1> QED
  BY <1>13, <1>15, <1>16, <1>17 DEF FloatInv

(* A number that is not finite.                                            *)
LEMMA FieldAtLeft ==
  ASSUME NEW b, NEW n \in Nat, NEW s, s.width \in Nat, s.align \notin {"RIGHT", "CENTER"}
  PROVE  Field(b, n, s).at = Len(b)
<1>1. s.width <= n \/ s.width > n
  OBVIOUS
<1> QED
  BY <1>1 DEF Field

LEMMA NotFiniteKeeps ==
  ASSUME FloatAssumption, FloatInv, NotFinite
  PROVE  FloatInv'
<1> DEFINE name == value.chars
           chars == IF Sgn = <<>> THEN name ELSE <<Blank>> \o name
           held == SubSeq(cells, 1, size)
           n == Len(chars)
           field == Field(held, n, spec)
           one == Copied(field.buffer, field.at, chars)
           txt == Copied(one, field.at, Sgn)
           room == reserved(cells, Len(txt))
<1>1. /\ cells \in Seq(Glyphs) /\ Len(cells) \in Nat /\ size \in 0 .. Len(cells) /\ size \in Nat
      /\ value \in Values /\ spec \in Specs
      /\ offset \in Nat /\ offset <= Len(cells)
      /\ before.size \in 0 .. size /\ before.capacity \in 0 .. Len(cells)
  BY DEF FloatInv, FloatTypes
<1>2. /\ pc = "begin" /\ pc' = "done" /\ ~value.finite
      /\ cells' = Copied(room, 0, txt) /\ size' = Len(txt)
      /\ value' = value /\ spec' = spec /\ offset' = offset /\ before' = before
  BY DEF NotFinite, Sgn
<1>3. before.size = size
  BY <1>2 DEF FloatInv, Printing
<1>4. Sgn \in Seq(Glyphs) /\ (\/ Sgn = <<>> /\ Len(Sgn) = 0
                              \/ Sgn # <<>> /\ Len(Sgn) = 1)
  BY <1>1, SignIs DEF Sgn
<1>5. /\ name \in Seq(Glyphs) /\ Len(name) \in Nat /\ Blank \in Glyphs
      /\ Unwritten \in Glyphs /\ spec.width \in Nat /\ spec.fill \in Glyphs
  <2>1. value.chars \in Seq(Glyphs) /\ spec.width \in Nat /\ spec.fill \in Glyphs
    BY <1>1 DEF FloatAssumption
  <2>2. Blank \in Glyphs /\ Unwritten \in Glyphs
    BY DEF FloatAssumption
  <2> QED
    BY <2>1, <2>2
<1> HIDE DEF name
<1>6. /\ chars \in Seq(Glyphs) /\ Len(chars) = Len(Sgn) + Len(name)
      /\ \A i \in 1 .. Len(name) : chars[Len(Sgn) + i] = name[i]
  <2>1. CASE Sgn = <<>> /\ Len(Sgn) = 0
    BY <2>1, <1>5
  <2>2. CASE Sgn # <<>> /\ Len(Sgn) = 1
    <3> DEFINE b == <<Blank>>
    <3>1. b \in Seq(Glyphs) /\ Len(b) = 1
      BY <1>5
    <3> HIDE DEF b
    <3>2. /\ b \o name \in Seq(Glyphs) /\ Len(b \o name) = 1 + Len(name)
          /\ \A i \in 1 .. Len(name) : (b \o name)[1 + i] = name[i]
      <4>3. name \in Seq(Glyphs) /\ Len(name) \in Nat
        BY <1>5
      <4>1. b \o name \in Seq(Glyphs) /\ Len(b \o name) = 1 + Len(name)
        BY <3>1, <4>3, ConcatProperties
      <4>2. ASSUME NEW i \in 1 .. Len(name) PROVE (b \o name)[1 + i] = name[i]
        <5>1. 1 + i \in 1 .. Len(b) + Len(name) /\ ~(1 + i <= Len(b)) /\ (1 + i) - Len(b) = i
          BY <3>1, <4>3
        <5>2. (b \o name)[1 + i] = IF 1 + i <= Len(b) THEN b[1 + i] ELSE name[(1 + i) - Len(b)]
          BY <3>1, <4>3, <5>1, ConcatProperties
        <5> QED
          BY <5>1, <5>2
      <4> QED
        BY <4>1, <4>2
    <3> QED
      BY <3>2, <2>2 DEF b
  <2> QED
    BY <2>1, <2>2, <1>4
<1> HIDE DEF chars
<1>7. /\ held \in Seq(Glyphs) /\ Len(held) = size
      /\ \A i \in 1 .. size : held[i] = cells[i]
  BY <1>1
<1> HIDE DEF held
<1>8. n \in Nat /\ n = Len(Sgn) + Len(name) /\ Len(Sgn) \in 0 .. 1
  BY <1>4, <1>5, <1>6
<1> HIDE DEF n
<1>9. /\ IsField(held, n, spec.width, spec.fill, field)
      /\ spec.align \notin {"RIGHT", "CENTER"} => field.at = size
  <2>1. IsField(held, n, spec.width, spec.fill, field)
    BY <1>5, <1>7, <1>8, FieldIs
  <2>2. spec.align \notin {"RIGHT", "CENTER"} => field.at = Len(held)
    BY <1>5, <1>8, FieldAtLeft
  <2> QED
    BY <2>1, <2>2, <1>7
<1> HIDE DEF field
<1> DEFINE total == size + IF spec.width > n THEN spec.width ELSE n
           p == field.at
           full == field.buffer
<1>10. /\ full \in Seq(Glyphs) /\ Len(full) = total
       /\ p \in Nat /\ p >= size /\ p + n <= total
       /\ \A i \in 1 .. size : full[i] = cells[i]
       /\ \A i \in (size + 1) .. total : i <= p \/ i > p + n => full[i] = spec.fill
  BY <1>7, <1>9 DEF IsField
<1>11. total \in Nat /\ total >= size
  BY <1>1, <1>5, <1>8
<1> HIDE DEF p, full, total
<1>12. /\ one \in Seq(Glyphs) /\ Len(one) = total
       /\ \A i \in 1 .. total :
             one[i] = IF p + 1 <= i /\ i <= p + n THEN chars[i - p] ELSE full[i]
  <2>1. p \in Int
    BY <1>10
  <2> QED
    BY <2>1, <1>6, <1>10, CopiedIs DEF p, full, n
<1> HIDE DEF one
<1>13. /\ txt \in Seq(Glyphs) /\ Len(txt) = total
       /\ \A i \in 1 .. total :
             txt[i] = IF p + 1 <= i /\ i <= p + Len(Sgn) THEN Sgn[i - p] ELSE one[i]
  <2>1. p \in Int
    BY <1>10
  <2> QED
    BY <2>1, <1>4, <1>12, CopiedIs DEF p
<1> HIDE DEF txt
<1>14. room \in Seq(Glyphs) /\ Len(room) >= total /\ Len(room) >= Len(cells)
  BY <1>1, <1>11, <1>13, ReservedIs
<1> HIDE DEF room
<1>15. /\ cells' \in Seq(Glyphs) /\ Len(cells') >= total /\ Len(cells') >= Len(cells)
       /\ \A i \in 1 .. total : cells'[i] = txt[i]
  <2>1. /\ Copied(room, 0, txt) \in Seq(Glyphs)
        /\ Len(Copied(room, 0, txt)) = Len(room)
        /\ \A i \in 1 .. Len(room) :
              Copied(room, 0, txt)[i] =
                 IF 0 + 1 <= i /\ i <= 0 + Len(txt) THEN txt[i - 0] ELSE room[i]
    BY <1>13, <1>14, CopiedIs
  <2>2. Len(room) \in Nat
    BY <1>14
  <2>3. ASSUME NEW i \in 1 .. total PROVE cells'[i] = txt[i]
    <3>1. i \in 1 .. Len(room) /\ 0 + 1 <= i /\ i <= 0 + Len(txt) /\ i - 0 = i
      BY <2>2, <1>11, <1>13, <1>14
    <3> QED
      BY <3>1, <2>1, <1>2
  <2> QED
    BY <2>1, <2>2, <2>3, <1>2, <1>14
<1>16. size' = total
  BY <1>2, <1>13
<1>17. Sgn' = Sgn /\ value.chars' = name
  BY <1>2 DEF Sgn, SignOf, Sign, name
<1>18. \A i \in 1 .. size : cells'[i] = cells[i]
  <2> TAKE i \in 1 .. size
  <2>1. i \in 1 .. total /\ ~(p + 1 <= i)
    BY <1>1, <1>10, <1>11
  <2> QED
    BY <2>1, <1>10, <1>12, <1>13, <1>15
<1>19. Len(cells') \in Nat
  BY <1>15
<1>20. FloatTypes'
  <2>1. /\ size' \in 0 .. Len(cells') /\ offset' \in 0 .. Len(cells')
        /\ before'.capacity \in 0 .. Len(cells') /\ before'.size \in 0 .. size'
    BY <1>1, <1>2, <1>11, <1>15, <1>16, <1>19
  <2> QED
    BY <2>1, <1>1, <1>2, <1>15 DEF FloatTypes
<1>21. EarlierTextStays'
  <2>1. Len(cells') >= size
    BY <1>1, <1>15, <1>19
  <2> QED
    BY <2>1, <1>2, <1>3, <1>15, <1>18, EarlierKept DEF FloatInv
<1>22. NumberIsShown'
  <2> DEFINE at == p + Len(Sgn)
             signAt == p + 1
  <2>1. at \in Nat /\ signAt \in Nat
    BY <1>8, <1>10
  <2>2. at \in (size + Len(Sgn)) .. (total - Len(name))
    BY <1>1, <1>5, <1>8, <1>10, <1>11
  <2>3. ASSUME Sgn # <<>>
        PROVE  /\ signAt \in (size + 1) .. at /\ signAt = at /\ cells'[signAt] = Sgn[1]
               /\ spec.align = "NUMERIC" => signAt = size + 1
    <3>4. Len(Sgn) = 1
      BY <2>3, <1>4
    <3>1. Len(Sgn) = 1 /\ signAt = at /\ signAt \in (size + 1) .. at
      BY <3>4, <1>1, <1>10
    <3>2. signAt \in 1 .. total /\ p + 1 <= signAt /\ signAt <= p + Len(Sgn) /\ signAt - p = 1
      BY <3>1, <1>5, <1>8, <1>10, <1>11
    <3>3. txt[signAt] = Sgn[signAt - p]
      BY <3>2, <1>13
    <3> QED
      BY <3>1, <3>2, <3>3, <1>9, <1>15 DEF p
  <2>4. ASSUME NEW i \in 1 .. Len(name) PROVE cells'[at + i] = name[i]
    <3>1. /\ at + i \in 1 .. total /\ p + 1 <= at + i /\ at + i <= p + n
          /\ ~(at + i <= p + Len(Sgn)) /\ (at + i) - p = Len(Sgn) + i
      BY <1>5, <1>8, <1>10, <1>11
    <3>2. one[at + i] = chars[(at + i) - p]
      BY <3>1, <1>12
    <3> QED
      BY <3>1, <3>2, <1>6, <1>13, <1>15
  <2>5. ASSUME NEW i \in (size + 1) .. total, i <= at \/ i > at + Len(name),
               ~(Sgn # <<>> /\ i = signAt)
        PROVE  cells'[i] = spec.fill
    <3>3. i \in 1 .. total
      BY <1>1, <1>11
    <3>6. p \in Nat /\ i \in Nat
      BY <1>1, <1>10, <1>11
    <3>4. ~(p + 1 <= i /\ i <= p + Len(Sgn))
      <4>1. CASE Len(Sgn) = 0
        BY <4>1, <3>6
      <4>2. CASE Sgn # <<>> /\ Len(Sgn) = 1
        <5>1. i # p + 1
          BY <4>2, <2>5
        <5> QED
          BY <5>1, <4>2, <3>6
      <4> QED
        BY <4>1, <4>2, <1>4
    <3>1. i \in 1 .. total /\ ~(p + 1 <= i /\ i <= p + Len(Sgn))
      BY <3>3, <3>4
    <3>2. (i <= p \/ i > p + n) /\ ~(p + 1 <= i /\ i <= p + n)
      BY <2>5, <3>1, <1>1, <1>5, <1>8, <1>10, <1>11
    <3> QED
      BY <3>1, <3>2, <1>10, <1>12, <1>13, <1>15
  <2> HIDE DEF at, signAt
  <2>6. PICK a \in Nat, b \in Nat : a = at /\ b = signAt
    BY <2>1
  <2>7. Shown(a, b)'
    <3>1. a \in (before'.size + Len(Sgn')) .. (size' - Len(value'.chars))
      BY <2>2, <2>6, <1>2, <1>3, <1>16, <1>17 DEF name
    <3>2. Sgn' # <<>> => b \in (before'.size + 1) .. a /\ cells'[b] = Sgn'[1]
      BY <2>3, <2>6, <1>2, <1>3, <1>17
    <3>3. Sgn' # <<>> => b = IF spec'.align = "NUMERIC" THEN before'.size + 1 ELSE a
      BY <2>3, <2>6, <1>2, <1>3, <1>17
    <3>4. \A i \in 1 .. Len(value'.chars) : cells'[a + i] = value'.chars[i]
      BY <2>4, <2>6, <1>2 DEF name
    <3>5. \A i \in (before'.size + 1) .. size' :
             i <= a \/ i > a + Len(value'.chars) =>
                (Sgn' # <<>> /\ i = b) \/ cells'[i] = spec'.fill
      BY <2>5, <2>6, <1>2, <1>3, <1>16, <1>17 DEF name
    <3>6. ~value'.finite
      BY <1>2
    <3> QED
      BY <3>1, <3>2, <3>3, <3>4, <3>5, <3>6 DEF Shown
  <2>8. size' - before'.size = IF spec.width > n THEN spec.width ELSE n
    BY <1>1, <1>2, <1>3, <1>5, <1>8, <1>16 DEF total
  <2> QED
    BY <2>7, <2>8, <1>2, <1>8, <1>17 DEF NumberIsShown, name
<1> QED
  BY <1>2, <1>20, <1>21, <1>22 DEF FloatInv, Printing

(* What is known when sign and padding are put right.                      *)
Ready ==
    /\ cells \in Seq(Glyphs) /\ Len(cells) \in Nat /\ size \in Nat /\ size = before.size
    /\ value \in Values /\ spec \in Specs /\ value.finite
    /\ spec.width \in Nat /\ spec.fill \in Glyphs
    /\ value.chars \in Seq(Glyphs) /\ Len(value.chars) \in Nat
    /\ before.capacity \in 0 .. Len(cells)
    /\ Sgn \in Seq(Glyphs) /\ Len(Sgn) \in 0 .. 1 /\ (Sgn # <<>> => Len(Sgn) = 1)
    /\ Sgn = <<>> => Len(Sgn) = 0
    /\ Sgn # <<>> => size + spec.width <= Len(cells)
    /\ offset = size + Len(Sgn)
    /\ Num \in Seq(Glyphs) /\ Len(Num) \in Nat
    /\ offset + Len(Num) < Len(cells)
    /\ \A i \in 1 .. Len(Num) : cells[offset + i] = Num[i]

(* Where blanks, number and the rest are, in the buffer.                   *)
PrintedAt ==
    LET blanks == Blanks(value, spec)
        width == IF spec.align = "CENTER" THEN 0 ELSE spec.width - Len(Sgn)
    IN  /\ blanks \in Nat /\ blanks + Len(value.chars) <= Len(Num)
        /\ spec.align # "LEFT" => blanks + Len(value.chars) = Len(Num)
        /\ Len(Num) = IF width > Len(value.chars) THEN width ELSE Len(value.chars)
        /\ \A i \in 1 .. Len(Num) :
              Num[i] = IF blanks + 1 <= i /\ i <= blanks + Len(value.chars)
                       THEN value.chars[i - blanks] ELSE Blank

LEMMA SignComesReady ==
  ASSUME FloatAssumption, FloatInv, pc = "sign"
  PROVE  Ready /\ PrintedAt
<1>1. /\ cells \in Seq(Glyphs) /\ Len(cells) \in Nat /\ size \in Nat
      /\ value \in Values /\ spec \in Specs /\ before.capacity \in 0 .. Len(cells)
  BY DEF FloatInv, FloatTypes
<1>2. /\ value.chars \in Seq(Glyphs) /\ spec.width \in Nat /\ spec.fill \in Glyphs
  BY <1>1 DEF FloatAssumption
<1>3. Len(value.chars) \in Nat
  BY <1>2
<1>4. /\ value.finite /\ size = before.size /\ offset = size + Len(Sgn)
      /\ Sgn # <<>> => size + spec.width <= Len(cells)
      /\ offset + Len(Num) < Len(cells)
      /\ \A i \in 1 .. Len(Num) : cells[offset + i] = Num[i]
  BY DEF FloatInv, Printing
<1>5. /\ Sgn \in Seq(Glyphs) /\ Len(Sgn) \in 0 .. 1 /\ (Sgn # <<>> => Len(Sgn) = 1)
      /\ Sgn = <<>> => Len(Sgn) = 0
  BY <1>1, SignIs DEF Sgn
<1>6. Num \in Seq(Glyphs) /\ PrintedAt
  BY <1>1, PrintedIs DEF Num, Sgn, PrintedAt
<1>7. Len(Num) \in Nat
  BY <1>6
<1> QED
  BY <1>1, <1>2, <1>3, <1>4, <1>5, <1>6, <1>7 DEF Ready

(* The place of the sign, if there is one.                                 *)
SignPlace ==
    IF spec.align \notin {"RIGHT", "DEFAULT"} \/ Blanks(value, spec) = 0
    THEN offset ELSE offset + Blanks(value, spec)

LEMMA CorrectedIs ==
  ASSUME FloatAssumption, Ready, PrintedAt
  PROVE  /\ Corrected(cells) \in Seq(Glyphs)
         /\ Len(Corrected(cells)) = Len(cells)
         /\ \A i \in 1 .. Len(cells) :
               Corrected(cells)[i] =
                 IF Sgn # <<>> /\ i = SignPlace THEN Sgn[1]
                 ELSE IF size + 1 <= i /\ i <= offset + Blanks(value, spec) THEN spec.fill
                 ELSE cells[i]
<1> DEFINE blanks == Blanks(value, spec)
           filled == IF spec.fill = Blank THEN cells
                     ELSE Filled(cells, offset, blanks, spec.fill)
           early == Copied(filled, offset - Len(Sgn), Sgn)
           fills == Repeated(spec.fill, Len(Sgn))
           moved == Copied(filled, offset - Len(Sgn), fills)
           late == Copied(moved, offset + blanks - Len(Sgn), Sgn)
           c == Corrected(cells)
<1>1. /\ cells \in Seq(Glyphs) /\ Len(cells) \in Nat /\ size \in Nat /\ spec.fill \in Glyphs
      /\ Sgn \in Seq(Glyphs) /\ Len(Sgn) \in 0 .. 1 /\ (Sgn # <<>> <=> Len(Sgn) = 1)
      /\ offset = size + Len(Sgn) /\ offset \in Nat
      /\ Len(Num) \in Nat /\ offset + Len(Num) < Len(cells)
      /\ blanks \in Nat /\ blanks <= Len(Num) /\ Len(value.chars) \in Nat
  <2>1. /\ cells \in Seq(Glyphs) /\ Len(cells) \in Nat /\ size \in Nat /\ spec.fill \in Glyphs
        /\ Sgn \in Seq(Glyphs) /\ Len(Sgn) \in 0 .. 1 /\ (Sgn # <<>> => Len(Sgn) = 1)
        /\ (Sgn = <<>> => Len(Sgn) = 0)
        /\ offset = size + Len(Sgn)
        /\ Len(Num) \in Nat /\ offset + Len(Num) < Len(cells) /\ Len(value.chars) \in Nat
    BY DEF Ready
  <2>2. blanks \in Nat /\ blanks + Len(value.chars) <= Len(Num)
    BY DEF PrintedAt
  <2> HIDE DEF blanks
  <2>3. blanks <= Len(Num) /\ offset \in Nat
    BY <2>1, <2>2
  <2>4. Sgn # <<>> <=> Len(Sgn) = 1
    <3>1. (Sgn # <<>> => Len(Sgn) = 1) /\ (Sgn = <<>> => Len(Sgn) = 0)
      BY <2>1
    <3>2. 0 # 1
      OBVIOUS
    <3> QED
      BY <3>1, <3>2, Zenon
  <2> QED
    BY <2>1, <2>2, <2>3, <2>4
<1>2. c = IF spec.align \notin {"RIGHT", "DEFAULT"} \/ blanks = 0 THEN early ELSE late
  <2>1. blanks = IF spec.align = "LEFT" THEN 0
                 ELSE Len(Printed(value, spec)) - Len(value.chars)
    BY DEF Blanks
  <2> QED
    BY <2>1 DEF Corrected, Sgn
<1> HIDE DEF blanks, c
<1>3. /\ filled \in Seq(Glyphs) /\ Len(filled) = Len(cells)
      /\ \A i \in 1 .. Len(cells) :
            filled[i] = IF offset + 1 <= i /\ i <= offset + blanks THEN spec.fill ELSE cells[i]
  <2>1. CASE spec.fill = Blank
    <3>1. ASSUME NEW i \in 1 .. Len(cells), offset + 1 <= i /\ i <= offset + blanks
          PROVE  cells[i] = spec.fill
      <4> DEFINE k == i - offset
      <4>1. k \in 1 .. Len(Num) /\ offset + k = i /\ k <= blanks
        BY <3>1, <1>1
      <4>2. Num[k] = Blank
        <5>1. ~(blanks + 1 <= k)
          BY <4>1, <1>1
        <5> QED
          BY <4>1, <5>1 DEF PrintedAt, blanks
      <4>3. cells[offset + k] = Num[k]
        BY <4>1 DEF Ready
      <4> QED
        BY <4>1, <4>2, <4>3, <2>1
    <3> QED
      BY <3>1, <2>1, <1>1
  <2>2. CASE spec.fill # Blank
    <3>1. offset \in Int /\ blanks \in Int
      BY <1>1
    <3>2. filled = Filled(cells, offset, blanks, spec.fill)
      BY <2>2
    <3> QED
      BY <3>1, <3>2, <1>1, FilledIs
  <2> QED
    BY <2>1, <2>2
<1> HIDE DEF filled
<1>4. offset - Len(Sgn) = size /\ size \in Int
  BY <1>1
<1>5. CASE spec.align \notin {"RIGHT", "DEFAULT"} \/ blanks = 0
  <2>1. /\ early \in Seq(Glyphs) /\ Len(early) = Len(cells)
        /\ \A i \in 1 .. Len(cells) :
              early[i] = IF size + 1 <= i /\ i <= size + Len(Sgn) THEN Sgn[i - size]
                         ELSE filled[i]
    BY <1>1, <1>3, <1>4, CopiedIs
  <2>2. c = early /\ SignPlace = offset
    BY <1>2, <1>5 DEF SignPlace, blanks
  <2> HIDE DEF early
  <2>3. ASSUME NEW i \in 1 .. Len(cells)
        PROVE  early[i] = IF Sgn # <<>> /\ i = offset THEN Sgn[1]
                          ELSE IF size + 1 <= i /\ i <= offset + blanks THEN spec.fill
                          ELSE cells[i]
    <3>1. CASE Len(Sgn) = 0
      BY <3>1, <2>1, <1>1, <1>3
    <3>2. CASE Len(Sgn) = 1
      <4>1. offset = size + 1 /\ offset - size = 1 /\ Sgn # <<>>
        BY <3>2, <1>1
      <4> QED
        BY <4>1, <3>2, <2>1, <1>1, <1>3
    <3> QED
      BY <3>1, <3>2, <1>1
  <2> QED
    BY <2>1, <2>2, <2>3 DEF c, blanks
<1>6. CASE ~(spec.align \notin {"RIGHT", "DEFAULT"} \/ blanks = 0)
  <2>1. /\ fills \in Seq(Glyphs) /\ Len(fills) = Len(Sgn)
        /\ \A i \in 1 .. Len(Sgn) : fills[i] = spec.fill
    <3>1. Len(Sgn) \in Int /\ Len(Sgn) >= 0
      BY <1>1
    <3>2. /\ fills \in Seq(Glyphs) /\ Len(fills) = (IF Len(Sgn) > 0 THEN Len(Sgn) ELSE 0)
          /\ \A i \in 1 .. Len(Sgn) : fills[i] = spec.fill
      BY <3>1, <1>1, RepeatedIs
    <3> HIDE DEF fills
    <3> QED
      BY <3>1, <3>2
  <2> HIDE DEF fills
  <2>2. /\ moved \in Seq(Glyphs) /\ Len(moved) = Len(cells)
        /\ \A i \in 1 .. Len(cells) :
              moved[i] = IF size + 1 <= i /\ i <= size + Len(Sgn) THEN fills[i - size]
                         ELSE filled[i]
    BY <2>1, <1>3, <1>4, CopiedIs
  <2> HIDE DEF moved
  <2> DEFINE x == offset + blanks - Len(Sgn)
  <2>3. x \in Int
    BY <1>1
  <2> HIDE DEF x
  <2> DEFINE end == Copied(moved, x, Sgn)
  <2>7. moved \in Seq(Glyphs) /\ Sgn \in Seq(Glyphs)
    BY <2>2, <1>1
  <2>8. /\ end \in Seq(Glyphs) /\ Len(end) = Len(moved)
        /\ \A i \in 1 .. Len(moved) :
              end[i] = IF x + 1 <= i /\ i <= x + Len(Sgn) THEN Sgn[i - x] ELSE moved[i]
    BY <2>3, <2>7, CopiedIs
  <2>9. late = end
    BY DEF x
  <2> HIDE DEF end, late
  <2>4. /\ late \in Seq(Glyphs) /\ Len(late) = Len(cells)
        /\ \A i \in 1 .. Len(cells) :
              late[i] = IF x + 1 <= i /\ i <= x + Len(Sgn) THEN Sgn[i - x] ELSE moved[i]
    BY <2>2, <2>8, <2>9
  <2>5. c = late /\ SignPlace = offset + blanks
    BY <1>2, <1>6 DEF SignPlace, blanks
  <2>6. ASSUME NEW i \in 1 .. Len(cells)
        PROVE  late[i] = IF Sgn # <<>> /\ i = offset + blanks THEN Sgn[1]
                         ELSE IF size + 1 <= i /\ i <= offset + blanks THEN spec.fill
                         ELSE cells[i]
    <3>1. moved[i] = IF size + 1 <= i /\ i <= offset + blanks THEN spec.fill ELSE cells[i]
      <4>1. CASE size + 1 <= i /\ i <= size + Len(Sgn)
        <5>1. i - size \in 1 .. Len(Sgn) /\ i <= offset + blanks
          BY <4>1, <1>1
        <5> QED
          BY <4>1, <5>1, <2>1, <2>2
      <4>2. CASE ~(size + 1 <= i /\ i <= size + Len(Sgn))
        BY <4>2, <2>2, <1>1, <1>3
      <4> QED
        BY <4>1, <4>2
    <3>2. CASE Len(Sgn) = 0
      <4>1. ~(x + 1 <= i /\ i <= x + Len(Sgn))
        BY <3>2, <2>3
      <4> QED
        BY <4>1, <3>1, <3>2, <2>4, <1>1
    <3>3. CASE Len(Sgn) = 1
      <4>1. /\ (x + 1 <= i /\ i <= x + Len(Sgn)) <=> i = offset + blanks
            /\ i = offset + blanks => i - x = 1
        BY <3>3, <1>1 DEF x
      <4> QED
        BY <4>1, <3>1, <3>3, <2>4, <1>1
    <3> QED
      BY <3>2, <3>3, <1>1
  <2> QED
    BY <2>4, <2>5, <2>6 DEF c, blanks
<1> QED
  BY <1>5, <1>6

LEMMA InPlaceKeeps ==
  ASSUME FloatAssumption, FloatInv, InPlace
  PROVE  FloatInv'
<1> DEFINE blanks == Blanks(value, spec)
           name == Len(value.chars)
           c == Corrected(cells)
           n == Written(value, spec)
           sign == SignPlace
<1>1. /\ pc = "sign" /\ pc' = "done" /\ ~(spec.align = "CENTER" /\ spec.width > n)
      /\ cells' = reserved(c, size + n) /\ size' = size + n
      /\ value' = value /\ spec' = spec /\ offset' = offset /\ before' = before
  BY DEF InPlace
<1>2. Ready /\ PrintedAt
  BY <1>1, SignComesReady
<1>3. /\ cells \in Seq(Glyphs) /\ Len(cells) \in Nat /\ size \in Nat /\ size = before.size
      /\ value \in Values /\ spec \in Specs /\ value.finite
      /\ spec.width \in Nat /\ name \in Nat /\ before.capacity \in 0 .. Len(cells)
      /\ Len(Sgn) \in 0 .. 1 /\ (Sgn # <<>> => Len(Sgn) = 1) /\ (Sgn = <<>> => Len(Sgn) = 0)
      /\ offset = size + Len(Sgn) /\ Len(Num) \in Nat /\ offset + Len(Num) < Len(cells)
  BY <1>2 DEF Ready
<1>31. \A i \in 1 .. Len(Num) : cells[offset + i] = Num[i]
  BY <1>2 DEF Ready
<1>4. /\ blanks \in Nat /\ blanks + name <= Len(Num)
      /\ spec.align # "LEFT" => blanks + name = Len(Num)
  BY <1>2 DEF PrintedAt
<1>41. \A i \in 1 .. Len(Num) :
          Num[i] = IF blanks + 1 <= i /\ i <= blanks + name
                   THEN value.chars[i - blanks] ELSE Blank
  BY <1>2 DEF PrintedAt
<1>5. Len(Num) = LET width == IF spec.align = "CENTER" THEN 0 ELSE spec.width - Len(Sgn)
                 IN  IF width > name THEN width ELSE name
  BY <1>2 DEF PrintedAt
<1>6. n = Len(Num) + Len(Sgn)
  BY DEF Written, Num, Sgn
<1>7. /\ sign = IF spec.align \notin {"RIGHT", "DEFAULT"} \/ blanks = 0
                THEN offset ELSE offset + blanks
      /\ spec.align = "LEFT" => blanks = 0
  BY DEF SignPlace, Blanks
<1>8. spec.align \in {"DEFAULT", "LEFT", "RIGHT", "CENTER", "NUMERIC"}
  BY <1>3 DEF FloatAssumption, Alignments
<1>9. c \in Seq(Glyphs) /\ Len(c) = Len(cells)
  BY <1>2, CorrectedIs
<1>91. \A i \in 1 .. Len(cells) :
          c[i] = IF Sgn # <<>> /\ i = sign THEN Sgn[1]
                 ELSE IF size + 1 <= i /\ i <= offset + blanks THEN spec.fill
                 ELSE cells[i]
  BY <1>2, CorrectedIs
<1> HIDE DEF blanks, name, c, n, sign
<1>10. offset \in Nat /\ n \in Nat /\ size + n = offset + Len(Num) /\ size + n <= Len(c)
  BY <1>3, <1>6, <1>9
<1>20. /\ size \in Nat /\ Len(Sgn) \in 0 .. 1 /\ offset = size + Len(Sgn) /\ offset \in Nat
       /\ Len(Num) \in Nat /\ Len(cells) \in Nat /\ offset + Len(Num) < Len(cells)
       /\ blanks \in Nat /\ name \in Nat /\ blanks + name <= Len(Num)
  BY <1>3, <1>4, <1>10
<1>21. Sgn # <<>> => Len(Sgn) = 1
  BY <1>3
<1>11. cells' = c /\ size' = offset + Len(Num)
  <2> DEFINE m == size + n
  <2>1. m \in Nat /\ m <= Len(c) /\ size \in 0 .. Len(c)
    BY <1>3, <1>9, <1>10
  <2> HIDE DEF m
  <2>2. reserved(c, m) = c
    BY <2>1, <1>9, ReservedIs
  <2> QED
    BY <2>2, <1>1, <1>10 DEF m
<1>12. blanks = 0 \/ spec.align \in {"RIGHT", "DEFAULT", "NUMERIC"}
  <2>1. CASE spec.align = "CENTER"
    <3>1. Len(Num) = name /\ blanks + name = Len(Num)
      BY <2>1, <1>3, <1>4, <1>5
    <3> QED
      BY <3>1, <1>3, <1>4
  <2> QED
    BY <2>1, <1>7, <1>8
<1>13. /\ sign = offset \/ sign = offset + blanks
       /\ Sgn # <<>> => sign = IF spec.align = "NUMERIC" THEN size + 1 ELSE offset + blanks
  <2>1. /\ Sgn # <<>> => offset = size + 1
        /\ blanks = 0 => offset + blanks = offset
    <3>1. Len(Sgn) = 1 => offset = size + 1
      BY <1>20
    <3>2. blanks = 0 => offset + blanks = offset
      BY <1>20
    <3> QED
      BY <3>1, <3>2, <1>21, Zenon
  <2>2. CASE spec.align \notin {"RIGHT", "DEFAULT"} \/ blanks = 0
    <3>1. sign = offset
      BY <2>2, <1>7
    <3>2. spec.align = "NUMERIC" \/ blanks = 0
      BY <2>2, <1>12
    <3> QED
      BY <2>1, <3>1, <3>2, Zenon
  <2>3. CASE ~(spec.align \notin {"RIGHT", "DEFAULT"} \/ blanks = 0)
    <3>1. sign = offset + blanks
      BY <2>3, <1>7
    <3>2. spec.align # "NUMERIC"
      BY <2>3
    <3> QED
      BY <3>1, <3>2, Zenon
  <2> QED
    BY <2>2, <2>3
<1>14. Sgn' = Sgn
  BY <1>1 DEF Sgn, SignOf, Sign
<1>15. \A i \in 1 .. size : c[i] = cells[i]
  <2> TAKE i \in 1 .. size
  <2>1. i \in 1 .. Len(cells) /\ ~(size + 1 <= i)
    BY <1>20
  <2>2. ~(Sgn # <<>> /\ i = sign)
    BY <2>1, <1>13, <1>20, <1>21
  <2> QED
    BY <2>1, <2>2, <1>91
<1>16. FloatTypes'
  <2>1. /\ size' \in 0 .. Len(c) /\ offset' \in 0 .. Len(c) /\ before'.size \in 0 .. size'
        /\ before'.capacity \in 0 .. Len(c)
    <3>1. before'.size = size /\ before'.capacity \in 0 .. Len(cells)
      BY <1>1, <1>3
    <3>2. Len(c) = Len(cells) /\ offset' = offset
      BY <1>1, <1>9
    <3> QED
      BY <3>1, <3>2, <1>11, <1>20
  <2> QED
    BY <2>1, <1>1, <1>3, <1>9, <1>11 DEF FloatTypes
<1>17. EarlierTextStays'
  <2>1. Len(c) >= size
    BY <1>3, <1>9
  <2> QED
    BY <2>1, <1>1, <1>3, <1>9, <1>11, <1>15, EarlierKept DEF FloatInv
<1>18. NumberIsShown'
  <2> DEFINE at == offset + blanks
  <2>1. PICK a \in Nat, b \in Nat : a = at /\ b = sign
    BY <1>13, <1>20
  <2>2. a \in (size + Len(Sgn)) .. (offset + Len(Num) - name)
    BY <2>1, <1>20
  <2>3. ASSUME Sgn # <<>>
        PROVE  /\ b \in (size + 1) .. a /\ c[b] = Sgn[1]
               /\ b = IF spec.align = "NUMERIC" THEN size + 1 ELSE a
    <3>1. b \in (size + 1) .. a
      BY <2>1, <2>3, <1>13, <1>20, <1>21
    <3>2. b \in 1 .. Len(cells)
      BY <3>1, <2>1, <1>20
    <3> QED
      BY <3>1, <3>2, <2>1, <2>3, <1>91, <1>13
  <2>4. ASSUME NEW i \in 1 .. name PROVE c[a + i] = value.chars[i]
    <3> DEFINE k == blanks + i
    <3>1. /\ k \in 1 .. Len(Num) /\ blanks + 1 <= k /\ k <= blanks + name /\ k - blanks = i
          /\ a + i = offset + k
      BY <2>1, <1>20
    <3>2. /\ a + i \in 1 .. Len(cells) /\ ~(a + i <= offset + blanks)
          /\ ~(a + i = sign)
      BY <2>1, <1>13, <1>20, <1>21
    <3> HIDE DEF k
    <3>3. Num[k] = value.chars[k - blanks] /\ cells[offset + k] = Num[k]
      BY <3>1, <1>31, <1>41
    <3>4. c[a + i] = cells[a + i]
      BY <3>2, <1>91
    <3> QED
      BY <3>1, <3>3, <3>4
  <2>5. ASSUME NEW i \in (size + 1) .. (offset + Len(Num)), i <= a \/ i > a + name,
               ~(Sgn # <<>> /\ i = b)
        PROVE  c[i] = spec.fill \/ (c[i] = Blank /\ spec.align = "LEFT")
    <3>1. i \in 1 .. Len(cells) /\ size + 1 <= i
      BY <1>20
    <3>2. CASE i <= a
      <4>1. i <= offset + blanks /\ ~(Sgn # <<>> /\ i = sign)
        BY <2>1, <2>5, <3>2
      <4> QED
        BY <4>1, <3>1, <1>91
    <3>3. CASE i > a + name
      <4> DEFINE k == i - offset
      <4>1. k \in 1 .. Len(Num) /\ ~(k <= blanks + name) /\ offset + k = i
        BY <3>1, <3>3, <2>1, <1>20
      <4>2. spec.align = "LEFT"
        BY <4>1, <1>4, <1>20
      <4>3. ~(i <= offset + blanks) /\ ~(Sgn # <<>> /\ i = sign)
        BY <3>1, <3>3, <2>1, <2>5, <1>20
      <4> HIDE DEF k
      <4>4. Num[k] = Blank /\ cells[offset + k] = Num[k]
        BY <4>1, <1>31, <1>41
      <4>5. c[i] = cells[i]
        BY <3>1, <4>3, <1>91
      <4> QED
        BY <4>1, <4>2, <4>4, <4>5
    <3> QED
      BY <2>5, <3>2, <3>3
  <2>9. spec.align # "CENTER" =>
           a = IF spec.align = "LEFT" THEN size + Len(Sgn) ELSE offset + Len(Num) - name
    <3>1. CASE spec.align = "LEFT"
      <4>1. blanks = 0
        BY <3>1, <1>7
      <4>2. a = size + Len(Sgn)
        BY <4>1, <2>1, <1>20
      <4> QED
        BY <3>1, <4>2
    <3>2. CASE spec.align # "LEFT"
      <4>1. blanks + name = Len(Num)
        BY <3>2, <1>4
      <4>2. a = offset + Len(Num) - name
        BY <4>1, <2>1, <1>20
      <4> QED
        BY <3>2, <4>2
    <3> QED
      BY <3>1, <3>2
  <2>6. Shown(a, b)'
    <3>1. a \in (before'.size + Len(Sgn')) .. (size' - Len(value'.chars))
      BY <2>2, <1>1, <1>3, <1>11, <1>14 DEF name
    <3>2. Sgn' # <<>> => b \in (before'.size + 1) .. a /\ cells'[b] = Sgn'[1]
      BY <2>3, <1>1, <1>3, <1>11, <1>14
    <3>3. Sgn' # <<>> => b = IF spec'.align = "NUMERIC" THEN before'.size + 1 ELSE a
      BY <2>3, <1>1, <1>3, <1>14
    <3>4. \A i \in 1 .. Len(value'.chars) : cells'[a + i] = value'.chars[i]
      BY <2>4, <1>1, <1>11 DEF name
    <3>5. \A i \in (before'.size + 1) .. size' :
             i <= a \/ i > a + Len(value'.chars) =>
                \/ Sgn' # <<>> /\ i = b
                \/ cells'[i] = spec'.fill
                \/ cells'[i] = Blank /\ spec'.align = "LEFT" /\ value'.finite
      BY <2>5, <1>1, <1>3, <1>11, <1>14 DEF name
    <3>6. value'.finite /\ spec'.align # "CENTER" =>
             a = IF spec'.align = "LEFT" THEN before'.size + Len(Sgn')
                 ELSE size' - Len(value'.chars)
      BY <2>9, <1>1, <1>3, <1>11, <1>14 DEF name
    <3> QED
      BY <3>1, <3>2, <3>3, <3>4, <3>5, <3>6 DEF Shown
  <2>7. n = IF spec.width > Len(Sgn) + name THEN spec.width ELSE Len(Sgn) + name
    <3>1. CASE spec.align = "CENTER"
      <4>1. Len(Num) = name
        BY <3>1, <1>3, <1>5
      <4>2. ~(spec.width > n)
        BY <3>1, <1>1
      <4> QED
        BY <4>1, <4>2, <1>3, <1>6
    <3>2. CASE spec.align # "CENTER"
      <4>1. Len(Num) = IF spec.width - Len(Sgn) > name THEN spec.width - Len(Sgn) ELSE name
        BY <3>2, <1>5
      <4> QED
        BY <4>1, <1>3, <1>6
    <3> QED
      BY <3>1, <3>2
  <2>8. size' - before'.size = n
    BY <1>1, <1>3, <1>10
  <2> QED
    BY <2>6, <2>7, <2>8, <1>1, <1>14 DEF NumberIsShown, name
<1> QED
  BY <1>1, <1>16, <1>17, <1>18 DEF FloatInv, Printing

LEMMA CentredKeeps ==
  ASSUME FloatAssumption, FloatInv, Centred
  PROVE  FloatInv'
<1> DEFINE name == Len(value.chars)
           width == spec.width
           n == Written(value, spec)
           signed == Copied(cells, offset - Len(Sgn), Sgn)
           storage == reserved(signed, size + width)
           number == SubSeq(storage, size + 1, size + n)
           area == fill_padding(storage, size, width, n, spec.fill)
<1>1. /\ pc = "sign" /\ pc' = "done" /\ spec.align = "CENTER" /\ width > n
      /\ cells' = Copied(area.buffer, area.at, number) /\ size' = size + width
      /\ value' = value /\ spec' = spec /\ offset' = offset /\ before' = before
  BY DEF Centred, Sgn
<1>2. Ready /\ PrintedAt
  BY <1>1, SignComesReady
<1>3. /\ cells \in Seq(Glyphs) /\ Len(cells) \in Nat /\ size \in Nat /\ size = before.size
      /\ value \in Values /\ spec \in Specs /\ value.finite
      /\ width \in Nat /\ spec.fill \in Glyphs /\ name \in Nat
      /\ before.capacity \in 0 .. Len(cells)
      /\ Sgn \in Seq(Glyphs) /\ Len(Sgn) \in 0 .. 1
      /\ (Sgn # <<>> => Len(Sgn) = 1) /\ (Sgn = <<>> => Len(Sgn) = 0)
      /\ Sgn # <<>> => size + width <= Len(cells)
      /\ offset = size + Len(Sgn) /\ Len(Num) \in Nat /\ offset + Len(Num) < Len(cells)
  BY <1>2 DEF Ready
<1>4. \A i \in 1 .. Len(Num) : cells[offset + i] = Num[i]
  BY <1>2 DEF Ready
<1>5. Blanks(value, spec) = 0 /\ Len(Num) = name
  <2>1. /\ Blanks(value, spec) \in Nat /\ Blanks(value, spec) + name = Len(Num)
        /\ Len(Num) = IF 0 > name THEN 0 ELSE name
    BY <1>1, <1>2 DEF PrintedAt
  <2> QED
    BY <2>1, <1>3
<1>6. \A i \in 1 .. name : Num[i] = value.chars[i]
  <2> TAKE i \in 1 .. name
  <2>1. Num[i] = IF Blanks(value, spec) + 1 <= i /\ i <= Blanks(value, spec) + name
                 THEN value.chars[i - Blanks(value, spec)] ELSE Blank
    BY <1>2, <1>5 DEF PrintedAt
  <2>2. 0 + 1 <= i /\ i <= 0 + name /\ i - 0 = i
    BY <1>3
  <2> QED
    BY <2>1, <2>2, <1>5
<1>7. n = Len(Num) + Len(Sgn)
  BY DEF Written, Num, Sgn
<1> HIDE DEF name, width, n
<1>8. /\ size \in Nat /\ Len(Sgn) \in 0 .. 1 /\ offset = size + Len(Sgn) /\ offset \in Nat
      /\ Len(cells) \in Nat /\ offset + name < Len(cells) /\ name \in Nat
      /\ n \in Nat /\ n = name + Len(Sgn) /\ width \in Nat /\ width > n
  <2>1. /\ size \in Nat /\ Len(Sgn) \in 0 .. 1 /\ offset = size + Len(Sgn)
        /\ Len(cells) \in Nat /\ offset + name < Len(cells) /\ name \in Nat
        /\ n = name + Len(Sgn) /\ width \in Nat
    BY <1>3, <1>5, <1>7
  <2>2. offset \in Nat /\ n \in Nat
    BY <2>1
  <2> QED
    BY <2>1, <2>2, <1>1
<1>9. /\ Len(Sgn) = 1 \/ Sgn = <<>>
      /\ Sgn = <<>> => Len(Sgn) = 0
  BY <1>3
<1>10. /\ signed \in Seq(Glyphs) /\ Len(signed) = Len(cells)
       /\ \A i \in 1 .. Len(cells) :
             signed[i] = IF size + 1 <= i /\ i <= size + Len(Sgn) THEN Sgn[i - size] ELSE cells[i]
  <2>1. offset - Len(Sgn) = size /\ size \in Int
    BY <1>8
  <2>2. signed = Copied(cells, size, Sgn)
    BY <2>1
  <2> HIDE DEF signed
  <2>3. cells \in Seq(Glyphs) /\ Sgn \in Seq(Glyphs)
    BY <1>3
  <2> QED
    BY <2>1, <2>2, <2>3, CopiedIs
<1> HIDE DEF signed
<1> DEFINE m == size + width
<1>11. m \in Nat /\ size \in 0 .. Len(signed) /\ m > size
  BY <1>8, <1>10
<1> HIDE DEF m
<1>12. /\ storage \in Seq(Glyphs) /\ Len(storage) >= m /\ Len(storage) >= Len(cells)
       /\ m <= Len(cells) => storage = signed
       /\ \A i \in 1 .. size : storage[i] = signed[i]
  <2>1. storage = reserved(signed, m)
    BY DEF m
  <2> HIDE DEF storage
  <2>2. /\ reserved(signed, m) \in Seq(Glyphs)
        /\ Len(reserved(signed, m)) >= m
        /\ Len(reserved(signed, m)) >= Len(signed)
        /\ m <= Len(signed) => reserved(signed, m) = signed
        /\ \A i \in 1 .. size : reserved(signed, m)[i] = signed[i]
    BY <1>10, <1>11, ReservedIs
  <2> QED
    BY <2>1, <2>2, <1>10
<1> HIDE DEF storage
<1>13. Len(storage) \in Nat
  BY <1>12
<1>14. /\ number \in Seq(Glyphs) /\ Len(number) = n
       /\ \A j \in 1 .. n : number[j] = storage[size + j]
  <2> DEFINE a == size + 1
             b == size + n
  <2>1. a \in 1 .. (b + 1) /\ b \in a - 1 .. Len(storage) /\ b - a + 1 = n
    BY <1>8, <1>12, <1>13 DEF m
  <2>2. a \in Int /\ b \in Int /\ 1 <= a /\ b <= Len(storage)
    BY <2>1, <1>8
  <2>3. b = a + n - 1 /\ a + n - 1 \in Nat
    BY <1>8
  <2>4. \A j \in 1 .. n : a + j - 1 = size + j
    BY <1>8
  <2> HIDE DEF a, b
  <2>5. /\ SubSeq(storage, a, b) \in Seq(Glyphs)
        /\ Len(SubSeq(storage, a, b)) = IF a <= b THEN b - a + 1 ELSE 0
        /\ \A j \in 1 .. (b - a + 1) : SubSeq(storage, a, b)[j] = storage[a + j - 1]
    BY <2>1, <2>2, <1>12, SubSeqProperties
  <2>6. n = IF a <= b THEN b - a + 1 ELSE 0
    BY <2>1, <2>2, <2>3, <1>8
  <2> QED
    BY <2>1, <2>4, <2>5, <2>6 DEF a, b
<1> HIDE DEF number
<1> DEFINE p == area.at
           full == area.buffer
<1>30. /\ storage \in Seq(Glyphs) /\ size \in Nat /\ width \in Nat /\ n \in Nat
       /\ n <= width /\ size + width <= Len(storage) /\ spec.fill \in Glyphs
  <2>1. n <= width /\ size + width <= Len(storage)
    BY <1>8, <1>12, <1>13 DEF m
  <2> QED
    BY <2>1, <1>3, <1>8, <1>12
<1>31. area.at = size + (width - n) \div 2
  BY <1>30, PaddingIs
<1>32. /\ area.buffer \in Seq(Glyphs) /\ Len(area.buffer) = Len(storage)
       /\ \A i \in 1 .. Len(storage) :
             area.buffer[i] =
                IF \/ size + 1 <= i /\ i <= size + (width - n) \div 2
                   \/ size + (width - n) \div 2 + n + 1 <= i /\ i <= size + width
                THEN spec.fill ELSE storage[i]
  BY <1>30, PaddingIs
<1>15. p \in Nat /\ p >= size /\ p + n <= m
  <2> DEFINE half == (width - n) \div 2
  <2>1. half \in Nat /\ half <= width - n
    BY <1>8
  <2>2. area.at = size + (width - n) \div 2
    BY <1>31
  <2> HIDE DEF half, area
  <2>3. p = size + half
    BY <2>2 DEF half
  <2> HIDE DEF p
  <2> QED
    BY <2>1, <2>3, <1>8 DEF m
<1>16. /\ full \in Seq(Glyphs) /\ Len(full) = Len(storage)
       /\ \A i \in 1 .. Len(storage) :
             full[i] = IF \/ size + 1 <= i /\ i <= p
                          \/ p + n + 1 <= i /\ i <= m
                       THEN spec.fill ELSE storage[i]
  <2>1. size + (width - n) \div 2 = p
    BY <1>31
  <2>2. \A i \in 1 .. Len(storage) :
           area.buffer[i] = IF \/ size + 1 <= i /\ i <= p
                               \/ p + n + 1 <= i /\ i <= size + width
                            THEN spec.fill ELSE storage[i]
    BY <2>1, <1>32
  <2> HIDE DEF area
  <2>3. full \in Seq(Glyphs) /\ Len(full) = Len(storage)
    BY <1>32
  <2>4. \A i \in 1 .. Len(storage) :
           full[i] = IF \/ size + 1 <= i /\ i <= p
                        \/ p + n + 1 <= i /\ i <= m
                     THEN spec.fill ELSE storage[i]
    BY <2>2 DEF m
  <2> HIDE DEF full, p
  <2> QED
    BY <2>3, <2>4
<1>17. cells' = Copied(full, p, number)
  BY <1>1
<1> HIDE DEF area, p, full
<1>18. /\ cells' \in Seq(Glyphs) /\ Len(cells') = Len(storage)
       /\ \A i \in 1 .. Len(storage) :
             cells'[i] = IF p + 1 <= i /\ i <= p + n THEN number[i - p] ELSE full[i]
  <2>1. p \in Int
    BY <1>15
  <2> QED
    BY <2>1, <1>14, <1>16, <1>17, CopiedIs
<1>19. size' = m /\ m = size + width /\ Sgn' = Sgn
  BY <1>1 DEF m, Sgn, SignOf, Sign
<1>20. \A i \in 1 .. size : cells'[i] = cells[i]
  <2> TAKE i \in 1 .. size
  <2>1. i \in 1 .. Len(cells) /\ ~(size + 1 <= i)
    BY <1>8
  <2>2. i \in 1 .. Len(storage) /\ ~(p + 1 <= i)
    BY <2>1, <1>8, <1>12, <1>13, <1>15
  <2>3. ~(p + n + 1 <= i)
    BY <2>1, <1>8, <1>15
  <2> QED
    BY <2>1, <2>2, <2>3, <1>10, <1>12, <1>16, <1>18
<1>21. FloatTypes'
  <2>1. /\ size' \in 0 .. Len(cells') /\ offset' \in 0 .. Len(cells')
        /\ before'.size \in 0 .. size' /\ before'.capacity \in 0 .. Len(cells')
    <3>1. before'.size = size /\ before'.capacity \in 0 .. Len(cells) /\ offset' = offset
      BY <1>1, <1>3
    <3> QED
      BY <3>1, <1>8, <1>11, <1>12, <1>13, <1>18, <1>19
  <2> QED
    BY <2>1, <1>1, <1>3, <1>18 DEF FloatTypes
<1>22. EarlierTextStays'
  <2>1. Len(cells') >= size
    BY <1>8, <1>12, <1>13, <1>18
  <2> QED
    BY <2>1, <1>1, <1>3, <1>18, <1>20, EarlierKept DEF FloatInv
<1>23. NumberIsShown'
  <2>1. size' - before'.size = IF spec'.width > Len(Sgn') + name THEN spec'.width
                               ELSE Len(Sgn') + name
    <3>1. before'.size = size /\ spec'.width = width
      BY <1>1, <1>3 DEF width
    <3>2. m - size = width /\ width > Len(Sgn) + name
      BY <1>8, <1>19
    <3> QED
      BY <3>1, <3>2, <1>19
  <2>2. ASSUME RoomForField'
        PROVE  \E at, signAt \in Nat : Shown(at, signAt)'
    <3>1. storage = signed
      <4>1. \/ Sgn # <<>>
            \/ before.size + spec.width <= before.capacity
        BY <2>2, <1>1, <1>3 DEF RoomForField, Sgn, SignOf, Sign
      <4>2. m <= Len(cells)
        <5>1. CASE Sgn # <<>>
          BY <5>1, <1>3 DEF m
        <5>2. CASE before.size + spec.width <= before.capacity
          <6>1. size + width <= before.capacity /\ before.capacity \in 0 .. Len(cells)
            BY <5>2, <1>3 DEF width
          <6> QED
            BY <6>1, <1>8, <1>19
        <5> QED
          BY <4>1, <5>1, <5>2
      <4> QED
        BY <4>2, <1>12
    <3>2. \A j \in 1 .. n : number[j] = signed[size + j]
      BY <3>1, <1>14
    <3> DEFINE at == p + Len(Sgn)
               signAt == p + 1
    <3>3. PICK a \in Nat, b \in Nat : a = at /\ b = signAt
      BY <1>8, <1>15
    <3>4. a \in (size + Len(Sgn)) .. (m - name)
      BY <3>3, <1>8, <1>11, <1>15
    <3>5. ASSUME Len(Sgn) = 1
          PROVE  b \in (size + 1) .. a /\ b = a /\ cells'[b] = Sgn[1]
      <4>1. /\ b \in 1 .. Len(storage) /\ p + 1 <= b /\ b <= p + n /\ b - p = 1
            /\ b \in (size + 1) .. a /\ b = a /\ 1 \in 1 .. n
        BY <3>3, <3>5, <1>8, <1>11, <1>12, <1>13, <1>15
      <4>2. cells'[b] = number[b - p]
        BY <4>1, <1>18
      <4>3. number[1] = signed[size + 1]
        BY <4>1, <3>2
      <4>4. /\ size + 1 \in 1 .. Len(cells) /\ size + 1 <= size + 1
            /\ size + 1 <= size + Len(Sgn) /\ (size + 1) - size = 1
        BY <3>5, <1>8
      <4>5. signed[size + 1] = Sgn[(size + 1) - size]
        BY <4>4, <1>10
      <4> QED
        BY <4>1, <4>2, <4>3, <4>4, <4>5
    <3>6. ASSUME NEW i \in 1 .. name PROVE cells'[a + i] = value.chars[i]
      <4> DEFINE k == Len(Sgn) + i
                 q == size + k
      <4>1. /\ a + i \in 1 .. Len(storage) /\ p + 1 <= a + i /\ a + i <= p + n
            /\ (a + i) - p = k /\ k \in 1 .. n /\ q = offset + i
            /\ q \in 1 .. Len(cells) /\ ~(q <= size + Len(Sgn))
        BY <3>3, <1>8, <1>11, <1>12, <1>13, <1>15
      <4>2. cells'[a + i] = number[(a + i) - p]
        BY <4>1, <1>18
      <4>3. number[k] = signed[q]
        BY <4>1, <3>2
      <4> HIDE DEF k, q
      <4>4. signed[q] = cells[q]
        BY <4>1, <1>10
      <4>5. cells[offset + i] = value.chars[i]
        BY <1>4, <1>5, <1>6
      <4> QED
        BY <4>1, <4>2, <4>3, <4>4, <4>5
    <3>7. ASSUME NEW i \in (size + 1) .. m, i <= a \/ i > a + name,
                 ~(Sgn # <<>> /\ i = b)
          PROVE  cells'[i] = spec.fill
      <4>1. i \in 1 .. Len(storage) /\ i \in Nat
        BY <1>8, <1>11, <1>12, <1>13
      <4>2. i <= p \/ i > p + n
        <5>1. CASE Len(Sgn) = 1
          <6>1. i # b
            BY <5>1, <3>7, <1>9
          <6> QED
            BY <5>1, <6>1, <4>1, <3>3, <3>7, <1>8, <1>15
        <5>2. CASE Len(Sgn) = 0
          BY <5>2, <4>1, <3>3, <3>7, <1>8, <1>15
        <5> QED
          BY <5>1, <5>2, <1>9
      <4>3. /\ ~(p + 1 <= i /\ i <= p + n)
            /\ (size + 1 <= i /\ i <= p) \/ (p + n + 1 <= i /\ i <= m)
        BY <4>1, <4>2, <1>8, <1>11, <1>15
      <4> QED
        BY <4>1, <4>3, <1>16, <1>18
    <3>8. Shown(a, b)'
      <4>1. a \in (before'.size + Len(Sgn')) .. (size' - Len(value'.chars))
        BY <3>4, <1>1, <1>3, <1>19 DEF name
      <4>2. Sgn' # <<>> => b \in (before'.size + 1) .. a /\ cells'[b] = Sgn'[1]
        BY <3>5, <1>1, <1>3, <1>9, <1>19
      <4>3. Sgn' # <<>> => b = IF spec'.align = "NUMERIC" THEN before'.size + 1 ELSE a
        BY <3>5, <1>1, <1>9, <1>19
      <4>4. \A i \in 1 .. Len(value'.chars) : cells'[a + i] = value'.chars[i]
        BY <3>6, <1>1 DEF name
      <4>5. \A i \in (before'.size + 1) .. size' :
               i <= a \/ i > a + Len(value'.chars) =>
                  (Sgn' # <<>> /\ i = b) \/ cells'[i] = spec'.fill
        BY <3>7, <1>1, <1>3, <1>19 DEF name
      <4>6. spec'.align = "CENTER"
        BY <1>1
      <4> QED
        BY <4>1, <4>2, <4>3, <4>4, <4>5, <4>6 DEF Shown
    <3> QED
      BY <3>3, <3>8
  <2> QED
    BY <2>1, <2>2, <1>1 DEF NumberIsShown, name
<1> QED
  BY <1>1, <1>21, <1>22, <1>23 DEF FloatInv, Printing

LEMMA FloatStep ==
  ASSUME FloatAssumption, FloatInv, [Next]_vars
  PROVE  FloatInv' /\ (pc = "print" /\ pc' = "print" /\ vars' # vars =>
                          Len(cells') > Len(cells))
<1>1. CASE NotFinite
  <2>1. pc = "begin"
    BY <1>1 DEF NotFinite
  <2> QED
    BY <2>1, <1>1, NotFiniteKeeps
<1>2. CASE Begin
  <2>1. pc = "begin"
    BY <1>2 DEF Begin
  <2> QED
    BY <2>1, <1>2, BeginKeeps
<1>3. CASE Snprintf
  BY <1>3, SnprintfKeeps
<1>4. CASE Centred
  <2>1. pc = "sign"
    BY <1>4 DEF Centred
  <2> QED
    BY <2>1, <1>4, CentredKeeps
<1>5. CASE InPlace
  <2>1. pc = "sign"
    BY <1>5 DEF InPlace
  <2> QED
    BY <2>1, <1>5, InPlaceKeeps
<1>6. CASE UNCHANGED vars
  <2>1. /\ cells' = cells /\ size' = size /\ value' = value /\ spec' = spec
        /\ offset' = offset /\ pc' = pc /\ before' = before
    BY <1>6 DEF vars
  <2>2. Sgn' = Sgn /\ Num' = Num /\ RoomForField' = RoomForField
    BY <2>1 DEF Sgn, Num, SignOf, Sign, Printed, RoomForField
  <2>3. FloatTypes' /\ EarlierTextStays' /\ Printing'
    BY <2>1, <2>2 DEF FloatInv, FloatTypes, EarlierTextStays, Printing
  <2>4. ASSUME NEW a \in Nat, NEW b \in Nat, Shown(a, b) PROVE Shown(a, b)'
    BY <2>1, <2>2, <2>4 DEF Shown
  <2>5. pc' = "done" => NumberIsShown'
    BY <2>1, <2>2, <2>4 DEF FloatInv, NumberIsShown
  <2> QED
    BY <2>3, <2>5, <1>6 DEF FloatInv
<1> QED
  BY <1>1, <1>2, <1>3, <1>4, <1>5, <1>6 DEF Next

LEMMA FloatInvHolds == FloatAssumption /\ Spec => []FloatInv
<1>1. ASSUME FloatAssumption PROVE Spec => []FloatInv
  <2>1. Init => FloatInv
    BY <1>1, FloatInit
  <2>2. FloatInv /\ [Next]_vars => FloatInv'
    BY <1>1, FloatStep
  <2> QED
    BY <2>1, <2>2, PTL DEF Spec
<1> QED
  BY <1>1

(* The places of what was written.                                         *)
LEMMA TextIs ==
  ASSUME FloatTypes
  PROVE  /\ Text \in Seq(Glyphs) /\ Len(Text) = size - before.size
         /\ \A i \in 1 .. size - before.size : Text[i] = cells[before.size + i]
<1> DEFINE b == before.size
<1>1. /\ cells \in Seq(Glyphs) /\ Len(cells) \in Nat
      /\ size \in 0 .. Len(cells) /\ b \in 0 .. size
  BY DEF FloatTypes
<1>2. Text = SubSeq(cells, b + 1, size)
  BY DEF Text
<1> HIDE DEF b
<1>3. /\ SubSeq(cells, b + 1, size) \in Seq(Glyphs)
      /\ Len(SubSeq(cells, b + 1, size)) = size - b
      /\ \A i \in 1 .. size - b : SubSeq(cells, b + 1, size)[i] = cells[b + i]
  BY <1>1
<1> QED
  BY <1>2, <1>3 DEF b

LEMMA SignIsPlain ==
  ASSUME FloatTypes, PlainCharacters, Sgn # <<>>
  PROVE  Sgn[1] \in {"-", "+"} /\ Sgn[1] # Blank
<1>1. Sgn = <<"-">> \/ Sgn = <<"+">>
  <2>1. "SIGN" \in spec.flags => "PLUS" \in spec.flags
    BY Zenon DEF FloatTypes, PlainCharacters
  <2> QED
    BY <2>1 DEF Sgn, SignOf, Sign
<1>2. Sgn[1] \in {"-", "+"}
  <2> HIDE DEF Sgn
  <2> QED
    BY <1>1
<1>3. "-" # Blank /\ "+" # Blank
  BY DEF PlainCharacters
<1> QED
  BY <1>2, <1>3

LEMMA WidthOfField ==
  ASSUME FloatAssumption, PlainCharacters, FloatInv
  PROVE  FieldHasItsWidth
<1> SUFFICES ASSUME pc = "done" PROVE FieldHasItsWidth
  BY DEF FieldHasItsWidth
<1> DEFINE name == Len(value.chars)
           n == Len(Sgn) + name
           first == before.size
           sign_at == {i \in DOMAIN Text : Text[i] \in {"-", "+"}}
<1>1. FloatTypes /\ NumberIsShown
  BY DEF FloatInv
<1>2. /\ value \in Values /\ spec \in Specs /\ spec.width \in Nat /\ name \in Nat
      /\ size \in Nat /\ first \in 0 .. size
  BY <1>1 DEF FloatTypes, FloatAssumption
<1>3. Len(Sgn) \in 0 .. 1 /\ (Sgn # <<>> => Len(Sgn) = 1)
  BY <1>2, SignIs DEF Sgn
<1>4. /\ Text \in Seq(Glyphs) /\ Len(Text) = size - first
      /\ DOMAIN Text = 1 .. size - first
      /\ \A i \in 1 .. size - first : Text[i] = cells[first + i]
  BY <1>1, TextIs
<1>5. size - first = IF spec.width > n THEN spec.width ELSE n
  BY <1>1 DEF NumberIsShown
<1> HIDE DEF name, first
<1>6. Len(Text) = Max({n, spec.width})
  <2> n \in Int /\ spec.width \in Int
    BY <1>2, <1>3
  <2> HIDE DEF n
  <2>1. Max({n, spec.width}) = IF n > spec.width THEN n ELSE spec.width
    BY MaxIs
  <2> QED
    BY <2>1, <1>4, <1>5
<1>7. ASSUME spec.align \in {"NUMERIC", "RIGHT", "DEFAULT"}
      PROVE  /\ spec.align = "NUMERIC" => sign_at \subseteq {1}
             /\ value.finite /\ spec.align \in {"RIGHT", "DEFAULT"} =>
                    sign_at \subseteq {Len(Text) - name}
  <2>1. PICK at \in Nat, signAt \in Nat : Shown(at, signAt)
    <3>1. RoomForField
      BY <1>7 DEF RoomForField
    <3> QED
      BY <3>1, <1>1 DEF NumberIsShown
  <2>2. ASSUME NEW i \in sign_at PROVE Sgn # <<>> /\ first + i = signAt
    <3> DEFINE k == first + i
    <3>1. k \in (first + 1) .. size /\ cells[k] \in {"-", "+"}
      BY <1>2, <1>4
    <3> HIDE DEF k
    <3>2. ~(at + 1 <= k /\ k <= at + name)
      <4> SUFFICES ASSUME at + 1 <= k, k <= at + name PROVE FALSE
        OBVIOUS
      <4>1. k - at \in 1 .. name /\ at + (k - at) = k
        BY <1>2, <3>1
      <4>2. cells[k] = value.chars[k - at]
        BY <2>1, <4>1 DEF Shown, name
      <4> QED
        BY <4>1, <4>2, <3>1, <1>2 DEF PlainCharacters, name
    <3>3. k <= at \/ k > at + name
      BY <3>1, <3>2, <1>2
    <3>4. cells[k] # spec.fill /\ cells[k] # Blank
      <4>1. spec.fill \notin {"-", "+"}
        BY <1>2, Zenon DEF PlainCharacters
      <4>2. "-" # Blank /\ "+" # Blank
        BY DEF PlainCharacters
      <4> QED
        BY <3>1, <4>1, <4>2
    <3>5. Sgn # <<>> /\ k = signAt
      BY <2>1, <3>1, <3>3, <3>4 DEF Shown, first, name
    <3> QED
      BY <3>5 DEF k
  <2>3. Sgn # <<>> => signAt = IF spec.align = "NUMERIC" THEN first + 1 ELSE at
    BY <2>1 DEF Shown, first
  <2>4. value.finite => at = size - name
    BY <2>1, <1>7 DEF Shown, name
  <2>5. \A i \in sign_at : i \in Nat
    BY <1>4
  <2>6. ASSUME spec.align = "NUMERIC", NEW i \in sign_at PROVE i = 1
    BY <2>2, <2>3, <2>5, <2>6, <1>2
  <2>7. ASSUME value.finite, spec.align \in {"RIGHT", "DEFAULT"}, NEW i \in sign_at
        PROVE  i = Len(Text) - name
    <3>1. first + i = size - name /\ i \in Nat
      BY <2>2, <2>3, <2>4, <2>5, <2>7
    <3>2. Len(Text) = size - first
      BY <1>4
    <3> HIDE DEF sign_at
    <3> QED
      BY <3>1, <3>2, <1>2
  <2> HIDE DEF sign_at
  <2> QED
    BY <2>6, <2>7
<1>8. SignOf(value, spec) = Sgn
  BY DEF Sgn
<1> QED
  BY <1>6, <1>7, <1>8 DEF FieldHasItsWidth, name

LEMMA FillOfField ==
  ASSUME FloatAssumption, PlainCharacters, FloatInv
  PROVE  PaddedWithFill
<1> SUFFICES ASSUME pc = "done", RoomForField, spec.fill # Blank,
                    ~(spec.align = "LEFT" /\ value.finite),
                    NEW i \in DOMAIN Text
             PROVE  Text[i] # Blank
  BY DEF PaddedWithFill
<1> DEFINE name == Len(value.chars)
           k == before.size + i
<1>1. FloatTypes /\ NumberIsShown
  BY DEF FloatInv
<1>2. /\ value \in Values /\ name \in Nat /\ size \in Nat /\ before.size \in 0 .. size
  BY <1>1 DEF FloatTypes, FloatAssumption
<1>3. k \in (before.size + 1) .. size /\ Text[i] = cells[k]
  <2>1. /\ Text \in Seq(Glyphs) /\ Len(Text) = size - before.size
        /\ \A j \in 1 .. size - before.size : Text[j] = cells[before.size + j]
    BY <1>1, TextIs
  <2>2. i \in 1 .. size - before.size
    BY <2>1
  <2> QED
    BY <2>1, <2>2, <1>2
<1> HIDE DEF k, name
<1>4. PICK at \in Nat, signAt \in Nat : Shown(at, signAt)
  BY <1>1 DEF NumberIsShown
<1>5. CASE at + 1 <= k /\ k <= at + name
  <2>1. k - at \in 1 .. name /\ at + (k - at) = k
    BY <1>5, <1>2, <1>3
  <2>2. cells[k] = value.chars[k - at]
    BY <1>4, <2>1 DEF Shown, name
  <2> QED
    BY <2>1, <2>2, <1>2, <1>3 DEF PlainCharacters, name
<1>6. CASE ~(at + 1 <= k /\ k <= at + name)
  <2>1. k <= at \/ k > at + name
    BY <1>6, <1>2, <1>3
  <2>2. (Sgn # <<>> /\ k = signAt) \/ cells[k] = spec.fill
    BY <1>4, <1>3, <2>1 DEF Shown, name
  <2>3. Sgn # <<>> => cells[signAt] = Sgn[1]
    BY <1>4 DEF Shown
  <2> QED
    BY <2>2, <2>3, <1>1, <1>3, SignIsPlain
<1> QED
  BY <1>5, <1>6

WrittenRight ==
    /\ TypeOK
    /\ EarlierTextStays
    /\ FieldHasItsWidth
    /\ PaddedWithFill
    /\ pc = "done" => NumberIsShown

(* However often the buffer grows while a number is written, the text that *)
(* was there stays, the number, its sign and its padding are where the     *)
(* alignment wants them, the field has its width and the fill character    *)
(* fills it.                                                               *)
THEOREM FloatsAreWritten ==
  FloatAssumption /\ PlainCharacters /\ Spec => []WrittenRight
<1>1. ASSUME FloatAssumption, PlainCharacters PROVE FloatInv => WrittenRight
  <2>1. FloatInv => TypeOK
    BY DEF FloatInv, FloatTypes, TypeOK, capacity
  <2>2. FloatInv => EarlierTextStays /\ (pc = "done" => NumberIsShown)
    BY DEF FloatInv
  <2>3. FloatInv => FieldHasItsWidth /\ PaddedWithFill
    BY <1>1, WidthOfField, FillOfField
  <2> QED
    BY <2>1, <2>2, <2>3 DEF WrittenRight
<1>2. ASSUME FloatAssumption, PlainCharacters PROVE Spec => []WrittenRight
  BY <1>1, <1>2, FloatInvHolds, PTL
<1> QED
  BY <1>2

(* Every round of the loop around snprintf that is not the last leaves more *)
(* room than there was.                                                     *)
THEOREM EveryRoundMakesRoom ==
  FloatAssumption /\ Spec => RoundsMakeRoom
<1>1. ASSUME FloatAssumption PROVE Spec => RoundsMakeRoom
  <2>1. /\ FloatInv /\ [Next]_vars
        => [pc = "print" /\ pc' = "print" => Len(cells') > Len(cells)]_vars
    BY <1>1, FloatStep
  <2>2. Spec => []FloatInv
    BY <1>1, FloatInvHolds
  <2> QED
    BY <2>1, <2>2, PTL DEF Spec, RoundsMakeRoom
<1> QED
  BY <1>1

=============================================================================
