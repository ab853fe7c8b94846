----------------------------- MODULE WireProofs -----------------------------
(***************************************************************************)
(* Theorems about Wire: the server reads what the client wrote and refuses *)
(* a request cut anywhere, for any range of a byte and any names whose     *)
(* length fits in its field.                                               *)
(***************************************************************************)
EXTENDS MCWire, SequenceTheorems, TLAPS

-----------------------------------------------------------------------------
(* Digits to base b. *)

LEMMA Digit ==
  ASSUME NEW n \in Nat, NEW b \in Nat \ {0}, NEW q \in Nat, NEW r \in Nat,
         q = n \div b, r = n % b
  PROVE  n = q * b + r
OBVIOUS

LEMMA Division ==
  ASSUME NEW n \in Nat, NEW b \in Nat \ {0}
  PROVE  \E q \in Nat, r \in 0 .. b - 1 :
            q = n \div b /\ r = n % b /\ n = q * b + r
<1>1. PICK q \in Nat : q = n \div b
  OBVIOUS
<1>2. PICK r \in 0 .. b - 1 : r = n % b
  OBVIOUS
<1>3. n = q * b + r
  BY <1>1, <1>2, Digit
<1> QED
  BY <1>1, <1>2, <1>3

LEMMA OneQuotient ==
  ASSUME NEW n \in Nat, NEW b \in Nat \ {0}, NEW q \in Nat, NEW r \in 0 .. b - 1,
         n = q * b + r
  PROVE  n \div b = q /\ n % b = r
OBVIOUS

LEMMA QuotientBelow ==
  ASSUME NEW n \in Nat, NEW b \in Nat \ {0}, NEW m \in Nat, n < m * b
  PROVE  n \div b < m
<1>1. PICK q \in Nat, r \in 0 .. b - 1 :
        q = n \div b /\ r = n % b /\ n = q * b + r
  BY Division
<1>2. q * b < m * b
  BY <1>1
<1>3. q < m
  BY <1>2
<1> QED
  BY <1>1, <1>3

(* Two bytes keep a number below Base^2. *)
LEMMA TwoBytes ==
  ASSUME NEW n \in Nat, n < Base * Base
  PROVE  ((n \div Base) % Base) * Base + (n % Base) = n
<1>1. PICK q \in Nat, r \in 0 .. Base - 1 :
        q = n \div Base /\ r = n % Base /\ n = q * Base + r
  BY Division, WireAssumption
<1>2. q < Base
  BY <1>1, QuotientBelow, WireAssumption
<1>3. q % Base = q
  BY <1>2, WireAssumption
<1>4. (n \div Base) % Base = q
  BY <1>1, <1>3
<1>5. q * Base + r = n
  BY <1>1
<1>6. q * Base + (n % Base) = q * Base + r
  BY <1>1, Zenon
<1>7. ((n \div Base) % Base) * Base + (n % Base) = q * Base + (n % Base)
  BY <1>4, Zenon
<1> QED
  BY <1>5, <1>6, <1>7, Zenon

(* Four bytes keep a number below Base^4: the two-byte digits of n \div    *)
(* Base^2, and then those of n.                                            *)
LEMMA FourBytes ==
  ASSUME NEW n \in Nat, n < (Base * Base) * (Base * Base),
         NEW a, a = n \div (Base * Base)
  PROVE  (((((a \div Base) % Base) * Base + (a % Base)) * Base
              + ((n \div Base) % Base)) * Base) + (n % Base) = n
<1>1. PICK b2 \in Nat \ {0} : b2 = Base * Base
  BY WireAssumption
<1>2. a \in Nat /\ a < b2
  BY <1>1, Division, QuotientBelow
<1>3. ((a \div Base) % Base) * Base + (a % Base) = a
  BY <1>1, <1>2, TwoBytes
<1>4. PICK q \in Nat, t \in 0 .. Base - 1 :
        q = n \div Base /\ t = n % Base /\ n = q * Base + t
  BY Division, WireAssumption
<1>5. PICK h \in Nat, s \in 0 .. Base - 1 :
        h = q \div Base /\ s = q % Base /\ q = h * Base + s
  BY Division, WireAssumption
<1>6. PICK r \in Nat : r = s * Base + t
  BY WireAssumption
<1>7. r \in 0 .. b2 - 1
  <2>1. s * Base <= (Base - 1) * Base
    BY WireAssumption
  <2>2. (Base - 1) * Base + Base = Base * Base
    BY WireAssumption
  <2> QED
    BY <1>1, <1>6, <2>1, <2>2, WireAssumption
<1>8. n = h * b2 + r
  <2>1. (h * Base + s) * Base = h * (Base * Base) + s * Base
    BY WireAssumption
  <2>2. q * Base = (h * Base + s) * Base
    BY <1>5, Zenon
  <2>3. q * Base = h * b2 + s * Base
    BY <1>1, <2>1, <2>2, Zenon
  <2>4. n = q * Base + t
    BY <1>4
  <2>5. /\ q * Base \in Nat /\ h * b2 \in Nat /\ s * Base \in Nat
    BY WireAssumption
  <2> QED
    BY <1>6, <2>3, <2>4, <2>5
<1>9. h = a
  BY <1>1, <1>7, <1>8, OneQuotient
<1>10. (a * Base + s) * Base + t = n
  BY <1>4, <1>5, <1>9
<1>11. (n \div Base) % Base = s
  BY <1>4, <1>5
<1>12. (a * Base + ((n \div Base) % Base)) * Base + (n % Base)
          = (a * Base + s) * Base + t
  BY <1>4, <1>11, Zenon
<1> QED
  BY <1>3, <1>10, <1>12, Zenon
-----------------------------------------------------------------------------
(* What the client writes. *)

LEMMA Joined ==
  ASSUME NEW s \in Seq(Byte), NEW t \in Seq(Byte), NEW m \in Nat, NEW n \in Nat,
         Len(s) = m, Len(t) = n
  PROVE  /\ s \o t \in Seq(Byte) /\ Len(s \o t) = m + n
         /\ \A i \in 1 .. m : (s \o t)[i] = s[i]
         /\ \A i \in 1 .. n : (s \o t)[m + i] = t[i]
<1>1. /\ s \o t \in Seq(Byte) /\ Len(s \o t) = Len(s) + Len(t)
      /\ \A i \in 1 .. Len(s) + Len(t) :
           (s \o t)[i] = IF i <= Len(s) THEN s[i] ELSE t[i - Len(s)]
  BY ConcatProperties
<1>2. \A i \in 1 .. m + n : (s \o t)[i] = IF i <= m THEN s[i] ELSE t[i - m]
  BY <1>1
<1>3. \A i \in 1 .. m : (s \o t)[i] = s[i]
  BY <1>2
<1>4. \A i \in 1 .. n : (s \o t)[m + i] = t[i]
  <2> TAKE i \in 1 .. n
  <2>1. m + i \in 1 .. m + n /\ ~(m + i <= m) /\ (m + i) - m = i
    OBVIOUS
  <2> QED
    BY <1>2, <2>1
<1> QED
  BY <1>1, <1>3, <1>4

LEMMA Joining ==
  ASSUME NEW s \in Seq(Byte), NEW t \in Seq(Byte)
  PROVE  \E b \in Seq(Byte) :
            /\ b = s \o t /\ Len(b) = Len(s) + Len(t)
            /\ \A i \in 1 .. Len(s) : b[i] = s[i]
            /\ \A i \in 1 .. Len(t) : b[Len(s) + i] = t[i]
<1>1. Len(s) \in Nat /\ Len(t) \in Nat
  OBVIOUS
<1>2. /\ s \o t \in Seq(Byte) /\ Len(s \o t) = Len(s) + Len(t)
      /\ \A i \in 1 .. Len(s) : (s \o t)[i] = s[i]
      /\ \A i \in 1 .. Len(t) : (s \o t)[Len(s) + i] = t[i]
  BY <1>1, Joined, ZenonT(60)
<1> QED
  BY <1>2, Zenon

(* l bytes behind the first k. *)
LEMMA Cut ==
  ASSUME NEW s \in Seq(Byte), NEW k \in Nat, NEW l \in Nat, k + l <= Len(s)
  PROVE  /\ SubSeq(s, k + 1, k + l) \in Seq(Byte)
         /\ Len(SubSeq(s, k + 1, k + l)) = l
         /\ \A i \in 1 .. l : SubSeq(s, k + 1, k + l)[i] = s[k + i]
<1>1. \A i \in k + 1 .. k + l : s[i] \in Byte
  OBVIOUS
<1>2. k + 1 \in Int /\ k + l \in Int
  OBVIOUS
<1>3. /\ SubSeq(s, k + 1, k + l) \in Seq(Byte)
      /\ Len(SubSeq(s, k + 1, k + l))
           = IF k + 1 <= k + l THEN (k + l) - (k + 1) + 1 ELSE 0
      /\ \A i \in 1 .. (k + l) - (k + 1) + 1 :
           SubSeq(s, k + 1, k + l)[i] = s[(k + 1) + i - 1]
  BY <1>1, <1>2, SubSeqProperties
<1>4. (k + l) - (k + 1) + 1 = l /\ \A i \in 1 .. l : (k + 1) + i - 1 = k + i
  OBVIOUS
<1>5. Len(SubSeq(s, k + 1, k + l)) = l
  BY <1>3, <1>4
<1>6. \A i \in 1 .. l : SubSeq(s, k + 1, k + l)[i] = s[k + i]
  BY <1>3, <1>4, Zenon
<1> QED
  BY <1>3, <1>5, <1>6

LEMMA CutFirst ==
  ASSUME NEW s \in Seq(Byte), NEW l \in Nat, l <= Len(s)
  PROVE  /\ SubSeq(s, 1, l) \in Seq(Byte) /\ Len(SubSeq(s, 1, l)) = l
         /\ \A i \in 1 .. l : SubSeq(s, 1, l)[i] = s[i]
<1>1. 0 \in Nat /\ 0 + l <= Len(s) /\ 0 + 1 = 1 /\ 0 + l = l
        /\ \A i \in 1 .. l : 0 + i = i
  OBVIOUS
<1>2. /\ SubSeq(s, 0 + 1, 0 + l) \in Seq(Byte)
      /\ Len(SubSeq(s, 0 + 1, 0 + l)) = l
      /\ \A i \in 1 .. l : SubSeq(s, 0 + 1, 0 + l)[i] = s[0 + i]
  BY <1>1, Cut, ZenonT(60)
<1> QED
  BY <1>1, <1>2, Zenon

LEMMA DigitsTyped ==
  ASSUME NEW n \in Nat
  PROVE  (n \div Base) % Base \in Byte /\ n % Base \in Byte
<1>1. \A m \in Nat : m % Base \in Byte
  BY WireAssumption DEF Byte
<1>2. n \div Base \in Nat
  BY WireAssumption
<1> QED
  BY <1>1, <1>2

LEMMA Inserted16 ==
  ASSUME NEW n \in Nat
  PROVE  /\ Insert16(n) \in Seq(Byte) /\ Len(Insert16(n)) = 2
         /\ Insert16(n)[1] = (n \div Base) % Base
         /\ Insert16(n)[2] = n % Base
BY DigitsTyped DEF Insert16

LEMMA TwoPairs ==
  ASSUME NEW s \in Seq(Byte), NEW t \in Seq(Byte), Len(s) = 2, Len(t) = 2
  PROVE  /\ s \o t \in Seq(Byte) /\ Len(s \o t) = 4
         /\ (s \o t)[1] = s[1] /\ (s \o t)[2] = s[2]
         /\ (s \o t)[3] = t[1] /\ (s \o t)[4] = t[2]
<1>1. /\ s \o t \in Seq(Byte) /\ Len(s \o t) = 2 + 2
      /\ \A i \in 1 .. 2 : (s \o t)[i] = s[i]
      /\ \A i \in 1 .. 2 : (s \o t)[2 + i] = t[i]
  <2>1. 2 \in Nat
    OBVIOUS
  <2> QED
    BY <2>1, Joined, ZenonT(60)
<1>2. 2 + 2 = 4 /\ 2 + 1 = 3 /\ 1 \in 1 .. 2 /\ 2 \in 1 .. 2
  OBVIOUS
<1> QED
  BY <1>1, <1>2

LEMMA Inserted32 ==
  ASSUME NEW n \in Nat, NEW a \in Nat, a = n \div (Base * Base)
  PROVE  /\ Insert32(n) \in Seq(Byte) /\ Len(Insert32(n)) = 4
         /\ Insert32(n)[1] = Insert16(a)[1] /\ Insert32(n)[2] = Insert16(a)[2]
         /\ Insert32(n)[3] = Insert16(n)[1] /\ Insert32(n)[4] = Insert16(n)[2]
<1>1. Insert32(n) = Insert16(a) \o Insert16(n)
  BY DEF Insert32
<1>2. /\ Insert16(a) \in Seq(Byte) /\ Len(Insert16(a)) = 2
      /\ Insert16(n) \in Seq(Byte) /\ Len(Insert16(n)) = 2
  BY Inserted16
<1>3. LET s == Insert16(a) \o Insert16(n)
      IN  /\ s \in Seq(Byte) /\ Len(s) = 4
          /\ s[1] = Insert16(a)[1] /\ s[2] = Insert16(a)[2]
          /\ s[3] = Insert16(n)[1] /\ s[4] = Insert16(n)[2]
  BY <1>2, TwoPairs, Zenon
<1> QED
  BY <1>1, <1>3, Zenon

LEMMA Peeked16 ==
  ASSUME NEW n \in Nat, n < Base * Base,
         NEW b, b[1] = Insert16(n)[1], b[2] = Insert16(n)[2]
  PROVE  PeekUint16(b) = n
<1>1. b[1] = (n \div Base) % Base /\ b[2] = n % Base
  BY Inserted16
<1> QED
  BY <1>1, TwoBytes, Zenon DEF PeekUint16

LEMMA Peeked32 ==
  ASSUME NEW n \in Nat, n < (Base * Base) * (Base * Base),
         NEW b, \A i \in 1 .. 4 : b[i] = Insert32(n)[i]
  PROVE  PeekUint32(b) = n
<1>1. PICK a \in Nat : a = n \div (Base * Base)
  BY Division, WireAssumption
<1>2. b[1] = Insert16(a)[1] /\ b[2] = Insert16(a)[2]
        /\ b[3] = Insert16(n)[1] /\ b[4] = Insert16(n)[2]
  BY <1>1, Inserted32
<1>3. b[1] = (a \div Base) % Base /\ b[2] = a % Base
        /\ b[3] = (n \div Base) % Base /\ b[4] = n % Base
  BY <1>2, Inserted16
<1>4. PeekUint32(b) = (((((a \div Base) % Base) * Base + (a % Base)) * Base
              + ((n \div Base) % Base)) * Base) + (n % Base)
  BY <1>3, Zenon DEF PeekUint32
<1> QED
  BY <1>1, <1>4, FourBytes, Zenon

-----------------------------------------------------------------------------
(* A message: its type, its size, its body. *)

Message(type, body) == <<type>> \o Insert32(Len(body)) \o body

LEMMA Header ==
  ASSUME NEW type \in Byte, NEW size \in Seq(Byte), Len(size) = 4
  PROVE  /\ <<type>> \o size \in Seq(Byte) /\ Len(<<type>> \o size) = 5
         /\ \A i \in 1 .. 4 : (<<type>> \o size)[i + 1] = size[i]
<1>1. <<type>> \in Seq(Byte) /\ Len(<<type>>) = 1
  OBVIOUS
<1>2. /\ <<type>> \o size \in Seq(Byte) /\ Len(<<type>> \o size) = 1 + 4
      /\ \A i \in 1 .. 4 : (<<type>> \o size)[1 + i] = size[i]
  <2>1. 1 \in Nat /\ 4 \in Nat
    OBVIOUS
  <2> QED
    BY <1>1, <2>1, Joined, ZenonT(60)
<1>3. 1 + 4 = 5 /\ \A i \in 1 .. 4 : 1 + i = i + 1
  OBVIOUS
<1> QED
  BY <1>2, <1>3, Zenon

LEMMA HeaderAndBody ==
  ASSUME NEW head \in Seq(Byte), Len(head) = 5, NEW body \in Seq(Byte)
  PROVE  /\ head \o body \in Seq(Byte) /\ Len(head \o body) = 5 + Len(body)
         /\ \A i \in 1 .. 4 : SubSeq(head \o body, 2, 5)[i] = head[i + 1]
         /\ SubSeq(head \o body, 6, 5 + Len(body)) = body
<1>1. PICK msg \in Seq(Byte) :
        /\ msg = head \o body /\ Len(msg) = 5 + Len(body)
        /\ \A i \in 1 .. 5 : msg[i] = head[i]
        /\ \A i \in 1 .. Len(body) : msg[5 + i] = body[i]
  <2>1. 5 \in Nat /\ Len(body) \in Nat
    OBVIOUS
  <2>2. /\ head \o body \in Seq(Byte) /\ Len(head \o body) = 5 + Len(body)
        /\ \A i \in 1 .. 5 : (head \o body)[i] = head[i]
        /\ \A i \in 1 .. Len(body) : (head \o body)[5 + i] = body[i]
    BY <2>1, Joined, ZenonT(60)
  <2> QED
    BY <2>2, Zenon
<1>2. \A i \in 1 .. 4 : SubSeq(msg, 2, 5)[i] = msg[i + 1]
  <2>1. \A i \in 2 .. 5 : msg[i] \in Byte
    BY <1>1
  <2> QED
    BY <2>1, SubSeqProperties
<1>3. \A i \in 1 .. 4 : SubSeq(msg, 2, 5)[i] = head[i + 1]
  BY <1>1, <1>2
<1>4. SubSeq(msg, 6, 5 + Len(body)) = body
  <2>1. PICK n \in Nat : n = Len(body)
    OBVIOUS
  <2>2. \A i \in 6 .. 5 + n : msg[i] \in Byte
    BY <1>1, <2>1
  <2>3. /\ SubSeq(msg, 6, 5 + n) \in Seq(Byte)
        /\ Len(SubSeq(msg, 6, 5 + n)) = n
        /\ \A i \in 1 .. n : SubSeq(msg, 6, 5 + n)[i] = msg[5 + i]
    BY <2>1, <2>2, SubSeqProperties
  <2> QED
    BY <1>1, <2>1, <2>3, SeqEqual
<1> QED
  BY <1>1, <1>3, <1>4, Zenon

LEMMA Framed ==
  ASSUME NEW type \in Byte, NEW body \in Seq(Byte),
         Len(body) < (Base * Base) * (Base * Base)
  PROVE  LET msg == Message(type, body)
         IN  /\ msg \in Seq(Byte) /\ Len(msg) = 5 + Len(body)
             /\ PeekUint32(SubSeq(msg, 2, 5)) = Len(body)
             /\ SubSeq(msg, 6, Len(msg)) = body
<1> DEFINE size == Insert32(Len(body))
           head == <<type>> \o size
           msg  == Message(type, body)
<1>1. Len(body) \in Nat
  OBVIOUS
<1>2. size \in Seq(Byte) /\ Len(size) = 4
  <2>1. Base * Base \in Nat \ {0}
    BY WireAssumption
  <2>2. PICK a \in Nat : a = Len(body) \div (Base * Base)
    BY <1>1, <2>1
  <2> QED
    BY <1>1, <2>2, Inserted32
<1> HIDE DEF size
<1>3. /\ head \in Seq(Byte) /\ Len(head) = 5
      /\ \A i \in 1 .. 4 : head[i + 1] = size[i]
  BY <1>2, Header
<1> HIDE DEF head
<1>4. /\ head \o body \in Seq(Byte) /\ Len(head \o body) = 5 + Len(body)
      /\ \A i \in 1 .. 4 : SubSeq(head \o body, 2, 5)[i] = head[i + 1]
      /\ SubSeq(head \o body, 6, 5 + Len(body)) = body
  BY <1>3, HeaderAndBody
<1>5. msg = head \o body
  BY DEF Message, head, size
<1>6. \A i \in 1 .. 4 : SubSeq(head \o body, 2, 5)[i] = Insert32(Len(body))[i]
  BY <1>3, <1>4 DEF size
<1>7. PeekUint32(SubSeq(head \o body, 2, 5)) = Len(body)
  BY <1>1, <1>6, Peeked32
<1> QED
  BY <1>4, <1>5, <1>7, Zenon

-----------------------------------------------------------------------------
(* A name: its length in two bytes, its bytes, and what follows it. *)

Sent(name) == Insert16(Len(name)) \o name

LEMMA SentName ==
  ASSUME NEW name \in Seq(Byte), NEW n \in Nat, n = Len(name)
  PROVE  /\ Sent(name) \in Seq(Byte) /\ Len(Sent(name)) = 2 + n
         /\ Sent(name)[1] = Insert16(n)[1] /\ Sent(name)[2] = Insert16(n)[2]
         /\ \A i \in 1 .. n : Sent(name)[2 + i] = name[i]
<1>1. Sent(name) = Insert16(n) \o name
  BY DEF Sent
<1>2. /\ Insert16(n) \in Seq(Byte) /\ Len(Insert16(n)) = 2
      /\ 2 \in Nat /\ Len(name) = n
  BY Inserted16
<1>3. /\ Insert16(n) \o name \in Seq(Byte) /\ Len(Insert16(n) \o name) = 2 + n
      /\ \A i \in 1 .. 2 : (Insert16(n) \o name)[i] = Insert16(n)[i]
      /\ \A i \in 1 .. n : (Insert16(n) \o name)[2 + i] = name[i]
  BY <1>2, Joined, ZenonT(60)
<1>4. 1 \in 1 .. 2 /\ 2 \in 1 .. 2
  OBVIOUS
<1> QED
  BY <1>1, <1>3, <1>4, Zenon

(* The server reads the name and what followed it, whatever it is. *)
LEMMA NameRead ==
  ASSUME NEW name \in Seq(Byte), Len(name) < Base * Base, NEW t \in Seq(Byte)
  PROVE  /\ NamePresent(Sent(name) \o t)
         /\ Name(Sent(name) \o t) = name
         /\ AfterName(Sent(name) \o t) = t
<1>1. PICK n \in Nat, m \in Nat, k \in Nat :
        n = Len(name) /\ Len(t) = m /\ k = 2 + n
  OBVIOUS
<1>2. PICK s \in Seq(Byte) :
        /\ s = Sent(name) /\ Len(s) = k
        /\ s[1] = Insert16(n)[1] /\ s[2] = Insert16(n)[2]
        /\ \A i \in 1 .. n : s[2 + i] = name[i]
  BY <1>1, SentName, Zenon
<1>3a. PICK b \in Seq(Byte) :
        /\ b = s \o t /\ Len(b) = Len(s) + Len(t)
        /\ \A i \in 1 .. Len(s) : b[i] = s[i]
        /\ \A i \in 1 .. Len(t) : b[Len(s) + i] = t[i]
  BY Joining, Zenon
<1>3. /\ b = s \o t /\ Len(b) = k + m
      /\ \A i \in 1 .. k : b[i] = s[i]
      /\ \A i \in 1 .. m : b[k + i] = t[i]
  BY <1>1, <1>2, <1>3a
<1>4. 1 \in 1 .. k /\ 2 \in 1 .. k /\ n < Base * Base
        /\ \A i \in 1 .. n : 2 + i \in 1 .. k
  BY <1>1
<1>5. b[1] = Insert16(n)[1] /\ b[2] = Insert16(n)[2]
        /\ \A i \in 1 .. n : b[2 + i] = name[i]
  BY <1>2, <1>3, <1>4, Zenon
<1>6. PeekUint16(b) = n
  BY <1>4, <1>5, Peeked16
<1>7. \A i \in 1 .. k + m : b[i] \in Byte
  BY <1>3
<1>8. SubSeq(b, 3, 2 + n) = name
  <2>1. /\ SubSeq(b, 3, 2 + n) \in Seq(Byte)
        /\ Len(SubSeq(b, 3, 2 + n)) = n
        /\ \A i \in 1 .. n : SubSeq(b, 3, 2 + n)[i] = b[2 + i]
    BY <1>1, <1>7, SubSeqProperties
  <2> QED
    BY <1>1, <1>5, <2>1, SeqEqual
<1>9. SubSeq(b, 3 + n, Len(b)) = t
  <2>1. /\ SubSeq(b, k + 1, k + m) \in Seq(Byte)
        /\ Len(SubSeq(b, k + 1, k + m)) = m
        /\ \A i \in 1 .. m : SubSeq(b, k + 1, k + m)[i] = b[k + i]
    <3>1. k + m <= Len(b)
      BY <1>3
    <3> QED
      BY <3>1, Cut, ZenonT(30)
  <2>2. SubSeq(b, k + 1, k + m) = t
    <3>1. PICK w \in Seq(Byte) :
            /\ w = SubSeq(b, k + 1, k + m) /\ Len(w) = m
            /\ \A i \in 1 .. m : w[i] = b[k + i]
      BY <2>1, Zenon
    <3>2. \A i \in 1 .. m : w[i] = t[i]
      BY <1>3, <3>1
    <3>3. w = t
      BY <1>1, <3>1, <3>2, SeqEqual
    <3> QED
      BY <3>1, <3>3, Zenon
  <2>3. 3 + n = k + 1 /\ Len(b) = k + m
    BY <1>1, <1>3
  <2> QED
    BY <2>2, <2>3, Zenon
<1>10. NamePresent(b)
  BY <1>1, <1>3, <1>6 DEF NamePresent
<1>11. Name(b) = name /\ AfterName(b) = t
  BY <1>6, <1>8, <1>9 DEF Name, AfterName
<1> QED
  BY <1>2, <1>3, <1>10, <1>11, Zenon

(* A name that was cut is not there; a body cut behind it is the name and  *)
(* a cut of what followed it.                                              *)
LEMMA NameCut ==
  ASSUME NEW name \in Seq(Byte), Len(name) < Base * Base, NEW t \in Seq(Byte),
         NEW n \in 0 .. Len(Sent(name) \o t), n < 2 + Len(name)
  PROVE  ~NamePresent(SubSeq(Sent(name) \o t, 1, n))
<1>1. PICK l \in Nat, m \in Nat, k \in Nat :
        l = Len(name) /\ Len(t) = m /\ k = 2 + l
  OBVIOUS
<1>2. PICK s \in Seq(Byte) :
        /\ s = Sent(name) /\ Len(s) = k
        /\ s[1] = Insert16(l)[1] /\ s[2] = Insert16(l)[2]
  BY <1>1, SentName, Zenon
<1>3a. PICK b \in Seq(Byte) :
        /\ b = s \o t /\ Len(b) = Len(s) + Len(t)
        /\ \A i \in 1 .. Len(s) : b[i] = s[i]
        /\ \A i \in 1 .. Len(t) : b[Len(s) + i] = t[i]
  BY Joining, Zenon
<1>3. /\ b = s \o t /\ Len(b) = k + m
      /\ \A i \in 1 .. k : b[i] = s[i]
      /\ \A i \in 1 .. m : b[k + i] = t[i]
  BY <1>1, <1>2, <1>3a
<1>4. n \in 0 .. k + m
  BY <1>2, <1>3, Zenon
<1>5. PICK p : p = SubSeq(b, 1, n)
  OBVIOUS
<1>6. Len(p) = n /\ \A i \in 1 .. n : p[i] = b[i]
  <2>1. n \in Nat /\ n <= Len(b)
    BY <1>3, <1>4
  <2> QED
    BY <1>5, <2>1, CutFirst, Zenon
<1>7. ASSUME n >= 2 PROVE PeekUint16(p) = l
  <2>1. 1 \in 1 .. n /\ 2 \in 1 .. n /\ 1 \in 1 .. k /\ 2 \in 1 .. k
    BY <1>1, <1>4, <1>7
  <2>2. p[1] = Insert16(l)[1] /\ p[2] = Insert16(l)[2]
    BY <1>2, <1>3, <1>6, <2>1, Zenon
  <2> QED
    BY <1>1, <2>2, Peeked16
<1>8. ~NamePresent(p)
  BY <1>1, <1>4, <1>6, <1>7 DEF NamePresent
<1> QED
  BY <1>2, <1>3, <1>5, <1>8, Zenon

LEMMA CutAfterName ==
  ASSUME NEW s \in Seq(Byte), NEW t \in Seq(Byte),
         NEW n \in Len(s) .. Len(s) + Len(t)
  PROVE  SubSeq(s \o t, 1, n) = s \o SubSeq(t, 1, n - Len(s))
<1>1. PICK k \in Nat, m \in Nat : Len(s) = k /\ Len(t) = m
  OBVIOUS
<1>2. PICK j \in 0 .. m : n = k + j
  BY <1>1
<1>3. PICK u \in Seq(Byte) :
        /\ u = SubSeq(t, 1, j) /\ Len(u) = j
        /\ \A i \in 1 .. j : u[i] = t[i]
  <2>1. j \in Nat /\ j <= Len(t)
    BY <1>1
  <2> QED
    BY <2>1, CutFirst, Zenon
<1>4a. PICK b \in Seq(Byte) :
        /\ b = s \o t /\ Len(b) = Len(s) + Len(t)
        /\ \A i \in 1 .. Len(s) : b[i] = s[i]
        /\ \A i \in 1 .. Len(t) : b[Len(s) + i] = t[i]
  BY Joining, Zenon
<1>4. /\ b = s \o t /\ Len(b) = k + m
      /\ \A i \in 1 .. k : b[i] = s[i]
      /\ \A i \in 1 .. m : b[k + i] = t[i]
  BY <1>1, <1>4a
<1>5a. PICK c \in Seq(Byte) :
        /\ c = s \o u /\ Len(c) = Len(s) + Len(u)
        /\ \A i \in 1 .. Len(s) : c[i] = s[i]
        /\ \A i \in 1 .. Len(u) : c[Len(s) + i] = u[i]
  BY Joining, Zenon
<1>5. /\ c = s \o u /\ Len(c) = k + j
      /\ \A i \in 1 .. k : c[i] = s[i]
      /\ \A i \in 1 .. j : c[k + i] = u[i]
  BY <1>1, <1>3, <1>5a
<1>6. PICK p \in Seq(Byte) :
        /\ p = SubSeq(b, 1, k + j) /\ Len(p) = k + j
        /\ \A i \in 1 .. k + j : p[i] = b[i]
  <2>1. k + j \in Nat /\ k + j <= Len(b)
    BY <1>4
  <2> QED
    BY <2>1, CutFirst, Zenon
<1>7. \A i \in 1 .. k + j : p[i] = c[i]
  <2> TAKE i \in 1 .. k + j
  <2>1. CASE i \in 1 .. k
    BY <1>4, <1>5, <1>6, <2>1
  <2>2. CASE i \notin 1 .. k
    <3>1. PICK h \in 1 .. j : i = k + h
      BY <2>2
    <3>2. b[k + h] = t[h] /\ c[k + h] = u[h] /\ u[h] = t[h]
      BY <1>3, <1>4, <1>5
    <3> QED
      BY <1>6, <3>1, <3>2
  <2> QED
    BY <2>1, <2>2
<1>8. p = c
  BY <1>5, <1>6, <1>7, SeqEqual
<1>9. n - Len(s) = j
  BY <1>1, <1>2
<1> QED
  BY <1>2, <1>3, <1>4, <1>5, <1>6, <1>8, <1>9, Zenon
-----------------------------------------------------------------------------
(* The request, and what the server reads from it. *)

(* Two names and their lengths fit in the size. *)
LEMMA BodyFits ==
  ASSUME NEW l \in Nat, NEW m \in Nat, l < Base * Base, m < Base * Base
  PROVE  /\ (2 + l) + (2 + m) < (Base * Base) * (Base * Base)
         /\ l < (Base * Base) * (Base * Base)
<1>1. PICK k \in Nat : k = Base * Base
  BY WireAssumption
<1>2. k >= 4
  <2>1. Base * Base >= 2 * Base
    BY WireAssumption
  <2> QED
    BY <1>1, <2>1, WireAssumption
<1>3. k * k >= 4 * k
  BY <1>2
<1>4. PICK kk \in Nat : kk = k * k
  OBVIOUS
<1>5. (2 + l) + (2 + m) < kk /\ l < kk
  BY <1>1, <1>2, <1>3, <1>4
<1> QED
  BY <1>1, <1>4, <1>5, Zenon

LEMMA RequestFramed ==
  ASSUME NEW h \in Seq(Byte), NEW u \in Seq(Byte),
         Len(h) < Base * Base, Len(u) < Base * Base
  PROVE  LET req == CreateAuthenticationRequest(h, u)
         IN  /\ PeekUint32(SubSeq(req, 2, 5)) = Len(req) - 5
             /\ SubSeq(req, 6, Len(req)) = Sent(h) \o Sent(u)
<1>1. PICK l \in Nat, m \in Nat : l = Len(h) /\ m = Len(u)
  OBVIOUS
<1>2. /\ Insert16(Len(u)) \in Seq(Byte)
      /\ Sent(h) \in Seq(Byte) /\ Len(Sent(h)) = 2 + l
      /\ Sent(u) \in Seq(Byte) /\ Len(Sent(u)) = 2 + m
  BY <1>1, Inserted16, SentName
<1>3. PICK body \in Seq(Byte) :
        body = Sent(h) \o Sent(u) /\ Len(body) = Len(Sent(h)) + Len(Sent(u))
  BY <1>2, Joining, Zenon
<1>4. Insert16(Len(h)) \o h \o Insert16(Len(u)) \o u = body
  <2>1. (Sent(h) \o Insert16(Len(u))) \o u = Sent(h) \o (Insert16(Len(u)) \o u)
    <3>1. PICK s \in Seq(Byte), i \in Seq(Byte) :
            s = Sent(h) /\ i = Insert16(Len(u))
      BY <1>2, Zenon
    <3>2. (s \o i) \o u = s \o (i \o u)
      BY ConcatAssociative
    <3> QED
      BY <3>1, <3>2, Zenon
  <2> QED
    BY <1>3, <2>1, Zenon DEF Sent
<1>5. PICK req : req = Message(MsgAuth, body)
  OBVIOUS
<1>6. CreateAuthenticationRequest(h, u) = req
  BY <1>4, <1>5, Zenon DEF CreateAuthenticationRequest, Message
<1>7. Len(body) < (Base * Base) * (Base * Base)
  <2>1. Len(body) = (2 + l) + (2 + m)
    BY <1>2, <1>3
  <2> QED
    BY <1>1, <2>1, BodyFits
<1>8. MsgAuth \in Byte
  BY WireAssumption
<1>9. /\ Len(req) = 5 + Len(body)
      /\ PeekUint32(SubSeq(req, 2, 5)) = Len(body)
      /\ SubSeq(req, 6, Len(req)) = body
  BY <1>5, <1>7, <1>8, Framed, Zenon
<1>10. Len(req) - 5 = Len(body)
  BY <1>9
<1> QED
  BY <1>3, <1>6, <1>9, <1>10, Zenon

(* The size field of an image message frames its body whatever the image:  *)
(* any length that four bytes can hold, far beyond the bodies that         *)
(* HeaderFramesMessage takes from names (CreateImgMessage,                 *)
(* client.cc:116-131).                                                     *)
THEOREM ImageFramed ==
  ASSUME NEW img \in Seq(Byte), Len(img) < (Base * Base) * (Base * Base)
  PROVE  LET msg == CreateImgMessage(img)
         IN  PeekUint32(SubSeq(msg, 2, 5)) = Len(msg) - 5
<1>1. PICK msg : msg = Message(MsgImg, img)
  OBVIOUS
<1>2. CreateImgMessage(img) = msg
  BY <1>1, Zenon DEF CreateImgMessage, Message
<1>3. MsgImg \in Byte
  BY WireAssumption
<1>4. Len(msg) = 5 + Len(img) /\ PeekUint32(SubSeq(msg, 2, 5)) = Len(img)
  BY <1>1, <1>3, Framed, Zenon
<1>5. Len(msg) - 5 = Len(img)
  BY <1>4
<1> QED
  BY <1>2, <1>4, <1>5, Zenon

(* The last name: nothing follows it. *)
LEMMA LastNameRead ==
  ASSUME NEW name \in Seq(Byte), Len(name) < Base * Base
  PROVE  NamePresent(Sent(name)) /\ Name(Sent(name)) = name
<1>1. <<>> \in Seq(Byte) /\ Sent(name) \in Seq(Byte)
  <2>1. Len(name) \in Nat /\ <<>> \in Seq(Byte)
    OBVIOUS
  <2> QED
    BY <2>1, SentName, Zenon
<1>2. Sent(name) \o <<>> = Sent(name)
  BY <1>1, ConcatEmptySeq, Zenon
<1> QED
  BY <1>1, <1>2, NameRead, Zenon

LEMMA LastNameCut ==
  ASSUME NEW name \in Seq(Byte), Len(name) < Base * Base,
         NEW n \in 0 .. Len(Sent(name)), n < Len(Sent(name))
  PROVE  ~NamePresent(SubSeq(Sent(name), 1, n))
<1>1. /\ <<>> \in Seq(Byte) /\ Sent(name) \in Seq(Byte)
      /\ Len(Sent(name)) = 2 + Len(name)
  <2>1. Len(name) \in Nat /\ <<>> \in Seq(Byte)
    OBVIOUS
  <2> QED
    BY <2>1, SentName, Zenon
<1>2. Sent(name) \o <<>> = Sent(name)
  BY <1>1, ConcatEmptySeq, Zenon
<1>3. n < 2 + Len(name)
  BY <1>1
<1> QED
  BY <1>1, <1>2, <1>3, NameCut, Zenon

-----------------------------------------------------------------------------
(* Every pair of names MCWire enumerates. *)

NamesTyped ==
  /\ hostname \in Seq(Byte) /\ Len(hostname) \in 0 .. MaxLen
  /\ username \in Seq(Byte) /\ Len(username) \in 0 .. MaxLen

LEMMA Names == Spec => []NamesTyped
<1>1. Init => NamesTyped
  BY NamesFit DEF Init, NamesTyped
<1>2. NamesTyped /\ [Next]_vars => NamesTyped'
  <2> SUFFICES ASSUME NamesTyped, [Next]_vars PROVE NamesTyped'
    OBVIOUS
  <2>1. CASE UNCHANGED vars
    BY <2>1 DEF NamesTyped, vars
  <2>2. CASE Next
    <3>1. PICK c \in Byte :
            \/ /\ Len(hostname) < MaxLen
               /\ hostname' = Append(hostname, c)
               /\ UNCHANGED username
            \/ /\ Len(username) < MaxLen
               /\ username' = Append(username, c)
               /\ UNCHANGED hostname
      BY <2>2 DEF Next
    <3>2. ASSUME NEW s \in Seq(Byte), Len(s) < MaxLen
          PROVE  Append(s, c) \in Seq(Byte) /\ Len(Append(s, c)) \in 0 .. MaxLen
      BY <3>2, NamesFit
    <3>3. CASE hostname' = Append(hostname, c) /\ UNCHANGED username
                 /\ Len(hostname) < MaxLen
      BY <3>2, <3>3 DEF NamesTyped
    <3>4. CASE username' = Append(username, c) /\ UNCHANGED hostname
                 /\ Len(username) < MaxLen
      BY <3>2, <3>4 DEF NamesTyped
    <3> QED
      BY <3>1, <3>3, <3>4
  <2> QED
    BY <2>1, <2>2
<1> QED
  BY <1>1, <1>2, PTL DEF Spec

LEMMA NamesShort ==
  NamesTyped => /\ hostname \in Seq(Byte) /\ Len(hostname) < Base * Base
                /\ username \in Seq(Byte) /\ Len(username) < Base * Base
BY NamesFit, WireAssumption DEF NamesTyped

(* The size field of a request and of an image frames exactly the bytes    *)
(* behind it, for every value of a byte and every length of the names that *)
(* two bytes can hold.                                                     *)
THEOREM SizeFramesMessage == Spec => []HeaderFramesMessage
<1>1. NamesTyped => HeaderFramesMessage
  <2> SUFFICES ASSUME NamesTyped PROVE HeaderFramesMessage
    OBVIOUS
  <2>1. /\ hostname \in Seq(Byte) /\ Len(hostname) < Base * Base
        /\ username \in Seq(Byte) /\ Len(username) < Base * Base
    BY NamesShort
  <2>2. PeekUint32(SubSeq(Request, 2, 5)) = Len(Request) - 5
    BY <2>1, RequestFramed, Zenon DEF Request
  <2>3. Len(hostname) < (Base * Base) * (Base * Base)
    BY <2>1, BodyFits
  <2> QED
    BY <2>1, <2>2, <2>3, ImageFramed, Zenon DEF HeaderFramesMessage
<1> QED
  BY <1>1, Names, PTL

LEMMA BodyWritten ==
  NamesTyped => Body = Sent(hostname) \o Sent(username)
BY NamesShort, RequestFramed, Zenon DEF Body, Request

(* The server reads the names the client wrote and accepts exactly the     *)
(* valid ones.                                                             *)
THEOREM ServerReadsNames == Spec => []AuthRoundTrip
<1>1. NamesTyped => AuthRoundTrip
  <2> SUFFICES ASSUME NamesTyped PROVE AuthRoundTrip
    OBVIOUS
  <2>1. /\ hostname \in Seq(Byte) /\ Len(hostname) < Base * Base
        /\ username \in Seq(Byte) /\ Len(username) < Base * Base
        /\ Sent(username) \in Seq(Byte)
    BY NamesShort, SentName
  <2>2. Body = Sent(hostname) \o Sent(username)
    BY BodyWritten
  <2>3. /\ NamePresent(Body) /\ Name(Body) = hostname
        /\ AfterName(Body) = Sent(username)
    BY <2>1, <2>2, NameRead, Zenon
  <2>4. NamePresent(Sent(username)) /\ Name(Sent(username)) = username
    BY <2>1, LastNameRead, Zenon
  <2> QED
    BY <2>3, <2>4, Zenon
    DEF AuthRoundTrip, HostnameStored, UsernameStored, AuthAccepted
<1> QED
  BY <1>1, Names, PTL

(* No request that was cut, wherever it was, is accepted. *)
THEOREM CutRefused == Spec => []TruncatedRefused
<1>1. NamesTyped => TruncatedRefused
  <2> SUFFICES ASSUME NamesTyped, NEW n \in 0 .. Len(Body) - 1
               PROVE  ~AuthAccepted(SubSeq(Body, 1, n))
    BY DEF TruncatedRefused
  <2>1. PICK h \in Seq(Byte), u \in Seq(Byte) : h = hostname /\ u = username
    BY NamesShort
  <2>2. Len(h) < Base * Base /\ Len(u) < Base * Base
    BY <2>1, NamesShort
  <2>3. PICK s \in Seq(Byte), t \in Seq(Byte) :
          /\ s = Sent(h) /\ Len(s) = 2 + Len(h)
          /\ t = Sent(u) /\ Len(t) = 2 + Len(u)
    BY SentName
  <2>4. Body = s \o t
    BY <2>1, <2>3, BodyWritten, Zenon
  <2>5. Len(Body) = Len(s) + Len(t)
    BY <2>4, Joining, Zenon
  <2>6. CASE n < 2 + Len(h)
    <3>1. n \in 0 .. Len(Body)
      BY <2>3, <2>5
    <3>2. ~NamePresent(SubSeq(Body, 1, n))
      BY <2>2, <2>3, <2>4, <2>6, <3>1, NameCut, Zenon
    <3> QED
      BY <3>2, Zenon DEF AuthAccepted, UsernameStored
  <2>7. CASE ~(n < 2 + Len(h))
    <3>1. PICK j \in 0 .. Len(t) :
            j < Len(t) /\ n = Len(s) + j /\ n - Len(s) = j
      <4>1. PICK a \in Nat, b \in Nat : a = Len(s) /\ b = Len(t)
        OBVIOUS
      <4>2. n \in 0 .. a + b - 1 /\ n >= a
        BY <2>3, <2>5, <2>7, <4>1
      <4>3. n - a \in 0 .. b /\ n - a < b /\ n = a + (n - a)
        BY <4>2
      <4> QED
        BY <4>1, <4>3
    <3>2. n \in Len(s) .. Len(s) + Len(t)
      BY <2>3, <3>1
    <3>3. PICK c \in Seq(Byte) : c = SubSeq(t, 1, j)
      <4>1. j \in Nat /\ j <= Len(t)
        BY <3>1
      <4> QED
        BY <4>1, CutFirst, Zenon
    <3>4. SubSeq(Body, 1, n) = s \o c
      <4>1. SubSeq(s \o t, 1, n) = s \o SubSeq(t, 1, n - Len(s))
        BY <3>2, CutAfterName, Zenon
      <4>2. n - Len(s) = j
        BY <3>1
      <4> QED
        BY <2>4, <3>3, <4>1, <4>2, Zenon
    <3>5. AfterName(s \o c) = c
      BY <2>2, <2>3, NameRead, Zenon
    <3>6. ~NamePresent(c)
      BY <2>2, <2>3, <3>1, <3>3, LastNameCut, Zenon
    <3> QED
      BY <3>4, <3>5, <3>6, Zenon DEF AuthAccepted, UsernameStored
  <2> QED
    BY <2>6, <2>7
<1> QED
  BY <1>1, Names, PTL
=============================================================================
