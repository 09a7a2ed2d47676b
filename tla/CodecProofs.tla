----------------------------- MODULE CodecProofs ----------------------------
(***************************************************************************)
(* Proofs about the wire format, for every frame and every buffer: what    *)
(* encode writes decode reads back, and nothing is taken for a frame early. *)
(***************************************************************************)
EXTENDS FrameRelay, SequenceTheorems, TLAPS

----------------------------------------------------------------------------
(* Slices *)

\* The part of s that has the elements of b, from k on, is b.
LEMMA SliceIs ==
    ASSUME NEW S, NEW s \in Seq(S), NEW b \in Seq(S), NEW k \in Nat,
           k + Len(b) <= Len(s), \A i \in 1 .. Len(b) : s[k + i] = b[i]
    PROVE  Slice(s, k, Len(b)) = b
<1> DEFINE t == SubSeq(s, k + 1, k + Len(b))
<1>1. Len(s) \in Nat /\ Len(b) \in Nat
  OBVIOUS
<1>2. t \in Seq(S) /\ Len(t) = Len(b)
  BY <1>1
<1>3. \A i \in 1 .. Len(b) : t[i] = s[k + i]
  BY <1>1
<1>4. \A i \in 1 .. Len(b) : t[i] = b[i]
  BY <1>3
<1> HIDE DEF t
<1>5. t = b
  BY <1>2, <1>4, SeqEqual
<1> QED
  BY <1>5 DEF t, Slice

\* A slice of bytes has the bytes of the buffer.
LEMMA SliceBytes ==
    ASSUME NEW S, NEW s \in Seq(S), NEW k \in Nat, NEW n \in Nat,
           k + n <= Len(s)
    PROVE  /\ Slice(s, k, n) \in Seq(S) /\ Len(Slice(s, k, n)) = n
           /\ \A i \in 1 .. n : Slice(s, k, n)[i] = s[k + i]
BY DEF Slice

\* Two sequences, one after the other.
LEMMA Joined ==
    ASSUME NEW S, NEW a \in Seq(S), NEW b \in Seq(S)
    PROVE  /\ a \o b \in Seq(S) /\ Len(a \o b) = Len(a) + Len(b)
           /\ Len(a) \in Nat /\ Len(b) \in Nat
           /\ \A i \in 1 .. Len(a) : (a \o b)[i] = a[i]
           /\ \A i \in 1 .. Len(b) : (a \o b)[Len(a) + i] = b[i]
OBVIOUS

\* What is appended to a buffer is behind it, and the buffer is as it was.
LEMMA Extended ==
    ASSUME NEW S, NEW s \in Seq(S), NEW d \in Seq(S)
    PROVE  /\ Slice(s \o d, Len(s), Len(d)) = d
           /\ \A b \in Seq(S), k \in Nat :
                 k + Len(b) <= Len(s) /\ Slice(s, k, Len(b)) = b =>
                    Slice(s \o d, k, Len(b)) = b
<1>1. PICK w \in Seq(S) : w = s \o d
  BY Joined
<1>2. /\ Len(w) = Len(s) + Len(d) /\ Len(s) \in Nat /\ Len(d) \in Nat
      /\ \A i \in 1 .. Len(s) : w[i] = s[i]
      /\ \A i \in 1 .. Len(d) : w[Len(s) + i] = d[i]
  BY <1>1, Joined
<1>3. Slice(w, Len(s), Len(d)) = d
  <2>1. Len(s) + Len(d) <= Len(w)
    BY <1>2
  <2> QED
    BY <2>1, <1>2, SliceIs
<1>4. ASSUME NEW b \in Seq(S), NEW k \in Nat,
             k + Len(b) <= Len(s), Slice(s, k, Len(b)) = b
      PROVE  Slice(w, k, Len(b)) = b
  <2>1. Len(b) \in Nat /\ k + Len(b) <= Len(w)
    BY <1>2, <1>4
  <2>2. \A i \in 1 .. Len(b) : Slice(s, k, Len(b))[i] = s[k + i]
    BY <2>1, <1>2, <1>4, SliceBytes, ZenonT(60)
  <2>3. \A i \in 1 .. Len(b) : k + i \in 1 .. Len(s)
    BY <2>1, <1>2, <1>4
  <2>4. \A i \in 1 .. Len(b) : w[k + i] = b[i]
    BY <2>2, <2>3, <1>2, <1>4
  <2> QED
    BY <2>1, <2>4, SliceIs
<1> QED
  BY <1>1, <1>3, <1>4

\* The parts of a buffer that was put together from four.
PutTogether(s, a, b, c, d) ==
    /\ s = a \o b \o c \o d
    /\ Len(s) = Len(a) + Len(b) + Len(c) + Len(d)
    /\ Slice(s, 0, Len(a)) = a
    /\ Slice(s, Len(a), Len(b)) = b
    /\ Slice(s, Len(a) + Len(b), Len(c)) = c
    /\ Slice(s, Len(a) + Len(b) + Len(c), Len(d)) = d

LEMMA Parts ==
    ASSUME NEW S, NEW a \in Seq(S), NEW b \in Seq(S), NEW c \in Seq(S),
           NEW d \in Seq(S)
    PROVE  \E s \in Seq(S) : PutTogether(s, a, b, c, d)
<1>1. PICK ab \in Seq(S) : ab = a \o b
  BY Joined
<1>2. PICK abc \in Seq(S) : abc = ab \o c
  BY Joined
<1>3. PICK s \in Seq(S) : s = abc \o d
  BY Joined
<1>4. /\ Len(a) \in Nat /\ Len(b) \in Nat /\ Len(c) \in Nat
      /\ Len(d) \in Nat
      /\ Len(ab) = Len(a) + Len(b)
      /\ Len(abc) = Len(a) + Len(b) + Len(c)
      /\ Len(s) = Len(a) + Len(b) + Len(c) + Len(d)
  <2>1. Len(ab) = Len(a) + Len(b) /\ Len(a) \in Nat /\ Len(b) \in Nat
    BY <1>1, Joined
  <2>2. Len(abc) = Len(ab) + Len(c) /\ Len(c) \in Nat
    BY <1>2, Joined
  <2>3. Len(s) = Len(abc) + Len(d) /\ Len(d) \in Nat
    BY <1>3, Joined
  <2> QED
    BY <2>1, <2>2, <2>3
<1>5. Slice(ab, 0, Len(a)) = a /\ Slice(ab, Len(a), Len(b)) = b
  <2>1. \A i \in 1 .. Len(a) : ab[0 + i] = a[i]
    BY <1>1, Joined
  <2>2. 0 \in Nat /\ 0 + Len(a) <= Len(ab)
    BY <1>4
  <2>3. Slice(ab, 0, Len(a)) = a
    BY <2>1, <2>2, SliceIs
  <2> QED
    BY <1>1, <2>3, Extended
<1>6. /\ Slice(abc, 0, Len(a)) = a /\ Slice(abc, Len(a), Len(b)) = b
      /\ Slice(abc, Len(a) + Len(b), Len(c)) = c
  <2>1. 0 + Len(a) <= Len(ab) /\ Len(a) + Len(b) <= Len(ab) /\ 0 \in Nat
    BY <1>4
  <2>2. Slice(abc, 0, Len(a)) = a /\ Slice(abc, Len(a), Len(b)) = b
    BY <1>2, <1>4, <1>5, <2>1, Extended
  <2>3. Slice(abc, Len(ab), Len(c)) = c
    BY <1>2, Extended
  <2> QED
    BY <2>2, <2>3, <1>4
<1>7. /\ Slice(s, 0, Len(a)) = a /\ Slice(s, Len(a), Len(b)) = b
      /\ Slice(s, Len(a) + Len(b), Len(c)) = c
      /\ Slice(s, Len(a) + Len(b) + Len(c), Len(d)) = d
  <2>1. /\ 0 + Len(a) <= Len(abc) /\ Len(a) + Len(b) <= Len(abc)
        /\ (Len(a) + Len(b)) + Len(c) <= Len(abc)
        /\ 0 \in Nat /\ Len(a) + Len(b) \in Nat
    BY <1>4
  <2>2. /\ Slice(s, 0, Len(a)) = a /\ Slice(s, Len(a), Len(b)) = b
    BY <1>3, <1>4, <1>6, <2>1, Extended
  <2>3. Slice(s, Len(a) + Len(b), Len(c)) = c
    BY <1>3, <1>6, <2>1, Extended
  <2>4. Slice(s, Len(abc), Len(d)) = d
    BY <1>3, Extended
  <2> QED
    BY <2>2, <2>3, <2>4, <1>4
<1> QED
  BY <1>1, <1>2, <1>3, <1>4, <1>7 DEF PutTogether

LEMMA NoBytes == <<>> \in Seq(Byte) /\ Len(<<>>) = 0
OBVIOUS

\* What has arrived begins like the whole.
LEMMA ArrivedBegins ==
    ASSUME NEW S, NEW s \in Seq(S), NEW n \in 0 .. Len(s), NEW m \in Nat,
           m <= n
    PROVE  /\ SubSeq(s, 1, n) \in Seq(S) /\ Len(SubSeq(s, 1, n)) = n
           /\ Slice(SubSeq(s, 1, n), 0, m) = Slice(s, 0, m)
<1> DEFINE t == SubSeq(s, 1, n)
<1>1. Len(s) \in Nat /\ n \in Nat /\ n <= Len(s)
  OBVIOUS
<1>2. t \in Seq(S) /\ Len(t) = n /\ \A i \in 1 .. n : t[i] = s[i]
  BY <1>1
<1> DEFINE b == Slice(s, 0, m)
<1>3. b \in Seq(S) /\ Len(b) = m /\ \A i \in 1 .. m : b[i] = s[0 + i]
  BY <1>1, SliceBytes
<1> HIDE DEF t, b
<1>4. \A i \in 1 .. Len(b) : t[0 + i] = b[i]
  BY <1>1, <1>2, <1>3
<1>5. 0 + Len(b) <= Len(t)
  BY <1>1, <1>2, <1>3
<1>6. Slice(t, 0, Len(b)) = b
  BY <1>2, <1>3, <1>4, <1>5, SliceIs
<1>7. Slice(t, 0, m) = b
  BY <1>3, <1>6
<1> QED
  BY <1>2, <1>7 DEF t, b

----------------------------------------------------------------------------
(* The parts of a frame *)

\* The two bytes of the magic, and what follows them.
LEMMA AfterTwo ==
    ASSUME NEW S, NEW m \in Seq(S), NEW t \in Seq(S)
    PROVE  Len(m) = 2 /\ Len(t) = 2 =>
              LET b == m \o t IN
              /\ b \in Seq(S) /\ Len(b) = 4 /\ b[3] = t[1] /\ b[4] = t[2]
              /\ Slice(b, 0, 2) = m
<1>1. PICK b \in Seq(S) : b = m \o t
  BY Joined
<1>2. Len(b) = Len(m) + Len(t) /\ Len(m) \in Nat /\ Len(t) \in Nat
  BY <1>1, Joined
<1>3. \A i \in 1 .. Len(t) : b[Len(m) + i] = t[i]
  BY <1>1, Joined
<1>4. \A i \in 1 .. Len(m) : b[0 + i] = m[i]
  BY <1>1, Joined
<1>5. Slice(b, 0, Len(m)) = m
  <2>1. 0 \in Nat /\ 0 + Len(m) <= Len(b)
    BY <1>2
  <2> QED
    BY <2>1, <1>4, SliceIs
<1>6. ASSUME Len(m) = 2, Len(t) = 2
      PROVE  b[3] = t[1] /\ b[4] = t[2]
  <2>1. b[Len(m) + 1] = t[1] /\ b[Len(m) + 2] = t[2]
    BY <1>3, <1>6
  <2> QED
    BY <2>1, <1>6
<1> QED
  BY <1>1, <1>2, <1>5, <1>6

\* The six bytes of a SAP before its proof, and the proof.
SixAndProof(b, m, c, p) ==
    /\ b = m \o c \o p /\ Len(b) = 6 + Len(p)
    /\ b[3] = c[1] /\ b[4] = c[2] /\ b[5] = c[3] /\ b[6] = c[4]
    /\ Slice(b, 0, 2) = m /\ Slice(b, 6, Len(p)) = p

LEMMA AfterSix ==
    ASSUME NEW S, NEW m \in Seq(S), NEW c \in Seq(S), NEW p \in Seq(S)
    PROVE  Len(m) = 2 /\ Len(c) = 4 =>
              \E b \in Seq(S) : SixAndProof(b, m, c, p)
<1>1. PICK h \in Seq(S) : h = m \o c
  BY Joined
<1>2. PICK b \in Seq(S) : b = h \o p
  BY Joined
<1>3. Len(h) = Len(m) + Len(c) /\ Len(m) \in Nat /\ Len(c) \in Nat
  BY <1>1, Joined
<1>4. Len(b) = Len(h) + Len(p) /\ Len(h) \in Nat /\ Len(p) \in Nat
  BY <1>2, Joined
<1>5. \A i \in 1 .. Len(h) : b[i] = h[i]
  BY <1>2, Joined
<1>6. \A i \in 1 .. Len(m) : h[i] = m[i]
  BY <1>1, Joined
<1>7. \A i \in 1 .. Len(c) : h[Len(m) + i] = c[i]
  BY <1>1, Joined
<1>8. Slice(b, Len(h), Len(p)) = p
  BY <1>2, Extended
<1>9. Slice(b, 0, Len(m)) = m
  <2>1. \A i \in 1 .. Len(m) : b[0 + i] = m[i]
    BY <1>3, <1>5, <1>6
  <2>2. 0 \in Nat /\ 0 + Len(m) <= Len(b)
    BY <1>3, <1>4
  <2> QED
    BY <2>1, <2>2, SliceIs
<1>10. ASSUME Len(m) = 2, Len(c) = 4
       PROVE  /\ Len(h) = 6 /\ Len(b) = 6 + Len(p)
              /\ b[3] = c[1] /\ b[4] = c[2] /\ b[5] = c[3] /\ b[6] = c[4]
  <2>1. Len(h) = 6 /\ Len(b) = 6 + Len(p)
    BY <1>3, <1>4, <1>10
  <2>2. h[2 + 1] = c[1] /\ h[2 + 2] = c[2] /\ h[2 + 3] = c[3]
        /\ h[2 + 4] = c[4]
    BY <1>7, <1>10
  <2>3. h[3] = c[1] /\ h[4] = c[2] /\ h[5] = c[3] /\ h[6] = c[4]
    BY <2>2
  <2>4. b[3] = h[3] /\ b[4] = h[4] /\ b[5] = h[5] /\ b[6] = h[6]
    BY <1>5, <2>1
  <2> QED
    BY <2>1, <2>3, <2>4
<1> QED
  BY <1>1, <1>2, <1>8, <1>9, <1>10 DEF SixAndProof

LEMMA MagicBytes == Magic \in Seq(Byte) /\ Len(Magic) = 2
<1>1. PICK x \in Byte, y \in Byte : x = 207 /\ y = 20
  BY DEF Byte
<1>2. <<x, y>> \in Seq(Byte)
  OBVIOUS
<1>3. Magic = <<x, y>>
  BY <1>1 DEF Magic
<1> QED
  BY <1>2, <1>3

LEMMA AfterMagic ==
    ASSUME NEW x \in Byte, NEW y \in Byte
    PROVE  LET b == Magic \o <<x, y>> IN
           /\ b \in Seq(Byte) /\ Len(b) = 4 /\ b[3] = x /\ b[4] = y
           /\ Slice(b, 0, 2) = Magic
<1>1. Magic \in Seq(Byte)
  BY DEF Magic, Byte
<1>2. Len(Magic) = 2
  BY DEF Magic
<1>3. <<x, y>> \in Seq(Byte)
  OBVIOUS
<1>4. Len(<<x, y>>) = 2 /\ <<x, y>>[1] = x /\ <<x, y>>[2] = y
  OBVIOUS
<1> QED
  BY <1>1, <1>2, <1>3, <1>4, AfterTwo

\* The numbers of one and of two bytes.
LEMMA ByteIs == \A x : x \in Byte <=> x \in Int /\ 0 <= x /\ x <= 255
BY DEF Byte

LEMMA WordIs ==
    \A n : n \in Word <=> n \in Int /\ 0 <= n /\ n <= 256 * 256 - 1
<1>1. \E b \in Int : b = 256 * 256 - 1
  OBVIOUS
<1>2. PICK b \in Int : b = 256 * 256 - 1
  BY <1>1
<1>3. Word = 0 .. b
  BY <1>2 DEF Word
<1>4. \A n : n \in 0 .. b <=> n \in Int /\ 0 <= n /\ n <= b
  OBVIOUS
<1>5. \A n : n \in Word <=> n \in Int /\ 0 <= n /\ n <= b
  BY <1>3, <1>4
<1> QED
  BY <1>2, <1>5, SMT

\* Arithmetic of bytes.
LEMMA ByteParts ==
    ASSUME NEW x \in Byte
    PROVE  /\ x % 4 \in 0 .. 3 /\ (x \div 4) % 4 \in 0 .. 3
           /\ (x \div 16) % 4 \in 0 .. 3 /\ x \div 64 \in 0 .. 3
           /\ x \div 8 \in 0 .. 31 /\ x % 16 \in 0 .. 15
<1>1. x \in 0 .. 255
  BY DEF Byte
<1> QED
  BY <1>1

LEMMA TwoBytes ==
    ASSUME NEW n \in Word
    PROVE  /\ n \div 256 \in Byte /\ n % 256 \in Byte
           /\ 256 * (n \div 256) + (n % 256) = n
<1>1. n \in Int /\ 0 <= n /\ n <= 256 * 256 - 1
  BY WordIs
<1>2. n \div 256 \in Int /\ n \div 256 >= 0 /\ n \div 256 <= 255
  BY <1>1
<1>3. n % 256 \in Int /\ n % 256 >= 0 /\ n % 256 <= 255
  BY <1>1
<1>4. 256 * (n \div 256) + (n % 256) = n
  BY <1>1
<1> QED
  BY <1>2, <1>3, <1>4, ByteIs

LEMMA FromTwoBytes ==
    ASSUME NEW x \in Byte, NEW y \in Byte
    PROVE  256 * x + y \in Word
<1>1. x \in Int /\ y \in Int /\ 0 <= x /\ x <= 255 /\ 0 <= y /\ y <= 255
  BY ByteIs
<1>2. \E n \in Int : n = 256 * x + y /\ n <= 256 * 256 - 1 /\ 0 <= n
  BY <1>1
<1>3. PICK n \in Int : n = 256 * x + y /\ n <= 256 * 256 - 1 /\ 0 <= n
  BY <1>2
<1>4. n \in Word
  BY <1>3, WordIs
<1> QED
  BY <1>3, <1>4

\* A PFP arrives as it was encoded, without its reserved bits.
LEMMA PfpRoundTrip ==
    ASSUME NEW p \in PfpHeader
    PROVE  /\ PfpEncode(p) \in Seq(Byte) /\ Len(PfpEncode(p)) = PfpSize
           /\ VerifyMagic(PfpEncode(p))
           /\ PfpDecode(PfpEncode(p)) = [p EXCEPT !.reserved = 0]
<1> DEFINE m == p.modality
           r == p.risk_level
           s == p.body_stance
           e == p.proximity_edge
           d == AsBit(p.output_dest)
           o == AsBit(p.override_flag)
           y == AsBit(p.replay_enable)
           x == m + 4 * r + 16 * s + 64 * e
           z == d + 2 * o + 4 * y
           b == Magic \o <<x, z>>
<1>1. m \in 0 .. 3 /\ r \in 0 .. 3 /\ s \in 0 .. 3 /\ e \in 0 .. 3
      /\ p.output_dest \in BOOLEAN /\ p.override_flag \in BOOLEAN
      /\ p.replay_enable \in BOOLEAN
  BY DEF PfpHeader
<1>2. d \in 0 .. 1 /\ o \in 0 .. 1 /\ y \in 0 .. 1
      /\ p.output_dest = (d = 1) /\ p.override_flag = (o = 1)
      /\ p.replay_enable = (y = 1)
  BY <1>1 DEF AsBit
<1>3. PfpEncode(p) = b
  BY DEF PfpEncode
<1> HIDE DEF m, r, s, e, d, o, y
<1>4. /\ x \in 0 .. 255 /\ x % 4 = m /\ (x \div 4) % 4 = r
      /\ (x \div 16) % 4 = s /\ x \div 64 = e
  BY <1>1
<1>5. /\ z \in 0 .. 7 /\ z % 2 = d /\ (z \div 2) % 2 = o
      /\ (z \div 4) % 2 = y /\ z \div 8 = 0 /\ z \div 1 = z
  BY <1>2
<1> HIDE DEF x, z
<1>6. /\ b \in Seq(Byte) /\ Len(b) = 4 /\ b[3] = x /\ b[4] = z
      /\ Slice(b, 0, 2) = Magic
  <2>1. x \in Byte /\ z \in Byte
    BY <1>4, <1>5 DEF Byte
  <2> QED
    BY <2>1, AfterMagic
<1> HIDE DEF b
<1>8. PfpDecode(b) = [modality |-> m, risk_level |-> r, body_stance |-> s,
                      proximity_edge |-> e, output_dest |-> d = 1,
                      override_flag |-> o = 1, replay_enable |-> y = 1,
                      reserved |-> 0]
  BY <1>4, <1>5, <1>6 DEF PfpDecode, Bit
<1>9. [p EXCEPT !.reserved = 0]
        = [modality |-> m, risk_level |-> r, body_stance |-> s,
           proximity_edge |-> e, output_dest |-> d = 1,
           override_flag |-> o = 1, replay_enable |-> y = 1, reserved |-> 0]
  BY <1>2 DEF PfpHeader, m, r, s, e
<1> QED
  BY <1>3, <1>6, <1>8, <1>9 DEF VerifyMagic, PfpSize

\* Whatever four bytes arrive are some PFP.
LEMMA PfpDecoded ==
    ASSUME NEW b \in Seq(Byte), Len(b) = PfpSize
    PROVE  PfpDecode(b) \in PfpHeader
<1>1. b[3] \in Byte /\ b[4] \in Byte
  <2>1. 3 \in 1 .. Len(b) /\ 4 \in 1 .. Len(b)
    BY DEF PfpSize
  <2> QED
    BY <2>1, ElementOfSeq
<1>2. /\ b[3] % 4 \in 0 .. 3 /\ (b[3] \div 4) % 4 \in 0 .. 3
      /\ (b[3] \div 16) % 4 \in 0 .. 3 /\ b[3] \div 64 \in 0 .. 3
      /\ b[4] \div 8 \in 0 .. 31
  BY <1>1, ByteParts
<1> QED
  BY <1>2 DEF PfpDecode, PfpHeader, Bit

\* The bytes of a SAP between its magic and its proof.
LEMMA SapBytes ==
    ASSUME NEW v \in 0 .. 15, NEW n \in Word
    PROVE  \E c \in Seq(Byte) :
              /\ c = <<1, v, n \div 256, n % 256>> /\ Len(c) = 4
              /\ c[1] = 1 /\ c[2] % 16 = v /\ 256 * c[3] + c[4] = n
<1>1. 1 \in Byte /\ v \in Byte /\ v % 16 = v
  BY ByteIs
<1>2. PICK x \in Byte, y \in Byte :
         x = n \div 256 /\ y = n % 256 /\ 256 * x + y = n
  BY TwoBytes
<1>3. <<1, v, x, y>> \in Seq(Byte)
  BY <1>1
<1>4. PICK c \in Seq(Byte) : c = <<1, v, x, y>>
  BY <1>3
<1>5. Len(c) = 4 /\ c[1] = 1 /\ c[2] = v /\ c[3] = x /\ c[4] = y
  BY <1>4
<1>6. c[2] % 16 = v /\ 256 * c[3] + c[4] = n
  BY <1>1, <1>2, <1>5
<1>7. c = <<1, v, n \div 256, n % 256>>
  BY <1>2, <1>4
<1> QED
  BY <1>5, <1>6, <1>7


\* A SAP arrives as it was encoded.
LEMMA SapRoundTrip ==
    ASSUME NEW s \in SapHeader
    PROVE  /\ SapEncode(s) \in Seq(Byte) /\ Len(SapEncode(s)) = SapSize
           /\ VerifyMagic(SapEncode(s)) /\ VerifyProtocolId(SapEncode(s))
           /\ SapDecode(SapEncode(s)) = s
<1>1. PICK v \in 0 .. 15, n \in Word, p \in [1 .. ProofSize -> Byte] :
         s = [sap_version |-> v, seq_counter |-> n, proof |-> p]
  BY DEF SapHeader
<1>2. p \in Seq(Byte) /\ Len(p) = ProofSize
  BY ProofSizeAssumption
<1>3. PICK c \in Seq(Byte) :
         /\ c = <<1, v, n \div 256, n % 256>> /\ Len(c) = 4
         /\ c[1] = 1 /\ c[2] % 16 = v /\ 256 * c[3] + c[4] = n
  BY SapBytes, ZenonT(60)
<1>4. Len(Magic) = 2 /\ Len(c) = 4 /\ Magic \in Seq(Byte)
  BY <1>3, MagicBytes
<1>5. PICK b \in Seq(Byte) : SixAndProof(b, Magic, c, p)
  BY <1>2, <1>4, AfterSix, Zenon
<1>6. SapEncode(s) = b
  <2>1. s.sap_version % 16 = v /\ s.seq_counter = n /\ s.proof = p
    BY <1>1
  <2>2. SapEncode(s) = Magic \o <<1, s.sap_version % 16,
                                  s.seq_counter \div 256,
                                  s.seq_counter % 256>> \o s.proof
    BY DEF SapEncode, SapProtocolId
  <2> QED
    BY <2>1, <2>2, <1>3, <1>5, Zenon DEF SixAndProof
<1>7. SapDecode(b) = [sap_version |-> v, seq_counter |-> n, proof |-> p]
  <2>1. b[4] % 16 = v
    BY <1>3, <1>5, ZenonT(60) DEF SixAndProof
  <2>2. 256 * b[5] + b[6] = n
    BY <1>3, <1>5 DEF SixAndProof
  <2>3. Slice(b, 6, ProofSize) = p
    BY <1>2, <1>5, Zenon DEF SixAndProof
  <2> QED
    BY <2>1, <2>2, <2>3, Zenon DEF SapDecode
<1>8. VerifyMagic(b) /\ b[3] = 1 /\ Len(b) = 6 + ProofSize
  BY <1>2, <1>3, <1>5, ZenonT(60) DEF VerifyMagic, SixAndProof
<1> QED
  BY <1>1, <1>6, <1>7, <1>8, Zenon
  DEF VerifyProtocolId, SapProtocolId, SapSize

LEMMA SapDecoded ==
    ASSUME NEW b \in Seq(Byte), Len(b) = SapSize
    PROVE  SapDecode(b) \in SapHeader
<1> USE ProofSizeAssumption
<1>1. b[4] \in Byte /\ b[5] \in Byte /\ b[6] \in Byte
  <2>1. 4 \in 1 .. Len(b) /\ 5 \in 1 .. Len(b) /\ 6 \in 1 .. Len(b)
    BY DEF SapSize
  <2> QED
    BY <2>1, ElementOfSeq
<1>2. b[4] % 16 \in 0 .. 15 /\ 256 * b[5] + b[6] \in Word
  BY <1>1, ByteParts, FromTwoBytes
<1>3. Slice(b, 6, ProofSize) \in [1 .. ProofSize -> Byte]
  <2>1. Slice(b, 6, ProofSize) \in Seq(Byte)
        /\ Len(Slice(b, 6, ProofSize)) = ProofSize
    <3>1. 6 \in Nat /\ 6 + ProofSize <= Len(b)
      BY DEF SapSize
    <3> QED
      BY <3>1, SliceBytes
  <2>2. PICK c \in Seq(Byte) : c = Slice(b, 6, ProofSize)
    BY <2>1
  <2>3. c \in [1 .. Len(c) -> Byte]
    BY LenProperties
  <2> QED
    BY <2>1, <2>2, <2>3
<1> QED
  BY <1>2, <1>3 DEF SapDecode, SapHeader

\* The type byte of a header.
LEMMA TypeRoundTrip ==
    ASSUME NEW b \in Byte
    PROVE  LET t == FrameTypeFromByte(b) IN
           FrameTypeToByte(t) \in Byte
           /\ FrameTypeFromByte(FrameTypeToByte(t)) = t
<1> DEFINE t == FrameTypeFromByte(b)
<1>1. CASE b \in 1 .. 8
  <2>1. t = [name |-> KnownTypes[b]] /\ t.name = KnownTypes[b]
    BY <1>1 DEF FrameTypeFromByte
  <2>2. KnownTypes[b] # "Unknown"
    BY <1>1 DEF KnownTypes
  <2> DEFINE c == CHOOSE c \in 1 .. 8 : KnownTypes[c] = t.name
  <2>3. c \in 1 .. 8 /\ KnownTypes[c] = t.name
    BY <1>1, <2>1
  <2>4. FrameTypeToByte(t) = c
    BY <2>1, <2>2 DEF FrameTypeToByte
  <2> HIDE DEF c
  <2>5. FrameTypeFromByte(c) = t
    BY <2>1, <2>3 DEF FrameTypeFromByte
  <2>6. c \in Byte
    BY <2>3, ByteIs
  <2> QED
    BY <2>4, <2>5, <2>6
<1>2. CASE b \notin 1 .. 8
  <2>1. t = [name |-> "Unknown", byte |-> b]
    BY <1>2 DEF FrameTypeFromByte
  <2>2. FrameTypeToByte(t) = b
    BY <2>1 DEF FrameTypeToByte
  <2> QED
    BY <2>2
<1> QED
  BY <1>1, <1>2

\* Four elements.
FourIs(s, w, x, y, z) ==
    s = <<w, x, y, z>> /\ Len(s) = 4
    /\ s[1] = w /\ s[2] = x /\ s[3] = y /\ s[4] = z

LEMMA FourOf ==
    ASSUME NEW S, NEW w \in S, NEW x \in S, NEW y \in S, NEW z \in S
    PROVE  \E s \in Seq(S) : FourIs(s, w, x, y, z)
<1>1. <<w, x, y, z>> \in Seq(S)
  OBVIOUS
<1>2. PICK s \in Seq(S) : s = <<w, x, y, z>>
  BY <1>1
<1>3. Len(s) = 4 /\ s[1] = w /\ s[2] = x /\ s[3] = y /\ s[4] = z
  BY <1>2
<1> QED
  BY <1>2, <1>3 DEF FourIs

\* The four bytes of a payload length.
LEMMA FourParts ==
    ASSUME NEW n \in 0 .. MaxPayload
    PROVE  \E w \in Byte, x \in Byte, y \in Byte, z \in Byte :
              U32Bytes(n) = <<w, x, y, z>> /\ U32(w, x, y, z) = n
<1>1. n \in Int /\ 0 <= n
  BY MaxPayloadAssumption
<1>2. n \div 16777216 \in Int /\ 0 <= n \div 16777216
  BY <1>1
<1>3. n \div 16777216 <= 255
  BY <1>1, MaxPayloadAssumption
<1>4. /\ (n \div 65536) % 256 \in Int /\ 0 <= (n \div 65536) % 256
      /\ (n \div 65536) % 256 <= 255
  BY <1>1
<1>5. /\ (n \div 256) % 256 \in Int /\ 0 <= (n \div 256) % 256
      /\ (n \div 256) % 256 <= 255
  BY <1>1
<1>6. n % 256 \in Int /\ 0 <= n % 256 /\ n % 256 <= 255
  BY <1>1
<1>7. 16777216 * (n \div 16777216) + 65536 * ((n \div 65536) % 256)
        + 256 * ((n \div 256) % 256) + (n % 256) = n
  BY <1>1
<1>8. /\ n \div 16777216 \in Byte /\ (n \div 65536) % 256 \in Byte
      /\ (n \div 256) % 256 \in Byte /\ n % 256 \in Byte
  BY <1>2, <1>3, <1>4, <1>5, <1>6, ByteIs
<1> QED
  BY <1>7, <1>8 DEF U32Bytes, U32

LEMMA FourBytes ==
    ASSUME NEW n \in 0 .. MaxPayload
    PROVE  \E d \in Seq(Byte) :
              /\ d = U32Bytes(n) /\ Len(d) = 4
              /\ U32(d[1], d[2], d[3], d[4]) = n
<1>1. PICK w \in Byte, x \in Byte, y \in Byte, z \in Byte :
         U32Bytes(n) = <<w, x, y, z>> /\ U32(w, x, y, z) = n
  BY FourParts
<1>2. PICK d \in Seq(Byte) : FourIs(d, w, x, y, z)
  BY FourOf, Zenon
<1> QED
  BY <1>1, <1>2, Zenon DEF FourIs

\* The eight bytes of a header.
FourAndFour(b, m, t) ==
    /\ b = m \o t /\ Len(b) = 8
    /\ b[1] = m[1] /\ b[2] = m[2] /\ b[3] = m[3] /\ b[4] = m[4]
    /\ b[5] = t[1] /\ b[6] = t[2] /\ b[7] = t[3] /\ b[8] = t[4]

LEMMA AfterFour ==
    ASSUME NEW S, NEW m \in Seq(S), NEW t \in Seq(S)
    PROVE  Len(m) = 4 /\ Len(t) = 4 =>
              \E b \in Seq(S) : FourAndFour(b, m, t)
<1>1. PICK b \in Seq(S) : b = m \o t
  BY Joined
<1>2. Len(b) = Len(m) + Len(t) /\ Len(m) \in Nat /\ Len(t) \in Nat
  BY <1>1, Joined
<1>3. \A i \in 1 .. Len(m) : b[i] = m[i]
  BY <1>1, Joined
<1>4. \A i \in 1 .. Len(t) : b[Len(m) + i] = t[i]
  BY <1>1, Joined
<1>5. ASSUME Len(m) = 4, Len(t) = 4
      PROVE  FourAndFour(b, m, t)
  <2>1. b[1] = m[1] /\ b[2] = m[2] /\ b[3] = m[3] /\ b[4] = m[4]
    BY <1>3, <1>5
  <2>2. b[4 + 1] = t[1] /\ b[4 + 2] = t[2] /\ b[4 + 3] = t[3]
        /\ b[4 + 4] = t[4]
    BY <1>4, <1>5
  <2>3. b[5] = t[1] /\ b[6] = t[2] /\ b[7] = t[3] /\ b[8] = t[4]
    BY <2>2
  <2>4. Len(b) = 8
    BY <1>2, <1>5
  <2> QED
    BY <1>1, <2>1, <2>3, <2>4 DEF FourAndFour
<1> QED
  BY <1>5

FrameType == {FrameTypeFromByte(b) : b \in Byte}
Header == [frame_type : FrameType, channel_id : Byte, flags : Byte,
           sequence_id : Byte, payload_length : 0 .. MaxPayload]

\* A header arrives as it was encoded.
LEMMA HeaderRoundTrip ==
    ASSUME NEW h \in Header
    PROVE  /\ HeaderEncode(h) \in Seq(Byte)
           /\ Len(HeaderEncode(h)) = HeaderSize
           /\ HeaderDecode(HeaderEncode(h)) = h
<1>1. PICK t \in FrameType, c \in Byte, g \in Byte, q \in Byte,
           n \in 0 .. MaxPayload :
         h = [frame_type |-> t, channel_id |-> c, flags |-> g,
              sequence_id |-> q, payload_length |-> n]
  BY DEF Header
<1>2. PICK y \in Byte : y = FrameTypeToByte(t) /\ FrameTypeFromByte(y) = t
  BY TypeRoundTrip DEF FrameType
<1>4. PICK a \in Seq(Byte) : FourIs(a, y, c, g, q)
  BY FourOf, Zenon
<1>5. PICK d \in Seq(Byte) :
         /\ d = U32Bytes(n) /\ Len(d) = 4
         /\ U32(d[1], d[2], d[3], d[4]) = n
  BY FourBytes, Zenon
<1>6. PICK b \in Seq(Byte) : FourAndFour(b, a, d)
  <2>1. Len(a) = 4 /\ Len(d) = 4
    BY <1>4, <1>5 DEF FourIs
  <2> QED
    BY <2>1, AfterFour, Zenon
<1>7. HeaderEncode(h) = b
  <2>1. /\ h.frame_type = t /\ h.channel_id = c /\ h.flags = g
        /\ h.sequence_id = q /\ h.payload_length = n
    BY <1>1
  <2>2. HeaderEncode(h) = <<y, c, g, q>> \o U32Bytes(n)
    BY <2>1, <1>2, Zenon DEF HeaderEncode
  <2> QED
    BY <2>2, <1>4, <1>5, <1>6, Zenon DEF FourAndFour, FourIs
<1>8. HeaderDecode(b) = h
  <2>1. FrameTypeFromByte(b[1]) = t /\ b[2] = c /\ b[3] = g /\ b[4] = q
    BY <1>2, <1>4, <1>6, Zenon DEF FourAndFour, FourIs
  <2>2. U32(b[5], b[6], b[7], b[8]) = n
    BY <1>5, <1>6, Zenon DEF FourAndFour
  <2> QED
    BY <2>1, <2>2, <1>1, Zenon DEF HeaderDecode, BindHeaderNew
<1> QED
  BY <1>6, <1>7, <1>8, Zenon DEF FourAndFour, HeaderSize

----------------------------------------------------------------------------
(* Frames *)

\* The frames decode accepts: the flags announce the parts.
IsFrame(f) ==
    /\ f \in [header : Header, pfp : PfpHeader \cup {None},
              sap : SapHeader \cup {None}, payload : Seq(Byte)]
    /\ HasPfp(f.header) <=> f.pfp # None
    /\ HasSap(f.header) <=> f.sap # None
    /\ f.header.payload_length = Len(f.payload)

PfpBytes(f) == IF f.pfp = None THEN <<>> ELSE PfpEncode(f.pfp)
SapBytesOf(f) == IF f.sap = None THEN <<>> ELSE SapEncode(f.sap)
PfpLength(h) == IF HasPfp(h) THEN PfpSize ELSE 0
SapLength(h) == IF HasSap(h) THEN SapSize ELSE 0

LEMMA PartLengths ==
    ASSUME NEW h
    PROVE  /\ PfpLength(h) \in Nat /\ SapLength(h) \in Nat
           /\ ExtensionLength(h) = PfpLength(h) + SapLength(h)
           /\ TotalFrameLength(h)
                = HeaderSize + PfpLength(h) + SapLength(h) + h.payload_length
           /\ HeaderSize + ExtensionLength(h)
                = HeaderSize + PfpLength(h) + SapLength(h)
           /\ SapSize \in Nat /\ PfpSize \in Nat /\ HeaderSize \in Nat
<1>1. SapSize \in Nat /\ PfpSize \in Nat /\ HeaderSize \in Nat
  BY ProofSizeAssumption DEF SapSize, PfpSize, HeaderSize
<1>2. PfpLength(h) \in Nat /\ SapLength(h) \in Nat
  BY <1>1 DEF PfpLength, SapLength
<1>3. ExtensionLength(h) = PfpLength(h) + SapLength(h)
  BY DEF ExtensionLength, PfpLength, SapLength
<1>4. HeaderSize + ExtensionLength(h)
        = HeaderSize + PfpLength(h) + SapLength(h)
  BY <1>1, <1>2, <1>3
<1> QED
  BY <1>1, <1>2, <1>3, <1>4 DEF TotalFrameLength

\* What stands where in an encoded frame.
LEMMA FrameParts ==
    ASSUME NEW f, IsFrame(f)
    PROVE  LET h == f.header
               b == Encode(f)
           IN  /\ b \in Seq(Byte) /\ Len(b) = TotalFrameLength(h)
               /\ Slice(b, 0, HeaderSize) = HeaderEncode(h)
               /\ Slice(b, HeaderSize, PfpLength(h)) = PfpBytes(f)
               /\ Slice(b, HeaderSize + PfpLength(h), SapLength(h))
                    = SapBytesOf(f)
               /\ Slice(b, HeaderSize + ExtensionLength(h),
                        h.payload_length) = f.payload
<1>1. PICK h \in Header, p \in PfpHeader \cup {None},
           s \in SapHeader \cup {None}, y \in Seq(Byte) :
         /\ f = [header |-> h, pfp |-> p, sap |-> s, payload |-> y]
         /\ HasPfp(h) <=> p # None
         /\ HasSap(h) <=> s # None
         /\ h.payload_length = Len(y)
  BY DEF IsFrame
<1>2. PICK ph \in Seq(Byte) : ph = HeaderEncode(h) /\ Len(ph) = HeaderSize
  BY HeaderRoundTrip
<1>3. PICK pb \in Seq(Byte) : pb = PfpBytes(f) /\ Len(pb) = PfpLength(h)
  <2>1. CASE p = None
    <3>1. PfpBytes(f) = <<>> /\ PfpLength(h) = 0
      BY <1>1, <2>1 DEF PfpBytes, PfpLength
    <3> QED
      BY <3>1, NoBytes, Zenon
  <2>2. CASE p # None
    <3>1. PfpBytes(f) = PfpEncode(p) /\ PfpLength(h) = PfpSize
      BY <1>1, <2>2 DEF PfpBytes, PfpLength
    <3>2. p \in PfpHeader
      BY <2>2
    <3> QED
      BY <3>1, <3>2, PfpRoundTrip, Zenon
  <2> QED
    BY <2>1, <2>2
<1>4. PICK sb \in Seq(Byte) : sb = SapBytesOf(f) /\ Len(sb) = SapLength(h)
  <2>1. CASE s = None
    <3>1. SapBytesOf(f) = <<>> /\ SapLength(h) = 0
      BY <1>1, <2>1 DEF SapBytesOf, SapLength
    <3> QED
      BY <3>1, NoBytes, Zenon
  <2>2. CASE s # None
    <3>1. SapBytesOf(f) = SapEncode(s) /\ SapLength(h) = SapSize
      BY <1>1, <2>2 DEF SapBytesOf, SapLength
    <3>2. s \in SapHeader
      BY <2>2
    <3> QED
      BY <3>1, <3>2, SapRoundTrip, Zenon
  <2> QED
    BY <2>1, <2>2
<1>5. Encode(f) = ph \o pb \o sb \o y
  BY <1>1, <1>2, <1>3, <1>4, Zenon DEF Encode, PfpBytes, SapBytesOf
<1>6. PICK b \in Seq(Byte) : PutTogether(b, ph, pb, sb, y)
  BY Parts, Zenon
<1>7. Len(b) = TotalFrameLength(h)
  BY <1>1, <1>2, <1>3, <1>4, <1>6, PartLengths, Zenon
  DEF PutTogether
<1>8. /\ Slice(b, 0, HeaderSize) = ph
      /\ Slice(b, HeaderSize, PfpLength(h)) = pb
      /\ Slice(b, HeaderSize + PfpLength(h), SapLength(h)) = sb
      /\ Slice(b, HeaderSize + PfpLength(h) + SapLength(h),
               h.payload_length) = y
  BY <1>1, <1>2, <1>3, <1>4, <1>6, Zenon DEF PutTogether
<1>9. Slice(b, HeaderSize + ExtensionLength(h), h.payload_length) = y
  BY <1>8, PartLengths, Zenon
<1>10. f.header = h /\ f.payload = y
  BY <1>1
<1> QED
  BY <1>2, <1>3, <1>4, <1>5, <1>6, <1>7, <1>8, <1>9, <1>10, Zenon
  DEF PutTogether

\* Before the whole frame is there, decode says that it waits.
LEMMA EarlyAnswer ==
    ASSUME NEW f, IsFrame(f), NEW n \in Nat, n < Len(Encode(f))
    PROVE  Decode(SubSeq(Encode(f), 1, n))
             = Err(IF n < HeaderSize THEN "IncompleteHeader"
                                     ELSE "IncompleteFrame")
<1>1. PICK b \in Seq(Byte) : b = Encode(f)
  BY FrameParts
<1>2. f.header \in Header
  BY DEF IsFrame
<1>3. Len(b) = TotalFrameLength(f.header)
      /\ Slice(b, 0, HeaderSize) = HeaderEncode(f.header)
  BY <1>1, FrameParts
<1>4. n \in 0 .. Len(b) /\ n < Len(b)
  BY <1>1
<1>5. PICK a \in Seq(Byte) : a = SubSeq(b, 1, n) /\ Len(a) = n
  <2>1. SubSeq(b, 1, n) \in Seq(Byte) /\ Len(SubSeq(b, 1, n)) = n
    BY <1>4
  <2> QED
    BY <2>1, Zenon
<1>6. CASE n < HeaderSize
  <2>1. Decode(a) = Err("IncompleteHeader")
    BY <1>5, <1>6, Zenon DEF Decode
  <2> QED
    BY <2>1, <1>1, <1>5, <1>6, Zenon
<1>7. CASE ~(n < HeaderSize)
  <2>1. HeaderSize \in Nat /\ HeaderSize <= n
    BY <1>7 DEF HeaderSize
  <2>2. Slice(a, 0, HeaderSize) = Slice(b, 0, HeaderSize)
    BY <1>4, <1>5, <2>1, ArrivedBegins, Zenon
  <2>3. HeaderDecode(Slice(a, 0, HeaderSize)) = f.header
    BY <1>2, <1>3, <2>2, HeaderRoundTrip, Zenon
  <2>4. ~(Len(a) < HeaderSize) /\ Len(a) < TotalFrameLength(f.header)
    BY <1>3, <1>4, <1>5, <1>7, Zenon
  <2>5. Decode(a) = Err("IncompleteFrame")
    BY <2>3, <2>4, Zenon DEF Decode
  <2> QED
    BY <2>5, <1>1, <1>5, <1>7, Zenon
<1> QED
  BY <1>6, <1>7

\* The frame without the reserved bits of its PFP.
Clean(p) == IF p = None THEN None ELSE [p EXCEPT !.reserved = 0]
Cleaned(f) == [header |-> f.header, pfp |-> Clean(f.pfp), sap |-> f.sap,
               payload |-> f.payload]

\* What encode writes decode reads back.
LEMMA DecodeEncode ==
    ASSUME NEW f, IsFrame(f)
    PROVE  Decode(Encode(f)) = Ok(Cleaned(f))
<1>1. PICK h \in Header : h = f.header
  BY DEF IsFrame
<1>2. PICK b \in Seq(Byte) : b = Encode(f)
  BY FrameParts
<1>3. /\ Len(b) = TotalFrameLength(h)
      /\ Slice(b, 0, HeaderSize) = HeaderEncode(h)
      /\ Slice(b, HeaderSize, PfpLength(h)) = PfpBytes(f)
      /\ Slice(b, HeaderSize + PfpLength(h), SapLength(h)) = SapBytesOf(f)
      /\ Slice(b, HeaderSize + ExtensionLength(h), h.payload_length)
           = f.payload
  BY <1>1, <1>2, FrameParts
<1>4. HeaderDecode(Slice(b, 0, HeaderSize)) = h
  BY <1>3, HeaderRoundTrip, Zenon
<1>5. ~(Len(b) < HeaderSize) /\ ~(Len(b) < TotalFrameLength(h))
  <2>1. /\ Len(b) \in Nat /\ HeaderSize \in Nat
        /\ PfpLength(h) \in Nat /\ SapLength(h) \in Nat
        /\ Len(b) = HeaderSize + PfpLength(h) + SapLength(h)
                      + h.payload_length
    BY <1>3, PartLengths
  <2>2. h.payload_length \in Nat
    BY MaxPayloadAssumption DEF Header
  <2> QED
    BY <1>3, <2>1, <2>2
<1>6. ~(h.payload_length > MaxPayload)
  BY MaxPayloadAssumption DEF Header
<1> DEFINE sapAt == HeaderSize + IF HasPfp(h) THEN PfpSize ELSE 0
<1>7. sapAt = HeaderSize + PfpLength(h)
  BY DEF PfpLength
<1> HIDE DEF sapAt
<1>8. IF HasPfp(h)
      THEN /\ VerifyMagic(Slice(b, HeaderSize, PfpSize))
           /\ PfpDecode(Slice(b, HeaderSize, PfpSize)) = Clean(f.pfp)
      ELSE Clean(f.pfp) = None
  <2>1. CASE HasPfp(h)
    <3>1. f.pfp \in PfpHeader /\ f.pfp # None
      BY <1>1, <2>1 DEF IsFrame
    <3>2. Slice(b, HeaderSize, PfpSize) = PfpEncode(f.pfp)
      BY <1>3, <2>1, <3>1, Zenon DEF PfpLength, PfpBytes
    <3>3. /\ VerifyMagic(PfpEncode(f.pfp))
          /\ PfpDecode(PfpEncode(f.pfp)) = Clean(f.pfp)
      BY <3>1, PfpRoundTrip, Zenon DEF Clean
    <3> QED
      BY <2>1, <3>2, <3>3, Zenon
  <2>2. CASE ~HasPfp(h)
    BY <1>1, <2>2 DEF IsFrame, Clean
  <2> QED
    BY <2>1, <2>2
<1>9. IF HasSap(h)
      THEN /\ VerifyMagic(Slice(b, sapAt, SapSize))
           /\ VerifyProtocolId(Slice(b, sapAt, SapSize))
           /\ SapDecode(Slice(b, sapAt, SapSize)) = f.sap
      ELSE f.sap = None
  <2>1. CASE HasSap(h)
    <3>1. f.sap \in SapHeader /\ f.sap # None
      BY <1>1, <2>1 DEF IsFrame
    <3>2. Slice(b, sapAt, SapSize) = SapEncode(f.sap)
      BY <1>3, <1>7, <2>1, <3>1, Zenon DEF SapLength, SapBytesOf
    <3> QED
      BY <2>1, <3>1, <3>2, SapRoundTrip, Zenon
  <2>2. CASE ~HasSap(h)
    BY <1>1, <2>2 DEF IsFrame
  <2> QED
    BY <2>1, <2>2
<1>10. Unpack(b, h) = Cleaned(f)
  BY <1>1, <1>3, <1>8, <1>9, Zenon DEF Unpack, Cleaned, sapAt
<1>11. Decode(b) = Ok(Unpack(b, h))
  BY <1>4, <1>5, <1>6, <1>8, <1>9, Zenon DEF Decode, sapAt
<1> QED
  BY <1>2, <1>10, <1>11

\* The header of any eight bytes.
LEMMA HeaderDecoded ==
    ASSUME NEW b \in Seq(Byte), Len(b) = HeaderSize
    PROVE  LET h == HeaderDecode(b) IN
           /\ h = [frame_type |-> h.frame_type, channel_id |-> h.channel_id,
                   flags |-> h.flags, sequence_id |-> h.sequence_id,
                   payload_length |-> h.payload_length]
           /\ h.frame_type \in FrameType /\ h.channel_id \in Byte
           /\ h.flags \in Byte /\ h.sequence_id \in Byte
           /\ h.payload_length \in Nat
<1>1. \A i \in 1 .. 8 : b[i] \in Byte
  BY ElementOfSeq DEF HeaderSize
<1>2. PICK b1 \in Byte, b2 \in Byte, b3 \in Byte, b4 \in Byte :
         b1 = b[1] /\ b2 = b[2] /\ b3 = b[3] /\ b4 = b[4]
  BY <1>1
<1>3. PICK b5 \in Byte, b6 \in Byte, b7 \in Byte, b8 \in Byte :
         b5 = b[5] /\ b6 = b[6] /\ b7 = b[7] /\ b8 = b[8]
  BY <1>1
<1>4. U32(b5, b6, b7, b8) \in Nat
  <2>1. /\ b5 \in Int /\ b6 \in Int /\ b7 \in Int /\ b8 \in Int
        /\ 0 <= b5 /\ 0 <= b6 /\ 0 <= b7 /\ 0 <= b8
    BY ByteIs
  <2> QED
    BY <2>1 DEF U32
<1>5. HeaderDecode(b) = BindHeaderNew(FrameTypeFromByte(b1), b2, b3, b4,
                                      U32(b5, b6, b7, b8))
  BY <1>2, <1>3, Zenon DEF HeaderDecode
<1>6. FrameTypeFromByte(b1) \in FrameType
  BY DEF FrameType
<1> QED
  BY <1>4, <1>5, <1>6 DEF BindHeaderNew

\* Whatever decode accepts is a frame.
LEMMA DecodedIsFrame ==
    ASSUME NEW b \in Seq(Byte), Decode(b).ok
    PROVE  IsFrame(Decode(b).value)
<1> DEFINE h == HeaderDecode(Slice(b, 0, HeaderSize))
           sapAt == HeaderSize + IF HasPfp(h) THEN PfpSize ELSE 0
<1>1. ~Err("IncompleteHeader").ok /\ ~Err("IncompleteFrame").ok
      /\ ~Err("BufferOverflow").ok /\ ~Err("InvalidPfpMagic").ok
      /\ ~Err("InvalidSapMagic").ok /\ ~Err("InvalidSapProtocolId").ok
  BY DEF Err
<1>2. /\ ~(Len(b) < HeaderSize) /\ ~(Len(b) < TotalFrameLength(h))
      /\ ~(h.payload_length > MaxPayload)
      /\ Decode(b) = Ok(Unpack(b, h))
  BY <1>1, Zenon DEF Decode
<1>3. Decode(b).value = Unpack(b, h)
  BY <1>2 DEF Ok
<1>4. Len(b) \in Nat /\ HeaderSize \in Nat /\ HeaderSize <= Len(b)
  BY <1>2 DEF HeaderSize
<1>5. Slice(b, 0, HeaderSize) \in Seq(Byte)
      /\ Len(Slice(b, 0, HeaderSize)) = HeaderSize
  <2>1. 0 \in Nat /\ 0 + HeaderSize <= Len(b)
    BY <1>4
  <2> QED
    BY <1>4, <2>1, SliceBytes
<1>6. h \in Header
  <2>1. /\ h = [frame_type |-> h.frame_type, channel_id |-> h.channel_id,
                flags |-> h.flags, sequence_id |-> h.sequence_id,
                payload_length |-> h.payload_length]
        /\ h.frame_type \in FrameType /\ h.channel_id \in Byte
        /\ h.flags \in Byte /\ h.sequence_id \in Byte
        /\ h.payload_length \in Nat
    BY <1>5, HeaderDecoded, Zenon
  <2> HIDE DEF h
  <2>2. h.payload_length \in 0 .. MaxPayload
    BY <1>2, <2>1, MaxPayloadAssumption
  <2> QED
    BY <2>1, <2>2 DEF Header
<1>7. sapAt = HeaderSize + PfpLength(h)
  BY DEF PfpLength
<1> HIDE DEF h, sapAt
<1>8. h.payload_length \in Nat
  BY <1>6, MaxPayloadAssumption DEF Header
<1>9. /\ PfpLength(h) \in Nat /\ SapLength(h) \in Nat /\ SapSize \in Nat
      /\ PfpSize \in Nat
      /\ HeaderSize + ExtensionLength(h)
           = HeaderSize + PfpLength(h) + SapLength(h)
      /\ HeaderSize + PfpLength(h) + SapLength(h) + h.payload_length
           <= Len(b)
  <2>1. TotalFrameLength(h)
          = HeaderSize + PfpLength(h) + SapLength(h) + h.payload_length
    BY PartLengths
  <2>2. PfpLength(h) \in Nat /\ SapLength(h) \in Nat
    BY PartLengths
  <2>3. HeaderSize + PfpLength(h) + SapLength(h) + h.payload_length
           <= Len(b)
    BY <1>2, <1>4, <1>8, <2>1, <2>2
  <2> QED
    BY <2>2, <2>3, PartLengths
<1>10. HasPfp(h) => PfpDecode(Slice(b, HeaderSize, PfpSize)) \in PfpHeader
  <2>1. ASSUME HasPfp(h) PROVE HeaderSize + PfpSize <= Len(b)
    <3>1. PfpLength(h) = PfpSize
      BY <2>1 DEF PfpLength
    <3> QED
      BY <3>1, <1>4, <1>8, <1>9
  <2> QED
    BY <2>1, <1>4, <1>9, SliceBytes, PfpDecoded, ZenonT(60)
<1>11. HasSap(h) => SapDecode(Slice(b, sapAt, SapSize)) \in SapHeader
  <2>1. ASSUME HasSap(h) PROVE sapAt + SapSize <= Len(b)
    <3>1. SapLength(h) = SapSize
      BY <2>1 DEF SapLength
    <3> QED
      BY <3>1, <1>4, <1>7, <1>8, <1>9
  <2>2. sapAt \in Nat
    BY <1>4, <1>7, <1>9
  <2> QED
    BY <2>1, <2>2, <1>9, SliceBytes, SapDecoded, ZenonT(60)
<1>12. /\ Slice(b, HeaderSize + ExtensionLength(h), h.payload_length)
            \in Seq(Byte)
       /\ Len(Slice(b, HeaderSize + ExtensionLength(h), h.payload_length))
            = h.payload_length
  <2>1. /\ HeaderSize + ExtensionLength(h) \in Nat
        /\ HeaderSize + ExtensionLength(h) + h.payload_length <= Len(b)
    BY <1>4, <1>8, <1>9
  <2> QED
    BY <2>1, <1>8, SliceBytes, ZenonT(60)
<1>13. PICK p \in PfpHeader \cup {None}, s \in SapHeader \cup {None},
            y \in Seq(Byte) :
         /\ p = IF HasPfp(h) THEN PfpDecode(Slice(b, HeaderSize, PfpSize))
                             ELSE None
         /\ s = IF HasSap(h) THEN SapDecode(Slice(b, sapAt, SapSize))
                             ELSE None
         /\ y = Slice(b, HeaderSize + ExtensionLength(h), h.payload_length)
         /\ Len(y) = h.payload_length
  BY <1>10, <1>11, <1>12
<1>14. Unpack(b, h) = [header |-> h, pfp |-> p, sap |-> s, payload |-> y]
  BY <1>13, Zenon DEF Unpack, sapAt
<1>15. (HasPfp(h) <=> p # None) /\ (HasSap(h) <=> s # None)
  BY <1>10, <1>11, <1>13, NoPfpAssumption, NoSapAssumption
<1> QED
  BY <1>3, <1>6, <1>13, <1>14, <1>15 DEF IsFrame

----------------------------------------------------------------------------
(* The payload of a KEY_ROTATION *)

\* The payload of a KEY_ROTATION arrives as it was encoded.
LEMMA PayloadRoundTrip ==
    ASSUME NEW a \in Seq(Byte), NEW d \in Seq(Byte), Len(a) = NonceSize
    PROVE  LET r == [nonce |-> a, new_key_encrypted |-> d] IN
           /\ PayloadEncode(r) \in Seq(Byte)
           /\ Len(PayloadEncode(r)) = NonceSize + Len(d)
           /\ PayloadDecode(PayloadEncode(r)) = Ok(r)
<1> DEFINE r == [nonce |-> a, new_key_encrypted |-> d]
<1>1. PayloadEncode(r) = a \o d
  BY DEF PayloadEncode
<1>2. PICK b \in Seq(Byte) : b = a \o d
  BY Joined
<1>3. Len(b) = Len(a) + Len(d) /\ Len(a) \in Nat /\ Len(d) \in Nat
  BY <1>2, Joined
<1>4. \A i \in 1 .. Len(a) : b[0 + i] = a[i]
  BY <1>2, Joined
<1>5. Slice(b, 0, Len(a)) = a
  <2>1. 0 \in Nat /\ 0 + Len(a) <= Len(b)
    BY <1>3
  <2> QED
    BY <1>4, <2>1, SliceIs
<1>6. Slice(b, Len(a), Len(d)) = d
  BY <1>2, Extended
<1>7. Len(b) = NonceSize + Len(d) /\ ~(Len(b) < NonceSize)
      /\ Len(b) - NonceSize = Len(d)
  BY <1>3
<1>8. PayloadDecode(b) = Ok(r)
  BY <1>5, <1>6, <1>7, Zenon DEF PayloadDecode
<1> QED
  BY <1>1, <1>2, <1>7, <1>8

LEMMA NewKeyIs ==
    ASSUME NEW n \in Nat
    PROVE  /\ PayloadEncode(NewKey(n)) \in Seq(Byte)
           /\ Len(PayloadEncode(NewKey(n))) = NonceSize + n
           /\ PayloadDecode(PayloadEncode(NewKey(n))) = Ok(NewKey(n))
<1> DEFINE a == [i \in 1 .. NonceSize |-> i % 256]
           d == [i \in 1 .. n |-> 187]
<1>1. a \in Seq(Byte) /\ Len(a) = NonceSize
  <2>1. \A i \in 1 .. NonceSize : i % 256 \in Byte
    BY ProofSizeAssumption DEF Byte
  <2> QED
    BY <2>1, ProofSizeAssumption
<1>2. d \in Seq(Byte) /\ Len(d) = n
  <2>1. 187 \in Byte
    BY DEF Byte
  <2> QED
    BY <2>1
<1>3. NewKey(n) = [nonce |-> a, new_key_encrypted |-> d]
  BY DEF NewKey
<1> HIDE DEF a, d
<1>4. /\ PayloadEncode(NewKey(n)) \in Seq(Byte)
      /\ Len(PayloadEncode(NewKey(n))) = NonceSize + Len(d)
      /\ PayloadDecode(PayloadEncode(NewKey(n))) = Ok(NewKey(n))
  BY <1>1, <1>2, <1>3, PayloadRoundTrip, Zenon
<1> QED
  BY <1>2, <1>4, Zenon

LEMMA PayloadIsBytes ==
    ASSUME NEW type, NEW n \in Nat
    PROVE  Payload(type, n) \in Seq(Byte)
<1>1. 187 \in Byte
  BY DEF Byte
<1>2. [i \in 1 .. n |-> 187] \in Seq(Byte)
  BY <1>1
<1> QED
  BY <1>2, NewKeyIs DEF Payload

----------------------------------------------------------------------------
(* The frames a sender builds *)

Built(f) ==
    /\ IsFrame(f)
    /\ Clean(f.pfp) = f.pfp
    /\ f.header.frame_type.name = "KeyRotation" =>
          \E n \in Nat : f.payload = PayloadEncode(NewKey(n))

\* The flags of BindFrame::new announce the parts it is given.
LEMMA FlagBits ==
    ASSUME NEW x \in BOOLEAN, NEW y \in BOOLEAN
    PROVE  LET g == 8 * AsBit(x) + 16 * AsBit(y) IN
           g \in Byte /\ Bit(g, 8) = x /\ Bit(g, 16) = y
BY DEF AsBit, Bit, Byte

LEMMA NewIsBuilt ==
    ASSUME NEW b \in Byte, NEW p \in PfpHeader \cup {None}, Clean(p) = p,
           NEW s \in SapHeader \cup {None}, NEW n \in Nat,
           BindFrameNew(FrameTypeFromByte(b), 1, 0, p, s,
                        Payload(FrameTypeFromByte(b), n)).ok
    PROVE  Built(BindFrameNew(FrameTypeFromByte(b), 1, 0, p, s,
                              Payload(FrameTypeFromByte(b), n)).value)
<1> DEFINE t == FrameTypeFromByte(b)
           y == Payload(t, n)
           g == 8 * AsBit(p # None) + 16 * AsBit(s # None)
           h == [frame_type |-> t, channel_id |-> 1, flags |-> g,
                 sequence_id |-> 0, payload_length |-> Len(y)]
           f == [header |-> h, pfp |-> p, sap |-> s, payload |-> y]
<1>1. ~Err("BufferOverflow").ok /\ ~Err("SapWithoutPfp").ok
  BY DEF Err
<1>2. ~(Len(y) > MaxPayload) /\ BindFrameNew(t, 1, 0, p, s, y) = Ok(f)
  BY <1>1, Zenon DEF BindFrameNew, BindHeaderNew
<1>3. BindFrameNew(t, 1, 0, p, s, y).value = f
  BY <1>2 DEF Ok
<1>4. y \in Seq(Byte)
  BY PayloadIsBytes
<1>5. t.name = "KeyRotation" => y = PayloadEncode(NewKey(n))
  BY DEF Payload
<1>6. t \in FrameType
  BY DEF FrameType
<1>7. g \in Byte /\ (Bit(g, 8) <=> p # None) /\ (Bit(g, 16) <=> s # None)
  BY FlagBits
<1> HIDE DEF t, y, g
<1>8. h \in Header
  <2>1. Len(y) \in 0 .. MaxPayload
    BY <1>2, <1>4, MaxPayloadAssumption
  <2>2. 0 \in Byte /\ 1 \in Byte
    BY DEF Byte
  <2> QED
    BY <1>6, <1>7, <2>1, <2>2 DEF Header
<1>9. h.flags = g /\ h.payload_length = Len(y) /\ h.frame_type = t
  OBVIOUS
<1> HIDE DEF h
<1>10. IsFrame(f)
  BY <1>4, <1>7, <1>8, <1>9 DEF IsFrame, HasPfp, HasSap
<1>11. Built(f)
  BY <1>5, <1>9, <1>10 DEF Built
<1> QED
  BY <1>3, <1>11 DEF t, y

----------------------------------------------------------------------------
(* The relay *)

WireInv ==
    /\ wire \in Seq(Byte) /\ got \in 0 .. Len(wire)
    /\ built # None => Built(built) /\ wire = Encode(built)

LEMMA SapIs ==
    ASSUME NEW n \in Word
    PROVE  Sap(n) \in SapHeader
<1>1. [i \in 1 .. ProofSize |-> 170] \in [1 .. ProofSize -> Byte]
  BY DEF Byte
<1>2. SapVersion \in 0 .. 15
  BY DEF SapVersion
<1> QED
  BY <1>1, <1>2 DEF Sap, SapHeaderNew, SapHeader

LEMMA NewFrameIsBuilt ==
    ASSUME NEW b \in FrameTypes, NEW p \in Pfps, NEW n \in SeqCounters,
           NEW size \in PayloadSizes,
           NewFrame(FrameTypeFromByte(b), p, n, size).ok
    PROVE  Built(NewFrame(FrameTypeFromByte(b), p, n, size).value)
<1>1. b \in Byte /\ size \in Nat
  BY BytesAssumption
<1>2. p \in PfpHeader \cup {None} /\ Clean(p) = p
  <2>1. CASE p = None
    BY <2>1 DEF Clean
  <2>2. CASE p # None
    <3>1. p \in PfpHeader /\ p.reserved = 0
      BY <2>2, PfpsAssumption
    <3>2. [p EXCEPT !.reserved = 0] = p
      BY <3>1 DEF PfpHeader
    <3> QED
      BY <2>2, <3>1, <3>2 DEF Clean
  <2> QED
    BY <2>1, <2>2
<1> DEFINE s == IF n = None THEN None ELSE Sap(n)
<1>3. s \in SapHeader \cup {None}
  BY SapIs, SeqCountersAssumption
<1>4. NewFrame(FrameTypeFromByte(b), p, n, size)
        = BindFrameNew(FrameTypeFromByte(b), 1, 0, p, s,
                       Payload(FrameTypeFromByte(b), size))
  BY DEF NewFrame, BindFrameNewV1
<1> HIDE DEF s
<1> QED
  BY <1>1, <1>2, <1>3, <1>4, NewIsBuilt, Zenon

LEMMA InitWire == Init => WireInv
<1> SUFFICES ASSUME Init PROVE WireInv
  OBVIOUS
<1>1. CASE built = None /\ wire \in Foreign
  <2>1. wire \in Seq(Byte) /\ got = 0
    BY <1>1, ForeignAssumption DEF Init
  <2>2. got \in 0 .. Len(wire)
    BY <2>1
  <2> QED
    BY <1>1, <2>1, <2>2 DEF WireInv
<1>2. ASSUME NEW b \in FrameTypes, NEW p \in Pfps, NEW n \in SeqCounters,
             NEW size \in PayloadSizes,
             NewFrame(FrameTypeFromByte(b), p, n, size).ok,
             built = NewFrame(FrameTypeFromByte(b), p, n, size).value,
             wire = Encode(NewFrame(FrameTypeFromByte(b), p, n, size).value)
      PROVE  WireInv
  <2>1. Built(built) /\ wire = Encode(built) /\ got = 0
    BY <1>2, NewFrameIsBuilt DEF Init
  <2>2. wire \in Seq(Byte)
    BY <2>1, FrameParts DEF Built
  <2>3. got \in 0 .. Len(wire)
    BY <2>1, <2>2
  <2> QED
    BY <2>1, <2>2, <2>3 DEF WireInv
<1> QED
  BY <1>1, <1>2 DEF Init

\* What a frame is decided by, in any state that has all of a built one.
LEMMA WholeAnswer ==
    ASSUME WireInv, built # None, got = Len(wire)
    PROVE  Answer = Ok(built) /\ Arrived = wire
<1>1. Arrived = wire
  BY DEF WireInv, Arrived
<1>2. IsFrame(built) /\ Clean(built.pfp) = built.pfp
      /\ wire = Encode(built)
  BY DEF WireInv, Built
<1>3. Cleaned(built) = built
  BY <1>2 DEF Cleaned, IsFrame
<1> QED
  BY <1>1, <1>2, <1>3, DecodeEncode, Zenon DEF Answer

LEMMA ShortAnswer ==
    ASSUME WireInv, built # None, got < Len(wire)
    PROVE  Answer = Err(IF got < HeaderSize THEN "IncompleteHeader"
                                            ELSE "IncompleteFrame")
<1>1. IsFrame(built) /\ wire = Encode(built)
  BY DEF WireInv, Built
<1>2. got \in Nat /\ got < Len(Encode(built))
  BY <1>1 DEF WireInv
<1> QED
  BY <1>1, <1>2, EarlyAnswer DEF Answer, Arrived

LEMMA ArrivedBytes ==
    ASSUME WireInv
    PROVE  Arrived \in Seq(Byte)
BY DEF WireInv, Arrived

LEMMA NextWire == WireInv /\ [Next]_vars => WireInv'
<1> SUFFICES ASSUME WireInv, [Next]_vars PROVE WireInv'
  OBVIOUS
<1>1. CASE Arrive
  <2>1. wire' = wire /\ built' = built /\ got' = got + 1 /\ got < Len(wire)
    BY <1>1 DEF Arrive
  <2>2. got' \in 0 .. Len(wire')
    BY <2>1 DEF WireInv
  <2> QED
    BY <2>1, <2>2 DEF WireInv
<1>2. CASE Forward
  <2>1. /\ Answer.ok /\ wire' = Encode(Answer.value)
        /\ got' = Len(wire') /\ built' = built
    BY <1>2 DEF Forward
  <2>2. IsFrame(Answer.value)
    BY <2>1, ArrivedBytes, DecodedIsFrame DEF Answer
  <2>3. wire' \in Seq(Byte)
    BY <2>1, <2>2, FrameParts
  <2>4. got' \in 0 .. Len(wire')
    BY <2>1, <2>3
  <2>5. built # None => Answer = Ok(built)
    <3>1. built # None => ~(got < Len(wire))
      BY <2>1, ShortAnswer DEF Err
    <3>2. got <= Len(wire) /\ got \in Nat
      BY DEF WireInv
    <3>3. built # None => got = Len(wire)
      BY <3>1, <3>2 DEF WireInv
    <3> QED
      BY <3>3, WholeAnswer
  <2>6. built # None => wire' = Encode(built)
    BY <2>1, <2>5 DEF Ok
  <2> QED
    BY <2>1, <2>3, <2>4, <2>6 DEF WireInv
<1>3. CASE UNCHANGED vars
  BY <1>3 DEF WireInv, vars
<1> QED
  BY <1>1, <1>2, <1>3 DEF Next

LEMMA WireAlways == Spec => []WireInv
BY InitWire, NextWire, PTL DEF Spec

\* For every frame a sender can build and every limit: the beginning of a
\* frame is never taken for a frame, nor for a wrong one (BindFrame::decode).
THEOREM WaitsForTheFrame == Spec => []NoEarlyFrame
<1>1. WireInv => NoEarlyFrame
  BY ShortAnswer DEF NoEarlyFrame
<1> QED
  BY <1>1, WireAlways, PTL

\* Every frame that BindFrame::new builds arrives as it was built, whatever
\* its fields and however many relays decode and encode it again.
THEOREM FramesSurvive == Spec => []BuiltFrameSurvives
<1>1. WireInv => BuiltFrameSurvives
  BY WholeAnswer DEF BuiltFrameSurvives
<1> QED
  BY <1>1, WireAlways, PTL

\* So does the key in a KEY_ROTATION, of any length; and a payload that ends
\* before its nonce does is refused.
THEOREM KeysSurvive == Spec => []RotationKeySurvives
<1>1. WireInv => RotationKeySurvives
  <2> SUFFICES ASSUME WireInv, got = Len(wire), built # None,
                      built.header.frame_type.name = "KeyRotation"
               PROVE  /\ PayloadDecode(Answer.value.payload)
                         = Ok(NewKey(built.header.payload_length - NonceSize))
                      /\ \A m \in 0 .. NonceSize - 1 :
                            PayloadDecode(SubSeq(Answer.value.payload, 1, m))
                            = Err("PayloadTooShort")
    BY DEF RotationKeySurvives
  <2>1. Answer.value = built
    BY WholeAnswer DEF Ok
  <2>2. PICK n \in Nat : built.payload = PayloadEncode(NewKey(n))
    BY DEF WireInv, Built
  <2>3. built.header.payload_length = Len(built.payload)
    BY DEF WireInv, Built, IsFrame
  <2>4. built.header.payload_length - NonceSize = n
    BY <2>2, <2>3, NewKeyIs, ProofSizeAssumption
  <2>5. PICK b \in Seq(Byte) : b = built.payload /\ Len(b) = NonceSize + n
    BY <2>2, NewKeyIs
  <2>6. ASSUME NEW m \in 0 .. NonceSize - 1
        PROVE  PayloadDecode(SubSeq(b, 1, m)) = Err("PayloadTooShort")
    <3>1. Len(SubSeq(b, 1, m)) < NonceSize
      BY <2>5, ProofSizeAssumption
    <3> QED
      BY <3>1 DEF PayloadDecode
  <2> QED
    BY <2>1, <2>2, <2>4, <2>5, <2>6, NewKeyIs
<1> QED
  BY <1>1, WireAlways, PTL

\* Whatever bytes arrive, what decode accepts has the parts its flags
\* announce, in their ranges, and a payload of the announced size.
THEOREM AcceptedIsConsistent == Spec => []DecodedIsConsistent
<1>1. WireInv => DecodedIsConsistent
  <2> SUFFICES ASSUME WireInv, Answer.ok
               PROVE  LET f == Answer.value IN
                      /\ f.pfp \in IF HasPfp(f.header) THEN PfpHeader
                                                       ELSE {None}
                      /\ f.sap \in IF HasSap(f.header) THEN SapHeader
                                                       ELSE {None}
                      /\ Len(f.payload) = f.header.payload_length
                      /\ Len(f.payload) <= MaxPayload
    BY DEF DecodedIsConsistent
  <2>1. PICK f : f = Answer.value /\ IsFrame(f)
    BY ArrivedBytes, DecodedIsFrame DEF Answer
  <2>2. f.header.payload_length <= MaxPayload
    BY <2>1, MaxPayloadAssumption DEF IsFrame, Header
  <2> QED
    BY <2>1, <2>2 DEF IsFrame
<1> QED
  BY <1>1, WireAlways, PTL

\* The reserved bits of the PFP decide whether to negotiate, and nothing else.
LEMMA CleanDecides ==
    ASSUME NEW f, IsFrame(f)
    PROVE  /\ ~Negotiates(Cleaned(f))
           /\ Decision(Cleaned(f)) = Decision(f)
           /\ ~Negotiates(f) => Cleaned(f) = f
<1> DEFINE c == Cleaned(f)
<1>1. c.header = f.header /\ c.sap = f.sap /\ c.pfp = Clean(f.pfp)
  BY DEF Cleaned
<1>2. CASE f.pfp = None
  <2>1. Cleaned(f) = f
    BY <1>2 DEF Cleaned, Clean, IsFrame
  <2>2. ~Negotiates(f)
    BY <1>2 DEF Negotiates
  <2> QED
    BY <2>1, <2>2
<1>3. CASE f.pfp # None
  <2>1. f.pfp \in PfpHeader
    BY <1>3 DEF IsFrame
  <2>2. Clean(f.pfp) \in PfpHeader /\ Clean(f.pfp) # None
    BY <1>3, <2>1, NoPfpAssumption DEF Clean, PfpHeader
  <2>3. /\ Clean(f.pfp).risk_level = f.pfp.risk_level
        /\ Clean(f.pfp).override_flag = f.pfp.override_flag
        /\ Clean(f.pfp).replay_enable = f.pfp.replay_enable
    BY <1>3, <2>1 DEF Clean, PfpHeader
  <2>4. IsV1Compatible(c) = IsV1Compatible(f)
    BY <1>1, <1>3, <2>2 DEF IsV1Compatible
  <2>5. TriggersOverride(c) = TriggersOverride(f)
    BY <1>1, <1>3, <2>2, <2>3 DEF TriggersOverride, IsCatastrophicOverride
  <2>6. IsReplayDisabled(c) = IsReplayDisabled(f)
    BY <1>1, <1>3, <2>2, <2>3 DEF IsReplayDisabled
  <2>7. \A debug \in BOOLEAN :
           EffectiveRiskLevel(c, debug) = EffectiveRiskLevel(f, debug)
    BY <1>1, <1>3, <2>2, <2>3 DEF EffectiveRiskLevel, PfpRiskLevel
  <2>8. [debug \in BOOLEAN |-> EffectiveRiskLevel(c, debug)]
          = [debug \in BOOLEAN |-> EffectiveRiskLevel(f, debug)]
    BY <2>7
  <2>9. ~Negotiates(c)
    BY <1>1, <1>3, <2>1 DEF Clean, PfpHeader, Negotiates, HasUnknownReserved
  <2> HIDE DEF c
  <2>10. Decision(c) = Decision(f)
    BY <1>1, <2>4, <2>5, <2>6, <2>8, Zenon DEF Decision
  <2>11. ~Negotiates(f) => Cleaned(f) = f
    <3>1. ASSUME f.pfp.reserved = 0 PROVE Clean(f.pfp) = f.pfp
      BY <1>3, <2>1, <3>1 DEF Clean, PfpHeader
    <3> QED
      BY <1>3, <3>1 DEF Negotiates, HasUnknownReserved, Cleaned, IsFrame
  <2> QED
    BY <2>9, <2>10, <2>11 DEF c
<1> QED
  BY <1>2, <1>3

\* A relay loses whether a frame calls for a negotiation, whoever wrote the
\* frame, and nothing else of what it is decided by; nor does it change
\* anything of a frame without reserved bits.
THEOREM RelaysLoseOnlyReserved == Spec => RelayLosesOnlyReserved
<1> DEFINE Kept ==
      wire' # wire =>
         /\ Answer.ok /\ Answer'.ok
         /\ ~Negotiates(Answer'.value)
         /\ Decision(Answer'.value) = Decision(Answer.value)
         /\ ~Negotiates(Answer.value) => Answer'.value = Answer.value
<1>1. WireInv /\ [Next]_vars => Kept
  <2> SUFFICES ASSUME WireInv, [Next]_vars, wire' # wire
               PROVE  /\ Answer.ok /\ Answer'.ok
                      /\ ~Negotiates(Answer'.value)
                      /\ Decision(Answer'.value) = Decision(Answer.value)
                      /\ ~Negotiates(Answer.value) =>
                            Answer'.value = Answer.value
    OBVIOUS
  <2>1. Answer.ok /\ wire' = Encode(Answer.value) /\ got' = Len(wire')
    BY DEF Next, Arrive, Forward, vars
  <2>2. PICK f : f = Answer.value /\ IsFrame(f)
    BY <2>1, ArrivedBytes, DecodedIsFrame DEF Answer
  <2>3. PICK w \in Seq(Byte) : w = wire'
    BY <2>1, <2>2, FrameParts
  <2>4. SubSeq(w, 1, Len(w)) = w
    OBVIOUS
  <2>5. Answer' = Decode(w)
    BY <2>1, <2>3, <2>4 DEF Answer, Arrived
  <2>6. Answer' = Ok(Cleaned(f))
    BY <2>1, <2>2, <2>3, <2>5, DecodeEncode
  <2>7. Answer'.ok /\ Answer'.value = Cleaned(f)
    BY <2>6 DEF Ok
  <2> QED
    BY <2>1, <2>2, <2>7, CleanDecides, Zenon
<1>2. WireInv /\ [Next]_vars => [Kept]_vars
  BY <1>1
<1> QED
  BY <1>2, WireAlways, PTL DEF Spec, RelayLosesOnlyReserved

\* A frame that begins with another one is that one.
LEMMA NoFrameBeginsAnother ==
    ASSUME NEW f, IsFrame(f), NEW g, IsFrame(g),
           NEW n \in 0 .. Len(Encode(g)),
           Encode(f) = SubSeq(Encode(g), 1, n)
    PROVE  Encode(f) = Encode(g)
<1>1. PICK b \in Seq(Byte) : b = Encode(g)
  BY FrameParts
<1>2. Decode(SubSeq(b, 1, n)) = Ok(Cleaned(f))
  BY <1>1, DecodeEncode
<1>3. ASSUME n < Len(b) PROVE FALSE
  <2>1. PICK e : Decode(SubSeq(b, 1, n)) = Err(e)
    BY <1>1, <1>3, EarlyAnswer
  <2> QED
    BY <1>2, <2>1 DEF Ok, Err
<1>4. n = Len(b)
  BY <1>1, <1>3
<1>5. SubSeq(b, 1, n) = b
  BY <1>1, <1>4
<1> QED
  BY <1>1, <1>5

\* Where one byte string is the beginning of two, one of the two begins the
\* other.
LEMMA TwoBeginnings ==
    ASSUME NEW a \in Seq(Byte), NEW b \in Seq(Byte),
           NEW x \in Seq(Byte), NEW y \in Seq(Byte),
           a \o x = b \o y, Len(a) <= Len(b)
    PROVE  a = SubSeq(b, 1, Len(a))
<1>1. \A i \in 1 .. Len(a) : (a \o x)[i] = a[i] /\ (b \o y)[i] = b[i]
  OBVIOUS
<1>2. \A i \in 1 .. Len(a) : a[i] = b[i]
  BY <1>1
<1>3. /\ SubSeq(b, 1, Len(a)) \in Seq(Byte)
      /\ Len(SubSeq(b, 1, Len(a))) = Len(a)
      /\ \A i \in 1 .. Len(a) : SubSeq(b, 1, Len(a))[i] = b[i]
  OBVIOUS
<1>4. DOMAIN a = 1 .. Len(a) /\ DOMAIN SubSeq(b, 1, Len(a)) = 1 .. Len(a)
  BY <1>3
<1> QED
  BY <1>2, <1>3, <1>4

\* What follows the same bytes is the same if the whole is.
LEMMA SameRest ==
    ASSUME NEW a \in Seq(Byte), NEW x \in Seq(Byte), NEW y \in Seq(Byte),
           a \o x = a \o y
    PROVE  x = y
<1>1. Len(x) = Len(y)
  OBVIOUS
<1>2. ASSUME NEW i \in 1 .. Len(x) PROVE x[i] = y[i]
  <2>1. (a \o x)[Len(a) + i] = x[i] /\ (a \o y)[Len(a) + i] = y[i]
    BY <1>1, <1>2
  <2> QED
    BY <2>1
<1> QED
  BY <1>1, <1>2

\* Frames on a stream need no mark between them: whatever bytes follow, what
\* encode wrote for one frame cannot be read as another frame, only without
\* the reserved bits that decode drops (TotalFrameLength comes from the
\* header alone, BindFrame::decode).
THEOREM FramesAreSelfDelimiting ==
    ASSUME NEW f, IsFrame(f), NEW g, IsFrame(g),
           NEW x \in Seq(Byte), NEW y \in Seq(Byte),
           Encode(f) \o x = Encode(g) \o y
    PROVE  Cleaned(f) = Cleaned(g) /\ x = y
<1>1. PICK a \in Seq(Byte), b \in Seq(Byte) : a = Encode(f) /\ b = Encode(g)
  BY FrameParts
<1>2. Len(a) \in Nat /\ Len(b) \in Nat
  OBVIOUS
<1>3. a \o x = b \o y /\ b \o y = a \o x
  BY <1>1, Zenon
<1>4. ASSUME Len(a) <= Len(b) PROVE Encode(f) = Encode(g)
  <2>1. a = SubSeq(b, 1, Len(a))
    BY <1>3, <1>4, TwoBeginnings, Zenon
  <2>2. Len(a) \in 0 .. Len(b)
    BY <1>2, <1>4
  <2> QED
    BY <1>1, <2>1, <2>2, NoFrameBeginsAnother, Zenon
<1>5. ASSUME Len(b) <= Len(a) PROVE Encode(g) = Encode(f)
  <2>1. b = SubSeq(a, 1, Len(b))
    BY <1>3, <1>5, TwoBeginnings, Zenon
  <2>2. Len(b) \in 0 .. Len(a)
    BY <1>2, <1>5
  <2> QED
    BY <1>1, <2>1, <2>2, NoFrameBeginsAnother, Zenon
<1>6. a = b
  BY <1>1, <1>2, <1>4, <1>5
<1>7. Cleaned(f) = Cleaned(g)
  <2>1. Ok(Cleaned(f)) = Ok(Cleaned(g))
    BY <1>1, <1>6, DecodeEncode
  <2> QED
    BY <2>1 DEF Ok
<1>8. x = y
  BY <1>3, <1>6, SameRest, Zenon
<1> QED
  BY <1>7, <1>8

=============================================================================
