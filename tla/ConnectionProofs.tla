-------------------------- MODULE ConnectionProofs ---------------------------
(* Theorems about the reader of Connection, for every set of connections and    *)
(* everything clients may send: it keeps in step with the bytes, and so takes    *)
(* the items one by one, entire and in order.                                    *)
EXTENDS Connection, SequenceTheorems, TLAPS

-----------------------------------------------------------------------------
(* The bytes of a connection. *)

Part == {"line", "end", "body", "op", "len", "ext", "key", "pay"}
Byte == [item : Nat, part : Part]

HeadLength(x) == IF x.long THEN 6 ELSE 4

\* The bytes s are those of the items of a behind the first t, one after the other;
\* off[i] is where the i-th ends.
Lays(off, a, t, s) ==
  /\ \A i \in 1 .. Len(a) : off[i] = off[i - 1] + Len(Parts(a[i]))
  /\ \A i, j \in 0 .. Len(a) : i <= j => off[i] <= off[j]
  /\ Len(s) = off[Len(a)] - off[t]
  /\ \A i \in t + 1 .. Len(a) : \A k \in 1 .. Len(Parts(a[i])) :
       s[off[i - 1] - off[t] + k] = [item |-> i, part |-> Parts(a[i])[k]]

Streams(a, t, s) == \E off \in [0 .. Len(a) -> Nat] : Lays(off, a, t, s)

\* A part that is repeated, and two that come together.
LEMMA Repeated ==
  ASSUME NEW n \in Nat, NEW p \in Part
  PROVE  [k \in 1 .. n |-> p] \in Seq(Part) /\ Len([k \in 1 .. n |-> p]) = n
OBVIOUS

LEMMA Pair ==
  ASSUME NEW p \in Part, NEW q \in Part
  PROVE  /\ <<p, q>> \in Seq(Part) /\ Len(<<p, q>>) = 2
         /\ <<p, q>>[1] = p /\ <<p, q>>[2] = q
OBVIOUS

LEMMA Joined ==
  ASSUME NEW s \in Seq(Part), NEW t \in Seq(Part)
  PROVE  /\ s \o t \in Seq(Part) /\ Len(s \o t) = Len(s) + Len(t)
         /\ \A k \in 1 .. Len(s) : (s \o t)[k] = s[k]
OBVIOUS

\* What is on the wire of a request,
LEMMA RequestParts ==
  ASSUME NEW x, x.kind \in Requests
  PROVE  /\ Parts(x) \in Seq(Part) /\ Len(Parts(x)) = 2 + ContentLength(x)
         /\ ContentLength(x) \in {0, 1}
         /\ Parts(x)[1] = "line" /\ Parts(x)[2] = "end"
<1> DEFINE b == [k \in 1 .. ContentLength(x) |-> "body"]
<1>1. ContentLength(x) \in {0, 1}
  BY DEF ContentLength
<1>2. "body" \in Part /\ "line" \in Part /\ "end" \in Part
  BY DEF Part
<1>3. b \in Seq(Part) /\ Len(b) = ContentLength(x)
  BY <1>1, <1>2, Repeated
<1>4. Parts(x) = <<"line", "end">> \o b
  BY DEF Parts
<1>5. /\ <<"line", "end">> \in Seq(Part) /\ Len(<<"line", "end">>) = 2
      /\ <<"line", "end">>[1] = "line" /\ <<"line", "end">>[2] = "end"
  BY <1>2, Pair
<1> HIDE DEF b
<1>6. /\ Parts(x) \in Seq(Part) /\ Len(Parts(x)) = 2 + Len(b)
      /\ \A k \in 1 .. 2 : Parts(x)[k] = <<"line", "end">>[k]
  BY <1>3, <1>4, <1>5, Joined
<1> QED
  BY <1>1, <1>3, <1>5, <1>6

\* and of a frame.
LEMMA FrameParts ==
  ASSUME NEW x, x.kind \notin Requests, x.size \in Nat
  PROVE  Parts(x) \in Seq(Part) /\ Len(Parts(x)) = HeadLength(x) + x.size
<1> DEFINE o == <<"op", "len">>
           e == IF x.long THEN <<"ext", "ext">> ELSE <<>>
           m == <<"key", "key">>
           p == [k \in 1 .. x.size |-> "pay"]
<1>1. {"op", "len", "ext", "key", "pay"} \subseteq Part
  BY DEF Part
<1>2. o \in Seq(Part) /\ Len(o) = 2 /\ m \in Seq(Part) /\ Len(m) = 2
  BY <1>1, Pair
<1>3. p \in Seq(Part) /\ Len(p) = x.size
  BY <1>1, Repeated
<1>4. e \in Seq(Part) /\ Len(e) = IF x.long THEN 2 ELSE 0
  <2>1. CASE x.long
    BY <1>1, <2>1, Pair
  <2>2. CASE ~ x.long
    BY <2>2
  <2> QED
    BY <2>1, <2>2
<1>5. Parts(x) = ((o \o e) \o m) \o p
  <2>1. Parts(x) = <<"op", "len">> \o (IF x.long THEN <<"ext", "ext">> ELSE <<>>)
                     \o <<"key", "key">> \o [k \in 1 .. x.size |-> "pay"]
    BY DEF Parts
  <2> QED
    BY <2>1
<1> HIDE DEF o, e, m, p
<1>6. o \o e \in Seq(Part) /\ Len(o \o e) = 2 + Len(e)
  <2>1. o \in Seq(Part) /\ e \in Seq(Part) /\ Len(o) = 2
    BY <1>2, <1>4
  <2>2. o \o e \in Seq(Part) /\ Len(o \o e) = Len(o) + Len(e)
    BY <2>1, Joined
  <2> QED
    BY <2>1, <2>2
<1>7. (o \o e) \o m \in Seq(Part) /\ Len((o \o e) \o m) = 2 + Len(e) + 2
  BY <1>2, <1>6, Joined
<1>8. Parts(x) \in Seq(Part) /\ Len(Parts(x)) = 2 + Len(e) + 2 + x.size
  <2>1. PICK h \in Seq(Part) : h = (o \o e) \o m
    BY <1>7
  <2>2. h \o p \in Seq(Part) /\ Len(h \o p) = Len(h) + Len(p)
    BY <1>3, Joined
  <2> QED
    BY <1>3, <1>5, <1>7, <2>1, <2>2
<1> QED
  BY <1>4, <1>8 DEF HeadLength

\* The token of an item is not among its parts.
LEMMA PartsOf ==
  ASSUME NEW x \in Item, NEW t \in Token \cup {NoToken}
  PROVE  /\ [x EXCEPT !.tok = t] \in Item
         /\ [x EXCEPT !.tok = t].kind = x.kind
         /\ Parts([x EXCEPT !.tok = t]) = Parts(x)
         /\ Parts(x) \in Seq(Part) /\ Len(Parts(x)) > 0
<1>1. CASE x \in [kind : Requests, user : User \cup {NoUser}, password : Password \cup {NoPassword},
                  tok : Token \cup {NoToken}, keep : BOOLEAN]
  <2>1. /\ [x EXCEPT !.tok = t] \in Item
        /\ [x EXCEPT !.tok = t].kind = x.kind /\ x.kind \in Requests
    BY <1>1 DEF Item
  <2>2. Parts([x EXCEPT !.tok = t]) = Parts(x)
    BY <2>1, Zenon DEF Parts, ContentLength
  <2>3. Parts(x) \in Seq(Part) /\ Len(Parts(x)) = 2 + ContentLength(x) /\ ContentLength(x) \in {0, 1}
    BY <2>1, RequestParts
  <2> QED
    BY <2>1, <2>2, <2>3
<1>2. CASE x \in [kind : Frames, long : BOOLEAN, size : Nat, tok : Token \cup {NoToken}]
  <2>1. /\ [x EXCEPT !.tok = t] \in Item /\ x.size \in Nat
        /\ [x EXCEPT !.tok = t].kind = x.kind /\ x.kind \in Frames
        /\ [x EXCEPT !.tok = t].long = x.long /\ [x EXCEPT !.tok = t].size = x.size
    BY <1>2 DEF Item
  <2>2. x.kind \notin Requests
    BY <2>1 DEF Frames, Requests, Posts
  <2> QED
    BY <2>1, <2>2, FrameParts DEF Parts, HeadLength
<1> QED
  BY <1>1, <1>2 DEF Item

LEMMA BytesOf ==
  ASSUME NEW x, Parts(x) \in Seq(Part), NEW i \in Nat
  PROVE  /\ Bytes(x, i) \in Seq(Byte) /\ Len(Bytes(x, i)) = Len(Parts(x))
         /\ \A k \in 1 .. Len(Parts(x)) : Bytes(x, i)[k] = [item |-> i, part |-> Parts(x)[k]]
BY DEF Bytes, Byte

-----------------------------------------------------------------------------
(* Streams: an item is added, bytes move, an item is taken. *)

\* The first n of a sequence, and the rest.
LEMMA Cut ==
  ASSUME NEW S, NEW s \in Seq(S), NEW n \in 0 .. Len(s)
  PROVE  /\ SubSeq(s, 1, n) \in Seq(S) /\ Len(SubSeq(s, 1, n)) = n
         /\ \A i \in 1 .. n : SubSeq(s, 1, n)[i] = s[i]
         /\ SubSeq(s, n + 1, Len(s)) \in Seq(S) /\ Len(SubSeq(s, n + 1, Len(s))) = Len(s) - n
         /\ \A i \in 1 .. Len(s) - n : SubSeq(s, n + 1, Len(s))[i] = s[i + n]
<1>1. Len(s) \in Nat /\ n \in Nat /\ n <= Len(s) /\ \A i \in 1 .. Len(s) : s[i] \in S
  OBVIOUS
<1>2. /\ SubSeq(s, 1, n) \in Seq(S) /\ Len(SubSeq(s, 1, n)) = IF 1 <= n THEN n - 1 + 1 ELSE 0
      /\ \A i \in 1 .. n - 1 + 1 : SubSeq(s, 1, n)[i] = s[1 + i - 1]
  <2>1. \A i \in 1 .. n : s[i] \in S
    BY <1>1
  <2>2. 1 \in Int /\ n \in Int
    BY <1>1
  <2> QED
    BY <2>1, <2>2, SubSeqProperties
<1>3. /\ SubSeq(s, n + 1, Len(s)) \in Seq(S)
      /\ Len(SubSeq(s, n + 1, Len(s))) = IF n + 1 <= Len(s) THEN Len(s) - (n + 1) + 1 ELSE 0
      /\ \A i \in 1 .. Len(s) - (n + 1) + 1 : SubSeq(s, n + 1, Len(s))[i] = s[(n + 1) + i - 1]
  <2>1. \A i \in n + 1 .. Len(s) : s[i] \in S
    BY <1>1
  <2>2. n + 1 \in Int /\ Len(s) \in Int
    BY <1>1
  <2> QED
    BY <2>1, <2>2, SubSeqProperties
<1>4. n - 1 + 1 = n /\ Len(s) - (n + 1) + 1 = Len(s) - n
  BY <1>1
<1>5. \A i \in Nat : 1 + i - 1 = i /\ (n + 1) + i - 1 = i + n
  BY <1>1
<1>6. /\ Len(SubSeq(s, 1, n)) = n /\ Len(SubSeq(s, n + 1, Len(s))) = Len(s) - n
  BY <1>1, <1>2, <1>3
<1>7. \A i \in 1 .. n : SubSeq(s, 1, n)[i] = s[i]
  BY <1>1, <1>2, <1>4, <1>5
<1>8. \A i \in 1 .. Len(s) - n : SubSeq(s, n + 1, Len(s))[i] = s[i + n]
  BY <1>1, <1>3, <1>4, <1>5
<1> QED
  BY <1>2, <1>3, <1>6, <1>7, <1>8

LEMMA Associates ==
  ASSUME NEW S, NEW s \in Seq(S), NEW u \in Seq(S), NEW v \in Seq(S)
  PROVE  (s \o u) \o v = s \o (u \o v)
BY ConcatAssociative

\* Bytes go from one buffer to the other,
LEMMA Moved ==
  ASSUME NEW S, NEW s \in Seq(S), NEW w \in Seq(S), NEW n \in 1 .. Len(w)
  PROVE  /\ s \o SubSeq(w, 1, n) \in Seq(S) /\ Len(s \o SubSeq(w, 1, n)) = Len(s) + n
         /\ SubSeq(w, n + 1, Len(w)) \in Seq(S)
         /\ (s \o SubSeq(w, 1, n)) \o SubSeq(w, n + 1, Len(w)) = s \o w
<1>0. Len(w) \in Nat /\ n \in Nat /\ n \in 0 .. Len(w)
  OBVIOUS
<1>1. /\ SubSeq(w, 1, n) \in Seq(S) /\ Len(SubSeq(w, 1, n)) = n
      /\ SubSeq(w, n + 1, Len(w)) \in Seq(S)
  BY <1>0, Cut
<1>2. SubSeq(w, 1, n) \o SubSeq(w, n + 1, Len(w)) = w
  <2>1. 1 \in 1 .. Len(w) + 1 /\ n \in 1 - 1 .. Len(w) /\ Len(w) \in n .. Len(w)
    BY <1>0
  <2>2. SubSeq(w, 1, n) \o SubSeq(w, n + 1, Len(w)) = SubSeq(w, 1, Len(w))
    BY <2>1, ConcatAdjacentSubSeq
  <2>3. SubSeq(w, 1, Len(w)) = w
    BY SubSeqFull
  <2> QED
    BY <2>2, <2>3
<1>3. (s \o SubSeq(w, 1, n)) \o SubSeq(w, n + 1, Len(w)) = s \o w
  <2>1. PICK u \in Seq(S) : u = SubSeq(w, 1, n)
    BY <1>1
  <2>2. PICK v \in Seq(S) : v = SubSeq(w, n + 1, Len(w))
    BY <1>1
  <2>3. (s \o u) \o v = s \o (u \o v)
    BY Associates, SMTT(30)
  <2>4. u \o v = w
    BY <1>2, <2>1, <2>2
  <2>5. (s \o u) \o v = s \o w
    BY <2>3, <2>4
  <2> QED
    BY <2>1, <2>2, <2>5
<1>4. s \o SubSeq(w, 1, n) \in Seq(S) /\ Len(s \o SubSeq(w, 1, n)) = Len(s) + n
  BY <1>1, ConcatProperties
<1> QED
  BY <1>1, <1>2, <1>3, <1>4

\* and those that are read first are first in both.
LEMMA Parted ==
  ASSUME NEW S, NEW s \in Seq(S), NEW w \in Seq(S), NEW n \in 0 .. Len(s)
  PROVE  /\ SubSeq(s \o w, 1, n) = SubSeq(s, 1, n)
         /\ SubSeq(s, n + 1, Len(s)) \in Seq(S)
         /\ SubSeq(s \o w, n + 1, Len(s \o w)) = SubSeq(s, n + 1, Len(s)) \o w
<1>0. Len(s) \in Nat /\ Len(w) \in Nat /\ n \in Nat /\ n <= Len(s)
  OBVIOUS
<1> DEFINE z == s \o w
<1>1. /\ z \in Seq(S) /\ Len(z) = Len(s) + Len(w)
      /\ \A i \in 1 .. Len(s) + Len(w) : z[i] = IF i <= Len(s) THEN s[i] ELSE w[i - Len(s)]
  BY ConcatProperties
<1> HIDE DEF z
<1>2. n \in 0 .. Len(z)
  BY <1>0, <1>1
<1>3. /\ SubSeq(s, 1, n) \in Seq(S) /\ Len(SubSeq(s, 1, n)) = n
      /\ \A i \in 1 .. n : SubSeq(s, 1, n)[i] = s[i]
      /\ SubSeq(s, n + 1, Len(s)) \in Seq(S) /\ Len(SubSeq(s, n + 1, Len(s))) = Len(s) - n
      /\ \A i \in 1 .. Len(s) - n : SubSeq(s, n + 1, Len(s))[i] = s[i + n]
  BY Cut
<1>4. /\ SubSeq(z, 1, n) \in Seq(S) /\ Len(SubSeq(z, 1, n)) = n
      /\ \A i \in 1 .. n : SubSeq(z, 1, n)[i] = z[i]
      /\ SubSeq(z, n + 1, Len(z)) \in Seq(S) /\ Len(SubSeq(z, n + 1, Len(z))) = Len(z) - n
      /\ \A i \in 1 .. Len(z) - n : SubSeq(z, n + 1, Len(z))[i] = z[i + n]
  BY <1>1, <1>2, Cut
<1> DEFINE a == SubSeq(s, 1, n)
           b == SubSeq(s, n + 1, Len(s))
           c == SubSeq(z, 1, n)
           d == SubSeq(z, n + 1, Len(z))
<1>5. /\ a \in Seq(S) /\ Len(a) = n /\ \A i \in 1 .. n : a[i] = s[i]
      /\ b \in Seq(S) /\ Len(b) = Len(s) - n /\ \A i \in 1 .. Len(s) - n : b[i] = s[i + n]
      /\ c \in Seq(S) /\ Len(c) = n /\ \A i \in 1 .. n : c[i] = z[i]
      /\ d \in Seq(S) /\ Len(d) = Len(s) + Len(w) - n
      /\ \A i \in 1 .. Len(s) + Len(w) - n : d[i] = z[i + n]
  BY <1>1, <1>3, <1>4
<1>6. /\ b \o w \in Seq(S) /\ Len(b \o w) = Len(b) + Len(w)
      /\ \A i \in 1 .. Len(b) + Len(w) : (b \o w)[i] = IF i <= Len(b) THEN b[i] ELSE w[i - Len(b)]
  <2>1. b \in Seq(S)
    BY <1>5
  <2> HIDE DEF b
  <2> QED
    BY <2>1, ConcatProperties
<1> HIDE DEF a, b, c, d
<1>7. a = c
  <2>1. \A i \in 1 .. n : a[i] = c[i]
    BY <1>0, <1>1, <1>5
  <2> QED
    BY <1>5, <2>1, SeqEqual
<1>8. d = b \o w
  <2>1. Len(d) = Len(b \o w)
    BY <1>0, <1>5, <1>6
  <2>2. ASSUME NEW i \in 1 .. Len(d)
        PROVE  d[i] = (b \o w)[i]
    <3>1. i + n \in 1 .. Len(s) + Len(w) /\ d[i] = z[i + n]
      BY <1>0, <1>5
    <3>2. CASE i <= Len(s) - n
      <4>1. i + n <= Len(s) /\ i \in 1 .. Len(b) /\ i \in 1 .. Len(b) + Len(w) /\ i \in 1 .. Len(s) - n
        BY <1>0, <1>5, <3>2
      <4> QED
        BY <1>1, <1>5, <1>6, <3>1, <4>1
    <3>3. CASE ~ (i <= Len(s) - n)
      <4>1. ~ (i + n <= Len(s)) /\ ~ (i <= Len(b)) /\ i \in 1 .. Len(b) + Len(w)
            /\ (i + n) - Len(s) = i - Len(b)
        BY <1>0, <1>5, <3>3
      <4> QED
        BY <1>1, <1>6, <3>1, <4>1
    <3> QED
      BY <3>2, <3>3
  <2> QED
    BY <1>5, <1>6, <2>1, <2>2, SeqEqual
<1> QED
  BY <1>5, <1>7, <1>8 DEF a, b, c, d, z

LEMMA MovedBytes ==
  \A s, w \in Seq(Byte) : \A n \in 1 .. Len(w) :
    /\ s \o SubSeq(w, 1, n) \in Seq(Byte) /\ Len(s \o SubSeq(w, 1, n)) = Len(s) + n
    /\ SubSeq(w, n + 1, Len(w)) \in Seq(Byte)
    /\ (s \o SubSeq(w, 1, n)) \o SubSeq(w, n + 1, Len(w)) = s \o w
BY Moved, Zenon

LEMMA PartedBytes ==
  \A s, w \in Seq(Byte) : \A n \in 0 .. Len(s) :
    /\ SubSeq(s \o w, 1, n) = SubSeq(s, 1, n)
    /\ SubSeq(s, n + 1, Len(s)) \in Seq(Byte)
    /\ SubSeq(s \o w, n + 1, Len(s \o w)) = SubSeq(s, n + 1, Len(s)) \o w
BY Parted, Zenon

\* Nothing has been sent.
LEMMA StreamsNone == Streams(<<>>, 0, <<>>)
<1> DEFINE off == [i \in 0 .. 0 |-> 0]
<1>1. off \in [0 .. 0 -> Nat] /\ \A i \in 0 .. 0 : off[i] = 0
  OBVIOUS
<1>2. Len(<<>>) = 0
  OBVIOUS
<1> HIDE DEF off
<1>3. /\ 1 .. 0 = {} /\ 0 + 1 .. 0 = {} /\ 0 \in 0 .. 0 /\ off[0] = 0
  BY <1>1
<1>4. Lays(off, <<>>, 0, <<>>)
  <2>1. \A i, j \in 0 .. 0 : i <= j => off[i] <= off[j]
    BY <1>1
  <2> QED
    BY <1>1, <1>2, <1>3, <2>1 DEF Lays
<1> QED
  BY <1>1, <1>2, <1>4 DEF Streams

LEMMA Inside ==
  \A a, b, m, k \in Nat : a <= b /\ 0 < k /\ b + k <= m => b - a + k \in 1 .. m - a
OBVIOUS

LEMMA Shifted ==
  \A a, b, c, n, k \in Nat : c = a + n => (b - c + k) + n = b - a + k
OBVIOUS

LEMMA Behind ==
  \A a, b, k \in Nat : 0 < k /\ k <= b =>
    a + k \in 1 .. a + b /\ ~ (a + k <= a) /\ (a + k) - a = k
OBVIOUS

LEMMA Below ==
  \A a, b, c, k \in Nat : a + k <= b /\ b <= c => a + k <= c
OBVIOUS

\* One more item.
LEMMA StreamsMore ==
  ASSUME NEW a \in Seq(Item), NEW t \in 0 .. Len(a), NEW s \in Seq(Byte), Streams(a, t, s),
         NEW x \in Item, NEW y, Parts(y) = Parts(x)
  PROVE  Streams(Append(a, x), t, s \o Bytes(y, Len(a) + 1))
<1> DEFINE m == Len(a)
           p == Parts(x)
           b == Bytes(y, Len(a) + 1)
           a1 == Append(a, x)
<1>0. m \in Nat /\ t \in Nat /\ t <= m
  OBVIOUS
<1>1. PICK off \in [0 .. m -> Nat] : Lays(off, a, t, s)
  BY DEF Streams
<1>2. p \in Seq(Part) /\ Len(p) \in Nat /\ Len(p) > 0
  <2>1. NoToken \in Token \cup {NoToken}
    OBVIOUS
  <2>2. p \in Seq(Part) /\ Len(p) > 0
    BY <2>1, PartsOf
  <2> HIDE DEF p
  <2> QED
    BY <2>2, LenProperties
<1>3. /\ b \in Seq(Byte) /\ Len(b) = Len(p)
      /\ \A k \in 1 .. Len(p) : b[k] = [item |-> m + 1, part |-> p[k]]
  <2>1. Parts(y) \in Seq(Part) /\ m + 1 \in Nat
    BY <1>0, <1>2
  <2> QED
    BY <2>1, BytesOf
<1>4. /\ a1 \in Seq(Item) /\ Len(a1) = m + 1 /\ a1[m + 1] = x
      /\ \A i \in 1 .. m : a1[i] = a[i]
  BY AppendProperties
<1> DEFINE z == s \o b
<1>5. /\ z \in Seq(Byte) /\ Len(z) = Len(s) + Len(b)
      /\ \A i \in 1 .. Len(s) + Len(b) : z[i] = IF i <= Len(s) THEN s[i] ELSE b[i - Len(s)]
  <2>1. b \in Seq(Byte)
    BY <1>3
  <2> HIDE DEF b
  <2> QED
    BY <2>1, ConcatProperties
<1> HIDE DEF m, p, b, a1, z
<1> DEFINE off1 == [i \in 0 .. m + 1 |-> IF i = m + 1 THEN off[m] + Len(p) ELSE off[i]]
<1>6. /\ off1 \in [0 .. m + 1 -> Nat] /\ off1[m + 1] = off[m] + Len(p)
      /\ \A i \in 0 .. m : off1[i] = off[i]
  BY <1>0, <1>2
<1> HIDE DEF off1
<1>7. /\ \A i \in 1 .. m : off[i] = off[i - 1] + Len(Parts(a[i]))
      /\ \A i, j \in 0 .. m : i <= j => off[i] <= off[j]
      /\ Len(s) = off[m] - off[t]
      /\ \A i \in t + 1 .. m : \A k \in 1 .. Len(Parts(a[i])) :
           s[off[i - 1] - off[t] + k] = [item |-> i, part |-> Parts(a[i])[k]]
  BY <1>1 DEF Lays, m
<1>8. \A i \in 1 .. m + 1 : off1[i] = off1[i - 1] + Len(Parts(a1[i]))
  <2> TAKE i \in 1 .. m + 1
  <2>1. CASE i = m + 1
    <3>1. off1[i - 1] = off[m] /\ Parts(a1[i]) = p
      BY <1>0, <1>4, <1>6, <2>1 DEF p
    <3> QED
      BY <1>6, <2>1, <3>1
  <2>2. CASE i \in 1 .. m
    <3>1. off1[i - 1] = off[i - 1] /\ off1[i] = off[i] /\ a1[i] = a[i]
      BY <1>0, <1>4, <1>6, <2>2
    <3> QED
      BY <1>7, <2>2, <3>1
  <2> QED
    BY <1>0, <2>1, <2>2
<1>9. \A i, j \in 0 .. m + 1 : i <= j => off1[i] <= off1[j]
  <2> TAKE i, j \in 0 .. m + 1
  <2> HAVE i <= j
  <2>1. CASE j \in 0 .. m
    <3>1. i \in 0 .. m /\ off1[i] = off[i] /\ off1[j] = off[j]
      BY <1>0, <1>6, <2>1
    <3> QED
      BY <1>7, <2>1, <3>1
  <2>2. CASE j = m + 1 /\ i \in 0 .. m
    <3>1. off[i] <= off[m] /\ off1[i] = off[i] /\ off[i] \in Nat /\ off[m] \in Nat
      BY <1>0, <1>1, <1>6, <1>7, <2>2
    <3> QED
      BY <1>2, <1>6, <2>2, <3>1
  <2>3. CASE j = m + 1 /\ i = m + 1
    BY <1>0, <1>6, <2>3
  <2> QED
    BY <1>0, <2>1, <2>2, <2>3
<1>10. /\ off[m] \in Nat /\ off[t] \in Nat /\ off[t] <= off[m] /\ off1[t] = off[t]
       /\ Len(s) \in Nat /\ Len(s) = off[m] - off[t]
  <2>1. off[m] \in Nat /\ off[t] \in Nat
    BY <1>0, <1>1
  <2>2. off[t] <= off[m]
    BY <1>0, <1>7
  <2>3. off1[t] = off[t]
    BY <1>0, <1>6
  <2>4. Len(s) \in Nat
    OBVIOUS
  <2> QED
    BY <1>7, <2>1, <2>2, <2>3, <2>4
<1>11. Len(z) = off1[m + 1] - off1[t]
  BY <1>2, <1>3, <1>5, <1>6, <1>7, <1>10
<1>12. ASSUME NEW i \in t + 1 .. m + 1, NEW k \in 1 .. Len(Parts(a1[i]))
       PROVE  z[off1[i - 1] - off1[t] + k] = [item |-> i, part |-> Parts(a1[i])[k]]
  <2>1. CASE i = m + 1
    <3>1. off1[i - 1] = off[m] /\ Parts(a1[i]) = p
      BY <1>0, <1>4, <1>6, <2>1 DEF p
    <3>2. off1[i - 1] - off1[t] = Len(s)
      BY <1>10, <3>1
    <3>2a. k \in 1 .. Len(p) /\ Len(b) = Len(p)
      BY <1>3, <3>1
    <3>2b. k \in Nat /\ Len(s) + k \in 1 .. Len(s) + Len(b)
           /\ ~ (Len(s) + k <= Len(s)) /\ (Len(s) + k) - Len(s) = k
      <4>1. Len(s) \in Nat /\ Len(b) \in Nat /\ k \in Nat /\ 0 < k /\ k <= Len(b)
        BY <1>2, <1>10, <3>2a
      <4> QED
        BY <4>1, Behind
    <3>3. z[Len(s) + k] = b[k]
      BY <1>5, <3>2b
    <3>4. b[k] = [item |-> m + 1, part |-> p[k]]
      BY <1>3, <3>2a
    <3> QED
      BY <2>1, <3>1, <3>2, <3>3, <3>4
  <2>2. CASE i \in t + 1 .. m
    <3>0. i \in 1 .. m /\ i - 1 \in 0 .. m /\ i \in 0 .. m
      BY <1>0, <2>2
    <3>1. /\ off1[i - 1] = off[i - 1] /\ a1[i] = a[i] /\ off[i] = off[i - 1] + Len(Parts(a[i]))
          /\ off[i - 1] \in Nat /\ off[i] \in Nat
      BY <1>1, <1>4, <1>6, <1>7, <3>0
    <3>2. off[t] <= off[i - 1] /\ off[i] <= off[m] /\ k \in 1 .. Len(Parts(a[i]))
      <4>1. t \in 0 .. m /\ m \in 0 .. m /\ t <= i - 1 /\ i <= m
        BY <1>0, <2>2
      <4>2. off[t] <= off[i - 1]
        BY <1>7, <3>0, <4>1
      <4>3. off[i] <= off[m]
        BY <1>7, <3>0, <4>1
      <4> QED
        BY <3>1, <4>2, <4>3
    <3>3. Len(Parts(a[i])) \in Nat
      <4>1. off[i] - off[i - 1] \in Int
        BY <3>1
      <4>2. a[i] \in Item /\ NoToken \in Token \cup {NoToken}
        BY <1>0, <2>2 DEF m
      <4>3. Parts(a[i]) \in Seq(Part)
        BY <4>2, PartsOf
      <4> QED
        BY <4>3, LenProperties
    <3>4. off1[i - 1] - off1[t] + k = off[i - 1] - off[t] + k
      BY <1>10, <3>1
    <3>4a. off[i - 1] - off[t] + k \in 1 .. Len(s)
      <4>1. k \in Nat /\ k > 0 /\ k <= Len(Parts(a[i]))
        BY <3>2, <3>3
      <4>2. off[i - 1] + k <= off[i] /\ off[i] <= off[m]
        BY <3>1, <3>2, <3>3, <4>1
      <4>3. off[i - 1] + k <= off[m] /\ off[t] <= off[i - 1]
        BY <1>10, <3>1, <3>2, <4>1, <4>2, Below
      <4> QED
        BY <1>10, <3>1, <4>1, <4>3, Inside
    <3>5. s[off[i - 1] - off[t] + k] = [item |-> i, part |-> Parts(a[i])[k]]
      BY <1>7, <2>2, <3>2
    <3>6. z[off[i - 1] - off[t] + k] = s[off[i - 1] - off[t] + k]
      <4>1. Len(b) \in Nat
        BY <1>2, <1>3
      <4> DEFINE q == off[i - 1] - off[t] + k
      <4>2. q \in 1 .. Len(s)
        BY <3>4a
      <4> HIDE DEF q
      <4>3. q \in 1 .. Len(s) + Len(b) /\ q <= Len(s)
        BY <1>10, <4>1, <4>2
      <4>4. z[q] = s[q]
        BY <1>5, <4>3
      <4> QED
        BY <4>4 DEF q
    <3> QED
      BY <3>1, <3>4, <3>5, <3>6
  <2> QED
    BY <1>0, <2>1, <2>2
<1>13. Lays(off1, a1, t, z)
  <2>1. Len(a1) = m + 1
    BY <1>4
  <2> QED
    BY <1>8, <1>9, <1>11, <1>12, <2>1 DEF Lays
<1>14. Streams(a1, t, z)
  BY <1>4, <1>6, <1>13 DEF Streams
<1> QED
  BY <1>14 DEF a1, z, b

\* The bytes of the next item come first.
LEMMA StreamsNext ==
  ASSUME NEW a \in Seq(Item), NEW t \in 0 .. Len(a), NEW s \in Seq(Byte), Streams(a, t, s)
  PROVE  /\ t = Len(a) <=> s = <<>>
         /\ t < Len(a) =>
              /\ Len(Parts(a[t + 1])) \in Nat /\ Len(Parts(a[t + 1])) > 0
              /\ Len(Parts(a[t + 1])) <= Len(s)
              /\ \A k \in 1 .. Len(Parts(a[t + 1])) :
                   s[k] = [item |-> t + 1, part |-> Parts(a[t + 1])[k]]
<1> DEFINE m == Len(a)
<1>0. m \in Nat /\ t \in Nat /\ t <= m /\ Len(s) \in Nat
  OBVIOUS
<1>1. PICK off \in [0 .. m -> Nat] : Lays(off, a, t, s)
  BY DEF Streams
<1>2. /\ \A i \in 1 .. m : off[i] = off[i - 1] + Len(Parts(a[i]))
      /\ \A i, j \in 0 .. m : i <= j => off[i] <= off[j]
      /\ Len(s) = off[m] - off[t]
      /\ \A i \in t + 1 .. m : \A k \in 1 .. Len(Parts(a[i])) :
           s[off[i - 1] - off[t] + k] = [item |-> i, part |-> Parts(a[i])[k]]
  BY <1>1 DEF Lays
<1>3. off[t] \in Nat /\ off[m] \in Nat
  BY <1>0, <1>1
<1>4. CASE t = m
  <2>1. Len(s) = 0
    BY <1>2, <1>3, <1>4
  <2>2. s = <<>>
    BY <2>1, EmptySeq
  <2> QED
    BY <1>4, <2>2
<1>5. CASE t < m
  <2>1. Len(Parts(a[t + 1])) \in Nat /\ Len(Parts(a[t + 1])) > 0
    <3>1. a[t + 1] \in Item /\ NoToken \in Token \cup {NoToken}
      BY <1>0, <1>5
    <3>2. Parts(a[t + 1]) \in Seq(Part) /\ Len(Parts(a[t + 1])) > 0
      BY <3>1, PartsOf
    <3> QED
      BY <3>2, LenProperties
  <2> HIDE DEF m
  <2>2. t + 1 \in 1 .. m /\ t + 1 \in t + 1 .. m /\ m \in 0 .. m /\ t + 1 \in 0 .. m /\ t + 1 <= m
    BY <1>0, <1>5
  <2>3. (t + 1) - 1 = t /\ off[t + 1] \in Nat
    BY <1>0, <1>1, <2>2
  <2>4. off[t + 1] = off[t] + Len(Parts(a[t + 1])) /\ off[t + 1] <= off[m]
    <3>1. off[t + 1] = off[(t + 1) - 1] + Len(Parts(a[t + 1]))
      BY <1>2, <2>2
    <3>2. off[t + 1] <= off[m]
      BY <1>2, <2>2
    <3> QED
      BY <2>3, <3>1, <3>2
  <2>5. Len(Parts(a[t + 1])) <= Len(s) /\ Len(s) > 0
    BY <1>2, <1>3, <2>1, <2>3, <2>4
  <2>6. s # <<>>
    BY <2>5, EmptySeq
  <2>7. ASSUME NEW k \in 1 .. Len(Parts(a[t + 1]))
        PROVE  s[k] = [item |-> t + 1, part |-> Parts(a[t + 1])[k]]
    <3>1. off[(t + 1) - 1] - off[t] + k = k
      BY <1>3, <2>1, <2>3
    <3>2. s[off[(t + 1) - 1] - off[t] + k] = [item |-> t + 1, part |-> Parts(a[t + 1])[k]]
      BY <1>2, <2>2
    <3> QED
      BY <3>1, <3>2
  <2>8. t # m
    BY <1>0, <1>5
  <2> QED
    BY <2>1, <2>5, <2>6, <2>7, <2>8 DEF m
<1> QED
  BY <1>0, <1>4, <1>5

\* It is taken.
LEMMA StreamsTaken ==
  ASSUME NEW a \in Seq(Item), NEW t \in 0 .. Len(a), NEW s \in Seq(Byte), Streams(a, t, s),
         t < Len(a), NEW n \in Nat, n = Len(Parts(a[t + 1]))
  PROVE  /\ SubSeq(s, 1, n) = Bytes(a[t + 1], t + 1)
         /\ Streams(a, t + 1, SubSeq(s, n + 1, Len(s)))
<1> DEFINE m == Len(a)
           p == Parts(a[t + 1])
<1>0. m \in Nat /\ t \in Nat /\ t < m /\ Len(s) \in Nat
  OBVIOUS
<1>1. PICK off \in [0 .. m -> Nat] : Lays(off, a, t, s)
  BY DEF Streams
<1>2. n > 0 /\ n <= Len(s) /\ \A k \in 1 .. n : s[k] = [item |-> t + 1, part |-> p[k]]
  BY StreamsNext
<1>3. n \in 0 .. Len(s)
  BY <1>0, <1>2
<1>4. /\ SubSeq(s, 1, n) \in Seq(Byte) /\ Len(SubSeq(s, 1, n)) = n
      /\ \A i \in 1 .. n : SubSeq(s, 1, n)[i] = s[i]
      /\ SubSeq(s, n + 1, Len(s)) \in Seq(Byte) /\ Len(SubSeq(s, n + 1, Len(s))) = Len(s) - n
      /\ \A i \in 1 .. Len(s) - n : SubSeq(s, n + 1, Len(s))[i] = s[i + n]
  BY <1>3, Cut
<1>5. SubSeq(s, 1, n) = Bytes(a[t + 1], t + 1)
  <2>1. a[t + 1] \in Item /\ NoToken \in Token \cup {NoToken} /\ t + 1 \in Nat
    BY <1>0
  <2>2. Parts(a[t + 1]) \in Seq(Part)
    BY <2>1, PartsOf
  <2>3. /\ Bytes(a[t + 1], t + 1) \in Seq(Byte) /\ Len(Bytes(a[t + 1], t + 1)) = n
        /\ \A k \in 1 .. n : Bytes(a[t + 1], t + 1)[k] = [item |-> t + 1, part |-> p[k]]
    BY <2>1, <2>2, BytesOf
  <2> HIDE DEF p
  <2>4. \A k \in 1 .. n : SubSeq(s, 1, n)[k] = Bytes(a[t + 1], t + 1)[k]
    BY <1>2, <1>4, <2>3
  <2>5. PICK u \in Seq(Byte) : u = SubSeq(s, 1, n)
    BY <1>4
  <2>6. PICK v \in Seq(Byte) : v = Bytes(a[t + 1], t + 1)
    BY <2>3
  <2>7. Len(u) = n /\ Len(v) = n /\ \A k \in 1 .. n : u[k] = v[k]
    BY <1>4, <2>3, <2>4, <2>5, <2>6
  <2>8. u = v
    BY <2>7, SeqEqual
  <2> QED
    BY <2>5, <2>6, <2>8
<1> DEFINE r == SubSeq(s, n + 1, Len(s))
<1>6. Len(r) = Len(s) - n /\ \A i \in 1 .. Len(s) - n : r[i] = s[i + n]
  BY <1>4
<1> HIDE DEF r, m
<1>7. /\ \A i \in 1 .. m : off[i] = off[i - 1] + Len(Parts(a[i]))
      /\ \A i, j \in 0 .. m : i <= j => off[i] <= off[j]
      /\ Len(s) = off[m] - off[t]
      /\ \A i \in t + 1 .. m : \A k \in 1 .. Len(Parts(a[i])) :
           s[off[i - 1] - off[t] + k] = [item |-> i, part |-> Parts(a[i])[k]]
  BY <1>1 DEF Lays, m
<1>8. off[t + 1] = off[t] + n /\ off[t] \in Nat /\ off[t + 1] \in Nat /\ off[m] \in Nat
  <2>1. t + 1 \in 1 .. m /\ t \in 0 .. m /\ t + 1 \in 0 .. m /\ m \in 0 .. m /\ (t + 1) - 1 = t
    BY <1>0
  <2>2. off[t + 1] = off[(t + 1) - 1] + Len(Parts(a[t + 1]))
    BY <1>7, <2>1
  <2> QED
    BY <1>1, <2>1, <2>2
<1>9. Len(r) = off[m] - off[t + 1]
  BY <1>6, <1>7, <1>8
<1>9a. Len(s) - n = off[m] - off[t + 1] /\ n \in Nat
  BY <1>6, <1>9
<1>10. ASSUME NEW i \in (t + 1) + 1 .. m, NEW k \in 1 .. Len(Parts(a[i]))
       PROVE  r[off[i - 1] - off[t + 1] + k] = [item |-> i, part |-> Parts(a[i])[k]]
  <2>1. i \in t + 1 .. m /\ i \in 1 .. m /\ i \in 0 .. m /\ i - 1 \in 0 .. m /\ t + 1 \in 0 .. m
        /\ t + 1 <= i - 1 /\ i <= m /\ m \in 0 .. m
    BY <1>0
  <2>2. off[t + 1] <= off[i - 1] /\ off[i] <= off[m] /\ off[i] = off[i - 1] + Len(Parts(a[i]))
    BY <1>7, <2>1
  <2>3. off[i] \in Nat /\ off[i - 1] \in Nat
    BY <1>1, <2>1
  <2>4. Len(Parts(a[i])) \in Nat
    <3>1. a[i] \in Item /\ NoToken \in Token \cup {NoToken}
      BY <2>1 DEF m
    <3>2. Parts(a[i]) \in Seq(Part)
      BY <3>1, PartsOf
    <3> QED
      BY <3>2, LenProperties
  <2> DEFINE q == off[i - 1] - off[t + 1] + k
  <2>5. q \in 1 .. Len(s) - n /\ q + n = off[i - 1] - off[t] + k
    <3>1. k \in Nat /\ k > 0 /\ k <= Len(Parts(a[i]))
      BY <2>4
    <3>2. off[i - 1] + k <= off[m]
      <4>1. off[i - 1] + k <= off[i]
        BY <2>2, <2>3, <2>4, <3>1
      <4> QED
        BY <1>8, <2>2, <2>3, <3>1, <4>1, Below
    <3>3. off[i - 1] - off[t + 1] + k \in 1 .. off[m] - off[t + 1]
      BY <1>8, <2>2, <2>3, <3>1, <3>2, Inside
    <3>4. (off[i - 1] - off[t + 1] + k) + n = off[i - 1] - off[t] + k
      <4> DEFINE u == off[i - 1]
                 v == off[t]
                 w == off[t + 1]
      <4>1. u \in Nat /\ v \in Nat /\ w \in Nat /\ w = v + n /\ n \in Nat /\ k \in Nat
        BY <1>8, <2>3, <3>1
      <4> HIDE DEF u, v, w
      <4>2. (u - w + k) + n = u - v + k
        BY <4>1
      <4> QED
        BY <4>2 DEF u, v, w
    <3> QED
      BY <1>9a, <3>3, <3>4
  <2>6. s[off[i - 1] - off[t] + k] = [item |-> i, part |-> Parts(a[i])[k]]
    BY <1>7, <2>1
  <2> HIDE DEF q
  <2>7. r[q] = s[q + n]
    BY <1>6, <2>5
  <2> QED
    BY <2>5, <2>6, <2>7 DEF q
<1>11. Lays(off, a, t + 1, r)
  BY <1>7, <1>9, <1>10 DEF Lays, m
<1> QED
  BY <1>1, <1>5, <1>11 DEF Streams, r, m

-----------------------------------------------------------------------------
(* What is at the head of the bytes that have been read. *)

LEMMA MinOfTwo ==
  ASSUME NEW a \in Int, NEW b \in Int
  PROVE  Min({a, b}) \in Int /\ Min({a, b}) <= a /\ Min({a, b}) <= b
<1>1. \E x \in {a, b} : \A y \in {a, b} : x <= y
  OBVIOUS
<1>2. Min({a, b}) \in {a, b} /\ \A y \in {a, b} : Min({a, b}) <= y
  BY <1>1 DEF Min
<1> QED
  BY <1>2

\* What is in the buffer begins with the next item.
LEMMA FirstBytes ==
  ASSUME NEW a \in Seq(Item), NEW t \in 0 .. Len(a), NEW r \in Seq(Byte), NEW w \in Seq(Byte),
         Streams(a, t, r \o w), r # <<>>
  PROVE  /\ t < Len(a) /\ t + 1 \in 1 .. Len(a) /\ a[t + 1] \in Item
         /\ r[1].item = t + 1
         /\ Len(Parts(a[t + 1])) \in Nat /\ Len(Parts(a[t + 1])) > 0
         /\ Len(Parts(a[t + 1])) <= Len(r \o w)
         /\ \A k \in 1 .. Len(r) :
              k <= Len(Parts(a[t + 1])) => r[k].part = Parts(a[t + 1])[k]
<1>0. Len(a) \in Nat /\ t \in Nat /\ t <= Len(a)
  OBVIOUS
<1>1. /\ r \o w \in Seq(Byte) /\ Len(r \o w) = Len(r) + Len(w)
      /\ \A i \in 1 .. Len(r) + Len(w) : (r \o w)[i] = IF i <= Len(r) THEN r[i] ELSE w[i - Len(r)]
  BY ConcatProperties
<1>2. Len(r) \in Nat /\ Len(w) \in Nat /\ Len(r) > 0
  <2>1. Len(r) # 0
    BY EmptySeq
  <2> QED
    BY <2>1
<1> DEFINE z == r \o w
<1> HIDE DEF z
<1>3. z \in Seq(Byte) /\ Streams(a, t, z) /\ Len(z) = Len(r) + Len(w)
  BY <1>1 DEF z
<1>4. t < Len(a)
  <2>1. t = Len(a) => z = <<>>
    BY <1>3, StreamsNext
  <2>2. z # <<>>
    BY <1>2, <1>3
  <2> QED
    BY <1>0, <2>1, <2>2
<1>5. /\ Len(Parts(a[t + 1])) \in Nat /\ Len(Parts(a[t + 1])) > 0
      /\ Len(Parts(a[t + 1])) <= Len(z)
      /\ \A k \in 1 .. Len(Parts(a[t + 1])) : z[k] = [item |-> t + 1, part |-> Parts(a[t + 1])[k]]
  BY <1>3, <1>4, StreamsNext
<1>6. \A k \in 1 .. Len(r) : z[k] = r[k]
  BY <1>1, <1>2 DEF z
<1>7. \A k \in 1 .. Len(r) : k <= Len(Parts(a[t + 1])) =>
        r[k].item = t + 1 /\ r[k].part = Parts(a[t + 1])[k]
  <2> TAKE k \in 1 .. Len(r)
  <2> HAVE k <= Len(Parts(a[t + 1]))
  <2>1. k \in 1 .. Len(Parts(a[t + 1]))
    BY <1>2, <1>5
  <2>2. r[k] = [item |-> t + 1, part |-> Parts(a[t + 1])[k]]
    BY <1>5, <1>6, <2>1
  <2> QED
    BY <2>2
<1>8. 1 \in 1 .. Len(r) /\ 1 <= Len(Parts(a[t + 1]))
  BY <1>2, <1>5
<1>9. r[1].item = t + 1
  BY <1>7, <1>8
<1>10. t + 1 \in 1 .. Len(a) /\ a[t + 1] \in Item
  BY <1>0, <1>4
<1> QED
  BY <1>4, <1>5, <1>7, <1>9, <1>10 DEF z

\* The empty line closes the header of a request.
LEMMA HeaderEnd ==
  ASSUME NEW a \in Seq(Item), NEW t \in 0 .. Len(a), NEW r \in Seq(Byte), NEW w \in Seq(Byte),
         Streams(a, t, r \o w), Ends(r) # {}, t < Len(a) => a[t + 1].kind \in Requests
  PROVE  /\ t < Len(a) /\ t + 1 \in 1 .. Len(a) /\ a[t + 1].kind \in Requests
         /\ r[1].item = t + 1
         /\ Min(Ends(r)) + ContentLength(a[t + 1]) = Len(Parts(a[t + 1]))
         /\ Len(Parts(a[t + 1])) \in Nat
<1>1. PICK e \in DOMAIN r : r[e].part = "end"
  BY DEF Ends
<1>2. DOMAIN r = 1 .. Len(r) /\ Len(r) \in Nat
  OBVIOUS
<1>3. r # <<>>
  BY <1>1
<1>4. /\ t < Len(a) /\ t + 1 \in 1 .. Len(a) /\ r[1].item = t + 1
      /\ Len(Parts(a[t + 1])) \in Nat
      /\ \A k \in 1 .. Len(r) :
              k <= Len(Parts(a[t + 1])) => r[k].part = Parts(a[t + 1])[k]
  BY <1>3, FirstBytes
<1>5. a[t + 1].kind \in Requests
  BY <1>4
<1> DEFINE x == a[t + 1]
           p == Parts(x)
<1>6. /\ Len(p) = 2 + ContentLength(x) /\ ContentLength(x) \in {0, 1}
      /\ p[1] = "line" /\ p[2] = "end"
  <2> HIDE DEF x
  <2>1. x.kind \in Requests
    BY <1>5 DEF x
  <2> QED
    BY <2>1, RequestParts
<1> HIDE DEF x, p
<1>7. \A k \in 1 .. Len(r) : k <= Len(p) => r[k].part = p[k]
  BY <1>4 DEF x, p
<1>8. 2 <= Len(p) /\ 1 <= Len(p)
  BY <1>6
<1>9. r[1].part = "line"
  BY <1>1, <1>2, <1>6, <1>7, <1>8
<1>10. e # 1
  BY <1>1, <1>9
<1>11. 2 \in 1 .. Len(r) /\ r[2].part = "end"
  BY <1>1, <1>2, <1>6, <1>7, <1>8, <1>10
<1>12. 2 \in Ends(r) /\ \A y \in Ends(r) : y \in Nat /\ 2 <= y
  BY <1>2, <1>9, <1>11 DEF Ends
<1>13. Min(Ends(r)) \in Ends(r) /\ \A y \in Ends(r) : Min(Ends(r)) <= y
  BY <1>12 DEF Min
<1>14. Min(Ends(r)) = 2
  BY <1>12, <1>13
<1> QED
  BY <1>4, <1>5, <1>6, <1>14 DEF x, p

-----------------------------------------------------------------------------
(* The inductive invariant of the reader. *)

Working == {"insert", "select", "setWait", "expireWait", "getWait", "respond", "handshake"}
Acting == {"acted", "pong", "rpushWait", "ltrimWait"}
Over == {"garbled", "cleanup", "closed"}
Places == {"read", "act"} \cup Working \cup Fields \cup Acting \cup Over

Typed ==
  /\ at \in [Conn -> Places]
  /\ cur \in [Conn -> Item \cup {NoItem, Garbled}]
  /\ tok \in [Conn -> Token \cup {NoToken}]
  /\ fresh \subseteq Token /\ known \subseteq Token \cup {NoToken}
  /\ DOMAIN script = Conn /\ \A c \in Conn : Sendable(script[c])
  /\ asked \in [Conn -> Seq(Item)]
  /\ wire \in [Conn -> Seq(Byte)] /\ raw \in [Conn -> Seq(Byte)]
  /\ got \in [Conn -> Nat] /\ taken \in [Conn -> Nat]
  /\ gone \subseteq Conn /\ ws \subseteq Conn /\ astray \subseteq ws

\* What has been asked follows the script.
Scripted(c) ==
  /\ Len(asked[c]) <= Len(script[c])
  /\ \A i \in 1 .. Len(asked[c]) :
       /\ asked[c][i].kind = script[c][i].kind
       /\ asked[c][i].kind \in Posts =>
            asked[c][i].user \in User /\ asked[c][i].password \in Password

\* Requests until the handshake, frames behind it.
Sided(c) ==
  /\ at[c] \in {"read"} \cup Working => c \notin ws
  /\ at[c] \in {"act"} \cup Fields \cup Acting => c \in ws
  /\ c \notin ws => \A i \in 1 .. Len(asked[c]) : asked[c][i].kind \in Requests
  /\ c \in ws => \E i \in 1 .. taken[c] : asked[c][i].kind = "upgrade"

Counted(c) ==
  /\ taken[c] <= Len(asked[c]) /\ got[c] <= taken[c]
  /\ at[c] = "read" => got[c] = taken[c]
  /\ at[c] \in Working => got[c] + 1 = taken[c]

\* What the coroutine works on is what it has taken last.
Busy(c) ==
  /\ at[c] \in {"read", "act"} \cup Fields => cur[c] = NoItem
  /\ at[c] \in Working \cup Acting => taken[c] > 0 /\ cur[c] = asked[c][taken[c]]
  /\ at[c] = "handshake" => cur[c].kind = "upgrade"

\* Nothing of what has not been taken is lost, and nothing else is in the buffers.
Streaming(c) == at[c] \notin Over => Streams(asked[c], taken[c], raw[c] \o wire[c])

\* How much of a frame has been read.
Framed(c) ==
  /\ at[c] \in Acting => raw[c] = <<>>
  /\ at[c] = "header" => Len(raw[c]) < 2
  /\ at[c] \in {"ext", "mask", "payload", "act"} =>
       LET x == asked[c][taken[c] + 1] IN
       /\ raw[c] # <<>>
       /\ at[c] = "ext" => Len(raw[c]) = 2 /\ x.long
       /\ at[c] = "mask" => Len(raw[c]) + 2 = HeadLength(x)
       /\ at[c] = "payload" => HeadLength(x) <= Len(raw[c]) /\ Len(raw[c]) < HeadLength(x) + x.size
       /\ at[c] = "act" => Len(raw[c]) = HeadLength(x) + x.size

Reader(c) == Scripted(c) /\ Sided(c) /\ Counted(c) /\ Busy(c) /\ Streaming(c) /\ Framed(c)

StreamInv == Typed /\ \A c \in Conn : Reader(c)

\* Nothing has happened to the connection d.
Same(d) ==
  /\ at'[d] = at[d] /\ cur'[d] = cur[d] /\ asked'[d] = asked[d] /\ script'[d] = script[d]
  /\ wire'[d] = wire[d] /\ raw'[d] = raw[d] /\ got'[d] = got[d] /\ taken'[d] = taken[d]
  /\ d \in ws' <=> d \in ws

LEMMA Untouched ==
  ASSUME NEW d \in Conn, Reader(d), Same(d)
  PROVE  Reader(d)'
<1>1. Scripted(d)'
  BY DEF Reader, Same, Scripted
<1>2. Sided(d)'
  BY DEF Reader, Same, Sided
<1>3. Counted(d)'
  BY DEF Reader, Same, Counted
<1>4. Busy(d)'
  BY DEF Reader, Same, Busy
<1>5. Streaming(d)'
  <2>1. Streaming(d)
    BY DEF Reader
  <2> QED
    BY <2>1 DEF Same, Streaming
<1>6. Framed(d)'
  BY DEF Reader, Same, Framed
<1> QED
  BY <1>1, <1>2, <1>3, <1>4, <1>5, <1>6 DEF Reader

LEMMA Went ==
  ASSUME at \in [Conn -> Places], NEW c \in Conn, NEW p \in Places, Go(c, p)
  PROVE  /\ at' \in [Conn -> Places] /\ at'[c] = p
         /\ \A d \in Conn \ {c} : at'[d] = at[d]
BY DEF Go

LEMMA InitStream == Init => StreamInv
<1> SUFFICES ASSUME Init PROVE StreamInv
  OBVIOUS
<1>1. PICK s \in Scenarios : script = s.script /\ users = s.users /\ holder = s.tokens
  BY DEF Init
<1>2. /\ at = [c \in Conn |-> "read"] /\ cur = [c \in Conn |-> NoItem] /\ tok = [c \in Conn |-> NoToken]
      /\ fresh \subseteq Token /\ known = Token \ fresh
      /\ asked = [c \in Conn |-> <<>>] /\ wire = [c \in Conn |-> <<>>] /\ raw = [c \in Conn |-> <<>>]
      /\ gone = {} /\ ws = {} /\ astray = {}
      /\ got = [c \in Conn |-> 0] /\ taken = [c \in Conn |-> 0]
  BY DEF Init, AccountInit
<1>3. "read" \in Places
  BY DEF Places
<1>4. <<>> \in Seq(Item) /\ <<>> \in Seq(Byte) /\ Len(<<>>) = 0 /\ 1 .. 0 = {} /\ 0 \in Nat
  OBVIOUS
<1>5. DOMAIN script = Conn /\ \A c \in Conn : Sendable(script[c])
  BY <1>1, ScenariosAssumption
<1>6. Typed
  BY <1>2, <1>3, <1>4, <1>5 DEF Typed
<1>7. ASSUME NEW c \in Conn
      PROVE  Reader(c)
  <2>1. /\ at[c] = "read" /\ cur[c] = NoItem /\ asked[c] = <<>> /\ wire[c] = <<>> /\ raw[c] = <<>>
        /\ got[c] = 0 /\ taken[c] = 0 /\ c \notin ws
    BY <1>2
  <2>2. Len(script[c]) \in Nat
    BY <1>5 DEF Sendable
  <2>3. Scripted(c)
    BY <1>4, <2>1, <2>2 DEF Scripted
  <2>4. Sided(c)
    BY <1>4, <2>1 DEF Sided, Fields, Acting
  <2>5. Counted(c)
    BY <1>4, <2>1 DEF Counted, Working
  <2>6. Busy(c)
    BY <2>1 DEF Busy, Working, Acting
  <2>7. Streaming(c)
    <3>1. <<>> \o <<>> = <<>>
      OBVIOUS
    <3> QED
      BY <2>1, <3>1, StreamsNone DEF Streaming
  <2>8. Framed(c)
    BY <2>1 DEF Framed, Acting
  <2> QED
    BY <2>3, <2>4, <2>5, <2>6, <2>7, <2>8 DEF Reader
<1> QED
  BY <1>6, <1>7 DEF StreamInv

LEMMA Kinds ==
  ASSUME NEW x \in Item
  PROVE  /\ x.kind \in Requests \cup Frames
         /\ x.kind \notin Requests => x.kind \in Frames /\ x.long \in BOOLEAN /\ x.size \in Nat
         /\ x.kind \in Frames => x.kind \notin Requests
         /\ x # NoItem /\ x # Garbled /\ x.kind # "garbled" /\ x.kind # "none"
<1>1. CASE x \in [kind : Requests, user : User \cup {NoUser}, password : Password \cup {NoPassword},
                  tok : Token \cup {NoToken}, keep : BOOLEAN]
  <2>1. x.kind \in Requests
    BY <1>1
  <2> QED
    BY <2>1 DEF Requests, Posts, Frames, NoItem, Garbled
<1>2. CASE x \in [kind : Frames, long : BOOLEAN, size : Nat, tok : Token \cup {NoToken}]
  <2>1. x.kind \in Frames /\ x.long \in BOOLEAN /\ x.size \in Nat
    BY <1>2
  <2> QED
    BY <2>1 DEF Requests, Posts, Frames, NoItem, Garbled
<1> QED
  BY <1>1, <1>2 DEF Item

\* Behind the handshake only frames are left to take.
LEMMA FramesLeft ==
  ASSUME StreamInv, NEW c \in Conn, c \in ws, NEW i \in taken[c] + 1 .. Len(asked[c])
  PROVE  asked[c][i].kind \in Frames
<1>1. taken[c] \in Nat /\ Len(asked[c]) \in Nat /\ Sendable(script[c]) /\ Scripted(c) /\ Sided(c)
  BY DEF StreamInv, Typed, Reader
<1>2. PICK k \in 1 .. taken[c] : asked[c][k].kind = "upgrade"
  BY <1>1 DEF Sided
<1>3. k < i /\ k \in 1 .. Len(asked[c]) /\ i \in 1 .. Len(asked[c])
  BY <1>1
<1>4. Len(asked[c]) <= Len(script[c]) /\ script[c] \in Seq(Item)
  BY <1>1 DEF Scripted, Sendable
<1>5. k \in DOMAIN script[c] /\ i \in DOMAIN script[c]
  BY <1>1, <1>3, <1>4
<1>6. script[c][k].kind = "upgrade" /\ script[c][i].kind = asked[c][i].kind
  BY <1>1, <1>2, <1>3 DEF Scripted
<1>7. script[c][i].kind \in Frames
  BY <1>1, <1>3, <1>5, <1>6 DEF Sendable
<1> QED
  BY <1>6, <1>7

\* Before it there is nothing behind an upgrade.
LEMMA UpgradeLast ==
  ASSUME StreamInv, NEW c \in Conn, c \notin ws, NEW k \in 1 .. Len(asked[c]),
         asked[c][k].kind = "upgrade"
  PROVE  k = Len(asked[c])
<1>1. Len(asked[c]) \in Nat /\ Sendable(script[c]) /\ Scripted(c) /\ Sided(c) /\ asked[c] \in Seq(Item)
  BY DEF StreamInv, Typed, Reader
<1>2. SUFFICES ASSUME k < Len(asked[c])
               PROVE  FALSE
  BY <1>1
<1> DEFINE i == Len(asked[c])
<1>3. k \in 1 .. i /\ i \in 1 .. i /\ k < i
  BY <1>1, <1>2
<1>4. Len(asked[c]) <= Len(script[c]) /\ script[c] \in Seq(Item)
  BY <1>1 DEF Scripted, Sendable
<1>5. k \in DOMAIN script[c] /\ i \in DOMAIN script[c]
  BY <1>1, <1>3, <1>4
<1>6. script[c][k].kind = "upgrade" /\ script[c][i].kind = asked[c][i].kind
  BY <1>1, <1>3 DEF Scripted
<1>7. script[c][i].kind \in Frames
  BY <1>1, <1>3, <1>5, <1>6 DEF Sendable
<1>8. asked[c][i].kind \in Requests
  BY <1>1, <1>3 DEF Sided
<1>9. asked[c][i] \in Item
  BY <1>1, <1>3
<1> QED
  BY <1>6, <1>7, <1>8, <1>9, Kinds

\* Within a frame the buffer begins with it.
LEMMA InFrame ==
  ASSUME StreamInv, NEW c \in Conn, at[c] \in Fields \cup {"act"}, raw[c] # <<>>
  PROVE  /\ taken[c] + 1 \in 1 .. Len(asked[c]) /\ asked[c][taken[c] + 1] \in Item
         /\ asked[c][taken[c] + 1].kind \in Frames
         /\ asked[c][taken[c] + 1].long \in BOOLEAN /\ asked[c][taken[c] + 1].size \in Nat
         /\ Len(Parts(asked[c][taken[c] + 1]))
              = HeadLength(asked[c][taken[c] + 1]) + asked[c][taken[c] + 1].size
         /\ raw[c][1].item = taken[c] + 1
<1>1. /\ asked[c] \in Seq(Item) /\ taken[c] \in 0 .. Len(asked[c])
      /\ raw[c] \in Seq(Byte) /\ wire[c] \in Seq(Byte)
  BY DEF StreamInv, Typed, Reader, Counted
<1>2. Streams(asked[c], taken[c], raw[c] \o wire[c])
  <2>1. Streaming(c)
    BY DEF StreamInv, Reader
  <2>2. at[c] \notin Over
    BY DEF Fields, Over
  <2> QED
    BY <2>1, <2>2 DEF Streaming
<1> DEFINE x == asked[c][taken[c] + 1]
<1>3. /\ taken[c] + 1 \in 1 .. Len(asked[c]) /\ x \in Item
      /\ raw[c][1].item = taken[c] + 1
  BY <1>1, <1>2, FirstBytes
<1>4. c \in ws
  BY DEF StreamInv, Reader, Sided
<1>5. taken[c] + 1 \in taken[c] + 1 .. Len(asked[c])
  BY <1>1, <1>3
<1>6. x.kind \in Frames
  BY <1>4, <1>5, FramesLeft
<1> HIDE DEF x
<1>7. x.kind \notin Requests /\ x.long \in BOOLEAN /\ x.size \in Nat
  BY <1>3, <1>6, Kinds
<1>8. Len(Parts(x)) = HeadLength(x) + x.size
  BY <1>7, FrameParts
<1> QED
  BY <1>3, <1>6, <1>7, <1>8 DEF x

\* Once its header is read there is something of a frame in the buffer.
LEMMA Begun ==
  ASSUME StreamInv, NEW c \in Conn, at[c] \in {"ext", "mask", "payload", "act"}
  PROVE  raw[c] # <<>>
BY DEF StreamInv, Reader, Framed

-----------------------------------------------------------------------------
(* The clients. *)

LEMMA Assembled ==
  ASSUME StreamInv, NEW c \in Conn, Typed', Reader(c)', \A d \in Conn \ {c} : Same(d)
  PROVE  StreamInv'
<1>1. ASSUME NEW d \in Conn
      PROVE  Reader(d)'
  <2>1. CASE d = c
    BY <2>1
  <2>2. CASE d # c
    <3>1. Reader(d) /\ Same(d)
      BY <2>2 DEF StreamInv
    <3> QED
      BY <3>1, Untouched
  <2> QED
    BY <2>1, <2>2
<1> QED
  BY <1>1 DEF StreamInv

LEMMA Disjoint ==
  /\ "read" \notin Over \cup Working \cup Acting \cup Fields
  /\ "act" \notin Over \cup Working \cup Acting \cup Fields
  /\ \A p \in Over : p \notin Working \cup Acting \cup Fields
  /\ \A p \in Working : p \notin Acting \cup Fields
  /\ \A p \in Acting : p \notin Fields
BY DEF Over, Working, Acting, Fields

\* The connection is on its way out.
LEMMA Left ==
  ASSUME StreamInv, NEW c \in Conn, at'[c] \in Over, asked'[c] = asked[c], script'[c] = script[c],
         c \in ws' <=> c \in ws, got'[c] <= taken'[c],
         taken'[c] \in Nat, taken[c] <= taken'[c], taken'[c] <= Len(asked[c])
  PROVE  Reader(c)'
<1>1. Scripted(c) /\ Sided(c) /\ taken[c] \in Nat
  BY DEF StreamInv, Typed, Reader
<1>2. /\ at'[c] # "read" /\ at'[c] # "act"
      /\ at'[c] \notin Working /\ at'[c] \notin Acting /\ at'[c] \notin Fields
  BY DEF Over, Working, Acting, Fields
<1>3. Scripted(c)'
  BY <1>1 DEF Scripted
<1>4. Sided(c)'
  BY <1>1, <1>2 DEF Sided
<1>5. Counted(c)'
  BY <1>2 DEF Counted
<1>6. Busy(c)'
  BY <1>2 DEF Busy, Working
<1>7. Streaming(c)'
  BY DEF Streaming
<1>8. Framed(c)'
  BY <1>2 DEF Framed, Fields
<1> QED
  BY <1>3, <1>4, <1>5, <1>6, <1>7, <1>8 DEF Reader

LEMMA HangUpStream ==
  ASSUME StreamInv, NEW c \in Conn, HangUp(c)
  PROVE  StreamInv'
<1>1. Typed'
  BY DEF StreamInv, Typed, HangUp, accountVars
<1>2. \A d \in Conn : Same(d)
  BY DEF HangUp, accountVars, Same
<1> QED
  BY <1>1, <1>2, Untouched DEF StreamInv

LEMMA AskStream ==
  ASSUME StreamInv, NEW c \in Conn, Ask(c)
  PROVE  StreamInv'
<1> DEFINE i == Len(asked[c]) + 1
           x == script[c][i]
<1>0. /\ Typed /\ Scripted(c) /\ Sided(c) /\ Counted(c) /\ Busy(c) /\ Streaming(c) /\ Framed(c)
  BY DEF StreamInv, Reader
<1>1. /\ asked[c] \in Seq(Item) /\ Len(asked[c]) \in Nat /\ taken[c] \in 0 .. Len(asked[c])
      /\ raw[c] \in Seq(Byte) /\ wire[c] \in Seq(Byte) /\ taken[c] \in Nat
      /\ script[c] \in Seq(Item)
  BY <1>0 DEF Typed, Counted, Sendable
<1>2. Len(asked[c]) < Len(script[c]) /\ i \in 1 .. Len(script[c]) /\ i \in DOMAIN script[c] /\ x \in Item
  <2>1. Len(asked[c]) < Len(script[c]) /\ Len(script[c]) \in Nat
    BY <1>1 DEF Ask
  <2>2. i \in 1 .. Len(script[c])
    BY <1>1, <2>1
  <2> QED
    BY <1>1, <2>1, <2>2
<1>3. x.kind \in Frames => c \in ws
  BY DEF Ask
<1>4. PICK t \in Token \cup {NoToken} :
        /\ asked' = [asked EXCEPT ![c] = Append(@, [x EXCEPT !.tok = t])]
        /\ wire' = [wire EXCEPT ![c] = @ \o Bytes(x, i)]
  BY <1>0 DEF Ask, Typed
<1> DEFINE y == [x EXCEPT !.tok = t]
<1>5. /\ y \in Item /\ y.kind = x.kind /\ Parts(y) = Parts(x)
      /\ Parts(x) \in Seq(Part)
      /\ x.kind \in Posts => y.user = x.user /\ y.password = x.password
  <2>1. y \in Item /\ y.kind = x.kind /\ Parts(y) = Parts(x) /\ Parts(x) \in Seq(Part)
    <3> HIDE DEF x, i
    <3> QED
      BY <1>2, PartsOf
  <2>2. x.kind \in Posts => y.user = x.user /\ y.password = x.password
    <3>1. CASE x \in [kind : Requests, user : User \cup {NoUser}, password : Password \cup {NoPassword},
                      tok : Token \cup {NoToken}, keep : BOOLEAN]
      <4> HIDE DEF x, i
      <4> QED
        BY <3>1
    <3>2. CASE x \in [kind : Frames, long : BOOLEAN, size : Nat, tok : Token \cup {NoToken}]
      <4> HIDE DEF x, i
      <4> QED
        BY <3>2 DEF Frames, Posts
    <3> QED
      BY <1>2, <3>1, <3>2 DEF Item
  <2> QED
    BY <2>1, <2>2
<1>6. x.kind \in Posts => x.user \in User /\ x.password \in Password
  BY <1>0, <1>2 DEF Typed, Sendable
<1>7. Bytes(x, i) \in Seq(Byte)
  <2>1. i \in Nat
    BY <1>1
  <2> HIDE DEF x, i
  <2> QED
    BY <1>5, <2>1, BytesOf
<1> HIDE DEF x
<1>8. /\ asked'[c] = Append(asked[c], y) /\ wire'[c] = wire[c] \o Bytes(x, i)
      /\ \A d \in Conn \ {c} : asked'[d] = asked[d] /\ wire'[d] = wire[d]
  BY <1>0, <1>4 DEF Typed
<1> HIDE DEF y
<1>9. /\ asked'[c] \in Seq(Item) /\ Len(asked'[c]) = i /\ asked'[c][i] = y
      /\ \A k \in 1 .. Len(asked[c]) : asked'[c][k] = asked[c][k]
  BY <1>1, <1>5, <1>8, AppendProperties
<1>10. wire'[c] \in Seq(Byte)
  BY <1>1, <1>7, <1>8, ConcatProperties
<1>11. /\ UNCHANGED <<at, cur, tok, fresh, script, raw, gone, ws, got, known, taken, astray>>
  BY DEF Ask, accountVars
<1>12. Typed'
  <2>1. asked' \in [Conn -> Seq(Item)]
    BY <1>0, <1>4, <1>8, <1>9 DEF Typed
  <2>2. wire' \in [Conn -> Seq(Byte)]
    BY <1>0, <1>4, <1>8, <1>10 DEF Typed
  <2> QED
    BY <1>0, <1>11, <2>1, <2>2 DEF Typed
<1>13. Scripted(c)'
  <2>1. Len(asked'[c]) <= Len(script'[c])
    BY <1>2, <1>9, <1>11
  <2>2. ASSUME NEW k \in 1 .. Len(asked'[c])
        PROVE  /\ asked'[c][k].kind = script'[c][k].kind
               /\ asked'[c][k].kind \in Posts => asked'[c][k].user \in User /\ asked'[c][k].password \in Password
    <3>1. CASE k = i
      BY <1>5, <1>6, <1>9, <1>11, <3>1 DEF x
    <3>2. CASE k \in 1 .. Len(asked[c])
      BY <1>0, <1>9, <1>11, <3>2 DEF Scripted
    <3> QED
      BY <1>1, <1>9, <3>1, <3>2
  <2> QED
    BY <2>1, <2>2 DEF Scripted
<1>14. Sided(c)'
  <2>1. c \notin ws => \A k \in 1 .. Len(asked'[c]) : asked'[c][k].kind \in Requests
    <3> HAVE c \notin ws
    <3> TAKE k \in 1 .. Len(asked'[c])
    <3>1. CASE k = i
      <4>1. x.kind \in Requests
        BY <1>2, <1>3, Kinds
      <4> QED
        BY <1>5, <1>9, <3>1, <4>1
    <3>2. CASE k \in 1 .. Len(asked[c])
      BY <1>0, <1>9, <3>2 DEF Sided
    <3> QED
      BY <1>1, <1>9, <3>1, <3>2
  <2>2. c \in ws => \E k \in 1 .. taken[c] : asked'[c][k].kind = "upgrade"
    <3> HAVE c \in ws
    <3>1. PICK k \in 1 .. taken[c] : asked[c][k].kind = "upgrade"
      BY <1>0 DEF Sided
    <3>2. k \in 1 .. Len(asked[c])
      BY <1>1
    <3> QED
      BY <1>9, <3>1, <3>2
  <2> QED
    BY <1>0, <1>11, <2>1, <2>2 DEF Sided
<1>15. Counted(c)'
  BY <1>0, <1>1, <1>9, <1>11 DEF Counted
<1>16. Busy(c)'
  <2>1. taken[c] > 0 => asked'[c][taken[c]] = asked[c][taken[c]]
    BY <1>1, <1>9
  <2> QED
    BY <1>0, <1>11, <2>1 DEF Busy
<1>17. Streaming(c)'
  <2> SUFFICES ASSUME at[c] \notin Over
               PROVE  Streams(asked'[c], taken[c], raw[c] \o wire'[c])
    BY <1>11 DEF Streaming
  <2>1. Streams(asked[c], taken[c], raw[c] \o wire[c]) /\ raw[c] \o wire[c] \in Seq(Byte)
    BY <1>0, <1>1 DEF Streaming
  <2>2. Streams(Append(asked[c], y), taken[c], (raw[c] \o wire[c]) \o Bytes(x, i))
    <3>1. Parts(x) = Parts(y)
      BY <1>5
    <3> QED
      BY <1>1, <1>5, <2>1, <3>1, StreamsMore
  <2>3. PICK r \in Seq(Byte), w \in Seq(Byte), b \in Seq(Byte) : r = raw[c] /\ w = wire[c] /\ b = Bytes(x, i)
    BY <1>1, <1>7
  <2>4. (r \o w) \o b = r \o (w \o b)
    BY Associates, SMTT(30)
  <2> QED
    BY <1>8, <2>2, <2>3, <2>4
<1>18. Framed(c)'
  <2>1. CASE at[c] \in {"ext", "mask", "payload", "act"}
    <3>1. raw[c] # <<>>
      BY <2>1, Begun
    <3>2. taken[c] + 1 \in 1 .. Len(asked[c])
      BY <2>1, <3>1, InFrame DEF Fields
    <3>3. asked'[c][taken[c] + 1] = asked[c][taken[c] + 1]
      BY <1>9, <3>2
    <3> QED
      BY <1>0, <1>11, <2>1, <3>3 DEF Framed
  <2>2. CASE at[c] \notin {"ext", "mask", "payload", "act"}
    BY <1>0, <1>11, <2>2 DEF Framed
  <2> QED
    BY <2>1, <2>2
<1>19. Reader(c)'
  BY <1>13, <1>14, <1>15, <1>16, <1>17, <1>18 DEF Reader
<1>20. \A d \in Conn \ {c} : Same(d)
  BY <1>8, <1>11 DEF Same
<1> QED
  BY <1>12, <1>19, <1>20, Assembled

-----------------------------------------------------------------------------
(* Steps that take no item. *)

LEMMA StillStream ==
  ASSUME StreamInv, UNCHANGED <<accountVars, streamVars>>
  PROVE  StreamInv'
<1>1. Typed'
  BY DEF StreamInv, Typed, accountVars, streamVars
<1>2. \A d \in Conn : Same(d)
  BY DEF Same, accountVars, streamVars
<1> QED
  BY <1>1, <1>2, Untouched DEF StreamInv

LEMMA AccountStream ==
  ASSUME StreamInv, NEW c \in Conn, AccountStep(c), UNCHANGED streamVars
  PROVE  StreamInv'
<1>0. Typed /\ Reader(c)
  BY DEF StreamInv
<1>1. /\ UNCHANGED <<cur, script, asked, wire, raw, gone, ws, got, known, taken, astray>>
      /\ \E p \in Working : at[c] \in Working /\ Go(c, p) /\ (p = "handshake" => cur[c].kind = "upgrade")
      /\ fresh' \subseteq fresh /\ tok' \in [Conn -> Token \cup {NoToken}]
  <2>1. UNCHANGED <<cur, script, asked, wire, raw, gone, ws, got, known, taken, astray>>
    BY DEF AccountStep, Insert, Select, Stored, LoggedIn, TokenChecked, streamVars
  <2>2. \E p \in Working : at[c] \in Working /\ Go(c, p) /\ (p = "handshake" => cur[c].kind = "upgrade")
    <3>1. CASE Insert(c)
      BY <3>1 DEF Insert, Respond, Working
    <3>2. CASE Select(c)
      BY <3>2 DEF Select, Respond, Working
    <3>3. CASE Stored(c)
      BY <3>3 DEF Stored, Working
    <3>4. CASE LoggedIn(c)
      BY <3>4 DEF LoggedIn, Respond, Working
    <3>5. CASE TokenChecked(c)
      BY <3>5 DEF TokenChecked, Respond, Working
    <3> QED
      BY <3>1, <3>2, <3>3, <3>4, <3>5 DEF AccountStep
  <2>3. fresh' \subseteq fresh /\ tok' \in [Conn -> Token \cup {NoToken}]
    <3>1. CASE Select(c)
      BY <1>0, <3>1 DEF Select, Typed
    <3>2. CASE ~ Select(c)
      BY <1>0, <3>2 DEF AccountStep, Insert, Stored, LoggedIn, TokenChecked, Typed
    <3> QED
      BY <3>1, <3>2
  <2> QED
    BY <2>1, <2>2, <2>3
<1>2. PICK p \in Working : at[c] \in Working /\ Go(c, p) /\ (p = "handshake" => cur[c].kind = "upgrade")
  BY <1>1
<1>3. p \in Places
  BY DEF Places
<1>4. at' \in [Conn -> Places] /\ at'[c] = p /\ \A d \in Conn \ {c} : at'[d] = at[d]
  BY <1>0, <1>2, <1>3, Went DEF Typed
<1>5. Typed'
  BY <1>0, <1>1, <1>4 DEF Typed
<1>6. /\ p # "read" /\ p # "act" /\ p \notin Acting /\ p \notin Fields /\ p \notin Over /\ p # "header"
      /\ p \notin {"ext", "mask", "payload", "act"}
      /\ at[c] \notin Over
  BY <1>2 DEF Working, Acting, Fields, Over
<1>7. Scripted(c)'
  BY <1>0, <1>1 DEF Scripted, Reader
<1>8. Sided(c)'
  BY <1>0, <1>1, <1>2, <1>4, <1>6 DEF Sided, Reader
<1>9. Counted(c)'
  BY <1>0, <1>1, <1>2, <1>4, <1>6 DEF Counted, Reader
<1>10. Busy(c)'
  BY <1>0, <1>1, <1>2, <1>4, <1>6 DEF Busy, Reader
<1>11. Streaming(c)'
  BY <1>0, <1>1, <1>6 DEF Streaming, Reader
<1>12. Framed(c)'
  BY <1>4, <1>6 DEF Framed
<1>13. Reader(c)'
  BY <1>7, <1>8, <1>9, <1>10, <1>11, <1>12 DEF Reader
<1>14. \A d \in Conn \ {c} : Same(d)
  BY <1>1, <1>4 DEF Same
<1> QED
  BY <1>5, <1>13, <1>14, Assembled

\* n bytes go from the socket into the buffer.
LEMMA Received ==
  ASSUME StreamInv, NEW c \in Conn, NEW n \in 1 .. Len(wire[c]), Receive(c, n)
  PROVE  /\ raw' \in [Conn -> Seq(Byte)] /\ wire' \in [Conn -> Seq(Byte)]
         /\ \A d \in Conn \ {c} : raw'[d] = raw[d] /\ wire'[d] = wire[d]
         /\ raw'[c] \o wire'[c] = raw[c] \o wire[c]
         /\ Len(raw'[c]) = Len(raw[c]) + n /\ Len(raw[c]) \in Nat
<1>1. raw \in [Conn -> Seq(Byte)] /\ wire \in [Conn -> Seq(Byte)]
  BY DEF StreamInv, Typed
<1>2. /\ raw[c] \o SubSeq(wire[c], 1, n) \in Seq(Byte)
      /\ Len(raw[c] \o SubSeq(wire[c], 1, n)) = Len(raw[c]) + n
      /\ SubSeq(wire[c], n + 1, Len(wire[c])) \in Seq(Byte)
      /\ (raw[c] \o SubSeq(wire[c], 1, n)) \o SubSeq(wire[c], n + 1, Len(wire[c])) = raw[c] \o wire[c]
  <2>1. raw[c] \in Seq(Byte) /\ wire[c] \in Seq(Byte)
    BY <1>1
  <2> QED
    BY <2>1, MovedBytes, Zenon
<1>3. /\ raw' = [raw EXCEPT ![c] = raw[c] \o SubSeq(wire[c], 1, n)]
      /\ wire' = [wire EXCEPT ![c] = SubSeq(wire[c], n + 1, Len(wire[c]))]
  BY DEF Receive
<1>4. /\ raw'[c] = raw[c] \o SubSeq(wire[c], 1, n)
      /\ wire'[c] = SubSeq(wire[c], n + 1, Len(wire[c]))
      /\ \A d \in Conn \ {c} : raw'[d] = raw[d] /\ wire'[d] = wire[d]
  BY <1>1, <1>3
<1>5. raw' \in [Conn -> Seq(Byte)] /\ wire' \in [Conn -> Seq(Byte)]
  BY <1>1, <1>2, <1>3
<1>6. Len(raw[c]) \in Nat
  BY <1>1
<1> QED
  BY <1>2, <1>4, <1>5, <1>6

LEMMA ReadRequestStream ==
  ASSUME StreamInv, NEW c \in Conn, ReadRequest(c)
  PROVE  StreamInv'
<1>0. Typed /\ Reader(c) /\ at[c] = "read"
  BY DEF StreamInv, ReadRequest
<1>1. UNCHANGED <<cur, tok, fresh, script, asked, gone, ws, got, known, taken, astray>>
  BY DEF ReadRequest
<1>2. CASE UNCHANGED at /\ \E n \in 1 .. Len(wire[c]) : Receive(c, n)
  <2>1. /\ raw' \in [Conn -> Seq(Byte)] /\ wire' \in [Conn -> Seq(Byte)]
        /\ \A d \in Conn \ {c} : raw'[d] = raw[d] /\ wire'[d] = wire[d]
        /\ raw'[c] \o wire'[c] = raw[c] \o wire[c]
    BY <1>2, Received
  <2>2. Typed'
    BY <1>0, <1>1, <1>2, <2>1 DEF Typed
  <2>3. Scripted(c)' /\ Sided(c)' /\ Counted(c)' /\ Busy(c)'
    BY <1>0, <1>1, <1>2 DEF Reader, Scripted, Sided, Counted, Busy
  <2>4. Streaming(c)'
    BY <1>0, <1>1, <1>2, <2>1 DEF Reader, Streaming
  <2>5. Framed(c)'
    BY <1>0, <1>2 DEF Framed, Acting
  <2>6. Reader(c)'
    BY <2>3, <2>4, <2>5 DEF Reader
  <2>7. \A d \in Conn \ {c} : Same(d)
    BY <1>1, <1>2, <2>1 DEF Same
  <2> QED
    BY <2>2, <2>6, <2>7, Assembled
<1>3. CASE Go(c, "cleanup") /\ UNCHANGED <<raw, wire>>
  <2>1. "cleanup" \in Places /\ "cleanup" \in Over
    BY DEF Places, Over
  <2>2. at' \in [Conn -> Places] /\ at'[c] = "cleanup" /\ \A d \in Conn \ {c} : at'[d] = at[d]
    BY <1>0, <1>3, <2>1, Went DEF Typed
  <2>3. Typed'
    BY <1>0, <1>1, <1>3, <2>2 DEF Typed
  <2>4. got[c] <= taken[c] /\ taken[c] <= taken[c] /\ taken[c] <= Len(asked[c]) /\ taken[c] \in Nat
    BY <1>0 DEF Reader, Counted, Typed
  <2>5. Reader(c)'
    BY <1>1, <2>1, <2>2, <2>4, Left
  <2>6. \A d \in Conn \ {c} : Same(d)
    BY <1>1, <1>3, <2>2 DEF Same
  <2> QED
    BY <2>3, <2>5, <2>6, Assembled
<1> QED
  BY <1>2, <1>3 DEF ReadRequest

LEMMA BadRequestStream ==
  ASSUME StreamInv, NEW c \in Conn, BadRequest(c)
  PROVE  StreamInv'
<1>0. Typed /\ Reader(c) /\ at[c] = "read" /\ Go(c, "cleanup")
  BY DEF StreamInv, BadRequest
<1>1. UNCHANGED <<cur, tok, fresh, script, asked, wire, raw, gone, ws, got, known, taken, astray>>
  BY DEF BadRequest, streamVars
<1>2. "cleanup" \in Places /\ "cleanup" \in Over
  BY DEF Places, Over
<1>3. at' \in [Conn -> Places] /\ at'[c] = "cleanup" /\ \A d \in Conn \ {c} : at'[d] = at[d]
  BY <1>0, <1>2, Went DEF Typed
<1>4. Typed'
  BY <1>0, <1>1, <1>3 DEF Typed
<1>5. got[c] <= taken[c] /\ taken[c] <= taken[c] /\ taken[c] <= Len(asked[c]) /\ taken[c] \in Nat
  BY <1>0 DEF Reader, Counted, Typed
<1>6. Reader(c)'
  BY <1>1, <1>2, <1>3, <1>5, Left
<1>7. \A d \in Conn \ {c} : Same(d)
  BY <1>1, <1>3 DEF Same
<1> QED
  BY <1>4, <1>6, <1>7, Assembled

\* The request that is taken is the next one, and what follows it stays.
LEMMA RequestWhole ==
  ASSUME StreamInv, NEW c \in Conn, at[c] = "read", ~ Bad(c, raw[c]), Complete(c, raw[c])
  PROVE  LET n == RequestLength(c, raw[c])
             rest == SubSeq(raw[c], n + 1, Len(raw[c])) IN
         /\ taken[c] + 1 \in 1 .. Len(asked[c]) /\ raw[c][1].item = taken[c] + 1
         /\ asked[c][taken[c] + 1] \in Item
         /\ asked[c][taken[c] + 1].kind \in Requests \ {"bad"}
         /\ Decode(c, taken[c] + 1, SubSeq(raw[c], 1, n)) = asked[c][taken[c] + 1]
         /\ rest \in Seq(Byte)
         /\ Streams(asked[c], taken[c] + 1, rest \o wire[c])
<1> DEFINE a == asked[c]
           t == taken[c]
           r == raw[c]
           w == wire[c]
           n == RequestLength(c, raw[c])
<1>0. Sided(c) /\ Streaming(c) /\ c \notin ws
  BY DEF StreamInv, Reader, Sided
<1>1. a \in Seq(Item) /\ t \in 0 .. Len(a) /\ r \in Seq(Byte) /\ w \in Seq(Byte) /\ Len(a) \in Nat /\ t \in Nat
  BY DEF StreamInv, Typed, Reader, Counted
<1>2. Streams(a, t, r \o w)
  BY <1>0 DEF Streaming, Over
<1>3. t < Len(a) => a[t + 1].kind \in Requests
  BY <1>0, <1>1 DEF Sided
<1>4. Ends(r) # {}
  BY DEF Complete
<1>5. n = Min(Ends(r)) + ContentLength(a[r[1].item]) /\ Len(r) >= n /\ a[r[1].item].kind # "bad"
  BY <1>4 DEF Complete, Bad, RequestLength
<1> HIDE DEF a, t, r, w, n
<1>6. /\ t < Len(a) /\ t + 1 \in 1 .. Len(a) /\ a[t + 1].kind \in Requests
      /\ r[1].item = t + 1
      /\ Min(Ends(r)) + ContentLength(a[t + 1]) = Len(Parts(a[t + 1]))
      /\ Len(Parts(a[t + 1])) \in Nat
  BY <1>1, <1>2, <1>3, <1>4, HeaderEnd
<1>7. n = Len(Parts(a[t + 1])) /\ n \in Nat /\ n \in 0 .. Len(r)
  <2>1. n = Len(Parts(a[t + 1])) /\ n \in Nat
    BY <1>5, <1>6
  <2>2. Len(r) \in Nat
    BY <1>1
  <2> QED
    BY <1>5, <2>1, <2>2
<1> DEFINE z == r \o w
           rest == SubSeq(r, n + 1, Len(r))
<1>8. /\ SubSeq(z, 1, n) = SubSeq(r, 1, n) /\ rest \in Seq(Byte)
      /\ SubSeq(z, n + 1, Len(z)) = rest \o w
  <2>1. /\ SubSeq(r \o w, 1, n) = SubSeq(r, 1, n)
        /\ SubSeq(r, n + 1, Len(r)) \in Seq(Byte)
        /\ SubSeq(r \o w, n + 1, Len(r \o w)) = SubSeq(r, n + 1, Len(r)) \o w
    BY <1>1, <1>7, PartedBytes, Zenon
  <2> QED
    BY <2>1, Zenon
<1>9. z \in Seq(Byte) /\ Streams(a, t, z)
  BY <1>1, <1>2, ConcatProperties
<1> HIDE DEF z, rest
<1>10. /\ SubSeq(z, 1, n) = Bytes(a[t + 1], t + 1)
       /\ Streams(a, t + 1, SubSeq(z, n + 1, Len(z)))
  BY <1>1, <1>6, <1>7, <1>9, StreamsTaken
<1>11. Decode(c, t + 1, SubSeq(r, 1, n)) = a[t + 1]
  BY <1>8, <1>10 DEF Decode, a
<1>12. a[t + 1] \in Item
  BY <1>1, <1>6
<1>13. Streams(a, t + 1, rest \o w)
  BY <1>8, <1>10
<1> QED
  BY <1>5, <1>6, <1>8, <1>11, <1>12, <1>13 DEF a, t, r, w, n, rest

-----------------------------------------------------------------------------
(* Requests: taken, answered, upgraded. *)

LEMMA TakeRequestStream ==
  ASSUME StreamInv, NEW c \in Conn, TakeRequest(c)
  PROVE  StreamInv'
<1> DEFINE n == RequestLength(c, raw[c])
           rest == SubSeq(raw[c], n + 1, Len(raw[c]))
           x == asked[c][taken[c] + 1]
<1>0. Typed /\ Reader(c) /\ at[c] = "read"
  BY DEF StreamInv, TakeRequest
<1>1. /\ taken[c] + 1 \in 1 .. Len(asked[c]) /\ raw[c][1].item = taken[c] + 1
      /\ x \in Item /\ x.kind \in Requests \ {"bad"}
      /\ Decode(c, taken[c] + 1, SubSeq(raw[c], 1, n)) = x
      /\ rest \in Seq(Byte)
      /\ Streams(asked[c], taken[c] + 1, rest \o wire[c])
  BY RequestWhole DEF TakeRequest
<1>2. /\ raw' = [raw EXCEPT ![c] = rest] /\ cur' = [cur EXCEPT ![c] = x]
      /\ taken' = [taken EXCEPT ![c] = taken[c] + 1]
      /\ Dispatch(c, x)
      /\ UNCHANGED <<tok, fresh, script, asked, wire, gone, ws, got, known, astray>>
  BY <1>1 DEF TakeRequest
<1> HIDE DEF n, rest
<1>3. PICK p \in Working \ {"handshake"} : Go(c, p)
  <2>1. {"insert", "select", "getWait", "respond"} \subseteq Working \ {"handshake"}
    BY DEF Working
  <2> HIDE DEF x
  <2>2. \E p \in {"insert", "select", "getWait", "respond"} : Go(c, p)
    BY <1>2 DEF Dispatch, Respond
  <2> QED
    BY <2>1, <2>2
<1>4. p \in Places
  BY DEF Places
<1>5. at' \in [Conn -> Places] /\ at'[c] = p /\ \A d \in Conn \ {c} : at'[d] = at[d]
  BY <1>0, <1>3, <1>4, Went DEF Typed
<1>6. /\ taken[c] \in Nat /\ taken'[c] = taken[c] + 1 /\ cur'[c] = x /\ raw'[c] = rest
      /\ Len(asked[c]) \in Nat
  BY <1>0, <1>2 DEF Typed
<1>7. Typed'
  <2>1. raw' \in [Conn -> Seq(Byte)]
    BY <1>0, <1>1, <1>2 DEF Typed
  <2>2. cur' \in [Conn -> Item \cup {NoItem, Garbled}]
    BY <1>0, <1>1, <1>2 DEF Typed
  <2>3. taken' \in [Conn -> Nat]
    BY <1>0, <1>2, <1>6 DEF Typed
  <2> QED
    BY <1>0, <1>2, <1>5, <2>1, <2>2, <2>3 DEF Typed
<1>8. /\ p # "read" /\ p # "act" /\ p \notin Acting /\ p \notin Fields /\ p \notin Over /\ p # "header"
      /\ p \notin {"ext", "mask", "payload", "act"} /\ p # "handshake" /\ p \in Working
  BY DEF Working, Acting, Fields, Over
<1>9. Scripted(c)'
  BY <1>0, <1>2 DEF Scripted, Reader
<1>10. Sided(c)'
  BY <1>0, <1>2, <1>5, <1>8 DEF Sided, Reader
<1>11. Counted(c)'
  <2>1. got[c] = taken[c]
    BY <1>0 DEF Counted, Reader
  <2>2. taken'[c] <= Len(asked'[c]) /\ got'[c] <= taken'[c] /\ got'[c] + 1 = taken'[c]
    BY <1>1, <1>2, <1>6, <2>1
  <2> QED
    BY <1>5, <1>8, <2>2 DEF Counted
<1>12. Busy(c)'
  <2>1. taken'[c] > 0 /\ cur'[c] = asked'[c][taken'[c]]
    BY <1>2, <1>6
  <2> QED
    BY <1>5, <1>8, <2>1 DEF Busy
<1>13. Streaming(c)'
  BY <1>1, <1>2, <1>6 DEF Streaming
<1>14. Framed(c)'
  BY <1>5, <1>8 DEF Framed
<1>15. Reader(c)'
  BY <1>9, <1>10, <1>11, <1>12, <1>13, <1>14 DEF Reader
<1>16. \A d \in Conn \ {c} : Same(d)
  BY <1>0, <1>2, <1>5 DEF Same, Typed
<1> QED
  BY <1>7, <1>15, <1>16, Assembled

LEMMA WriteResponseStream ==
  ASSUME StreamInv, NEW c \in Conn, WriteResponse(c)
  PROVE  StreamInv'
<1>0. Typed /\ Reader(c) /\ at[c] = "respond" /\ at[c] \in Working
  BY DEF StreamInv, WriteResponse, Working
<1>1. /\ UNCHANGED <<tok, fresh, script, asked, wire, raw, gone, ws, taken, astray>>
      /\ cur' = [cur EXCEPT ![c] = NoItem]
  BY DEF WriteResponse
<1>2. /\ taken[c] \in Nat /\ got[c] \in Nat /\ got[c] + 1 = taken[c] /\ taken[c] <= Len(asked[c])
      /\ Len(asked[c]) \in Nat
  BY <1>0 DEF Reader, Counted, Typed
<1>3. cur' \in [Conn -> Item \cup {NoItem, Garbled}] /\ cur'[c] = NoItem
      /\ \A d \in Conn \ {c} : cur'[d] = cur[d]
  BY <1>0, <1>1 DEF Typed
<1>4. known' \subseteq Token \cup {NoToken}
  <2>1. known \subseteq Token \cup {NoToken} /\ tok[c] \in Token \cup {NoToken}
    BY <1>0 DEF Typed
  <2>2. known' = known \/ known' = known \cup {tok[c]}
    BY DEF WriteResponse
  <2> QED
    BY <2>1, <2>2
<1>5. /\ got' \in [Conn -> Nat] /\ got'[c] <= taken[c]
      /\ \A d \in Conn \ {c} : got'[d] = got[d]
  <2>1. CASE got' = [got EXCEPT ![c] = got[c] + 1]
    BY <1>0, <1>2, <2>1 DEF Typed
  <2>2. CASE got' = got
    BY <1>0, <1>2, <2>2 DEF Typed
  <2> QED
    BY <2>1, <2>2 DEF WriteResponse
<1>6. CASE Go(c, "read") /\ got' = [got EXCEPT ![c] = got[c] + 1]
  <2>1. "read" \in Places
    BY DEF Places
  <2>2. at' \in [Conn -> Places] /\ at'[c] = "read" /\ \A d \in Conn \ {c} : at'[d] = at[d]
    BY <1>0, <1>6, <2>1, Went DEF Typed
  <2>3. Typed'
    BY <1>0, <1>1, <1>3, <1>4, <1>5, <2>2 DEF Typed
  <2>4. got'[c] = taken[c]
    BY <1>0, <1>2, <1>6 DEF Typed
  <2>5. /\ "read" \notin Working /\ "read" \notin Acting /\ "read" \notin Fields /\ "read" \notin Over
    BY DEF Working, Acting, Fields, Over
  <2>6. Scripted(c)'
    BY <1>0, <1>1 DEF Reader, Scripted
  <2>7. Sided(c)'
    BY <1>0, <1>1, <2>2, <2>5 DEF Reader, Sided
  <2>8. Counted(c)'
    BY <1>1, <1>2, <2>2, <2>4, <2>5 DEF Counted
  <2>9. Busy(c)'
    BY <1>3, <2>2, <2>5 DEF Busy
  <2>10. Streaming(c)'
    BY <1>0, <1>1, Disjoint DEF Reader, Streaming
  <2>11. Framed(c)'
    BY <2>2, <2>5 DEF Framed
  <2>12. Reader(c)'
    BY <2>6, <2>7, <2>8, <2>9, <2>10, <2>11 DEF Reader
  <2>13. \A d \in Conn \ {c} : Same(d)
    BY <1>1, <1>3, <1>5, <2>2 DEF Same
  <2> QED
    BY <2>3, <2>12, <2>13, Assembled
<1>7. CASE Go(c, "cleanup")
  <2>1. "cleanup" \in Places /\ "cleanup" \in Over
    BY DEF Places, Over
  <2>2. at' \in [Conn -> Places] /\ at'[c] = "cleanup" /\ \A d \in Conn \ {c} : at'[d] = at[d]
    BY <1>0, <1>7, <2>1, Went DEF Typed
  <2>3. Typed'
    BY <1>0, <1>1, <1>3, <1>4, <1>5, <2>2 DEF Typed
  <2>4. taken[c] <= taken[c]
    BY <1>2
  <2>5. Reader(c)'
    BY <1>1, <1>2, <1>5, <2>1, <2>2, <2>4, Left
  <2>6. \A d \in Conn \ {c} : Same(d)
    BY <1>1, <1>3, <1>5, <2>2 DEF Same
  <2> QED
    BY <2>3, <2>5, <2>6, Assembled
<1> QED
  BY <1>6, <1>7 DEF WriteResponse

LEMMA HandshakeStream ==
  ASSUME StreamInv, NEW c \in Conn, Handshake(c)
  PROVE  StreamInv'
<1>0. Typed /\ Reader(c) /\ at[c] = "handshake" /\ at[c] \in Working
  BY DEF StreamInv, Handshake, Working
<1>1. /\ UNCHANGED <<tok, fresh, script, asked, wire, gone, known, taken, astray>>
      /\ cur' = [cur EXCEPT ![c] = NoItem]
  BY DEF Handshake
<1>2. /\ taken[c] \in Nat /\ got[c] \in Nat /\ got[c] + 1 = taken[c] /\ taken[c] <= Len(asked[c])
      /\ Len(asked[c]) \in Nat /\ asked[c] \in Seq(Item)
      /\ raw[c] \in Seq(Byte) /\ wire[c] \in Seq(Byte)
  BY <1>0 DEF Reader, Counted, Typed
<1>3. cur' \in [Conn -> Item \cup {NoItem, Garbled}] /\ cur'[c] = NoItem
      /\ \A d \in Conn \ {c} : cur'[d] = cur[d]
  BY <1>0, <1>1 DEF Typed
<1>4. CASE /\ got' = [got EXCEPT ![c] = got[c] + 1] /\ ws' = ws \cup {c}
           /\ raw' = [raw EXCEPT ![c] = <<>>] /\ Go(c, "header")
  <2>1. "header" \in Places /\ <<>> \in Seq(Byte) /\ Len(<<>>) = 0
    BY DEF Places, Fields
  <2>2. at' \in [Conn -> Places] /\ at'[c] = "header" /\ \A d \in Conn \ {c} : at'[d] = at[d]
    BY <1>0, <1>4, <2>1, Went DEF Typed
  <2>3. /\ got'[c] = taken[c] /\ raw'[c] = <<>> /\ c \in ws'
        /\ \A d \in Conn \ {c} : got'[d] = got[d] /\ raw'[d] = raw[d] /\ (d \in ws' <=> d \in ws)
    BY <1>0, <1>2, <1>4 DEF Typed
  <2>4. Typed'
    <3>1. got' \in [Conn -> Nat] /\ raw' \in [Conn -> Seq(Byte)] /\ ws' \subseteq Conn
      BY <1>0, <1>2, <1>4, <2>1 DEF Typed
    <3>2. astray' \subseteq ws'
      BY <1>0, <1>1, <1>4 DEF Typed
    <3> QED
      BY <1>0, <1>1, <1>3, <2>2, <3>1, <3>2 DEF Typed
  <2>5. "header" \notin Working /\ "header" \notin Acting /\ "header" \notin Over
    BY DEF Working, Acting, Over
  <2>6. asked[c][taken[c]].kind = "upgrade" /\ taken[c] \in 1 .. Len(asked[c]) /\ c \notin ws
    BY <1>0, <1>2 DEF Reader, Busy, Sided
  <2>7. taken[c] = Len(asked[c])
    BY <2>6, UpgradeLast
  <2>8. raw[c] \o wire[c] = <<>> /\ raw[c] = <<>>
    <3>1. raw[c] \o wire[c] \in Seq(Byte) /\ Streams(asked[c], taken[c], raw[c] \o wire[c])
      BY <1>0, <1>2, Disjoint, ConcatProperties DEF Reader, Streaming
    <3>2. taken[c] \in 0 .. Len(asked[c])
      BY <1>2
    <3>3. raw[c] \o wire[c] = <<>>
      BY <1>2, <2>7, <3>1, <3>2, StreamsNext
    <3> QED
      BY <1>2, <3>3, ConcatEqualIffEmpty
  <2>9. Scripted(c)'
    BY <1>0, <1>1 DEF Reader, Scripted
  <2>10. Sided(c)'
    <3>1. taken[c] \in 1 .. taken[c]
      BY <1>2, <2>6
    <3> QED
      BY <1>1, <2>2, <2>3, <2>5, <2>6, <3>1 DEF Sided
  <2>11. Counted(c)'
    BY <1>1, <1>2, <2>2, <2>3, <2>5 DEF Counted
  <2>12. Busy(c)'
    BY <1>3, <2>2, <2>5 DEF Busy
  <2>13. Streaming(c)'
    BY <1>0, <1>1, <2>3, <2>8, Disjoint DEF Reader, Streaming
  <2>14. Framed(c)'
    BY <2>1, <2>2, <2>3, <2>5 DEF Framed
  <2>15. Reader(c)'
    BY <2>9, <2>10, <2>11, <2>12, <2>13, <2>14 DEF Reader
  <2>16. \A d \in Conn \ {c} : Same(d)
    BY <1>1, <1>3, <2>2, <2>3 DEF Same
  <2> QED
    BY <2>4, <2>15, <2>16, Assembled
<1>5. CASE Go(c, "cleanup") /\ UNCHANGED <<got, ws, raw>>
  <2>1. "cleanup" \in Places /\ "cleanup" \in Over
    BY DEF Places, Over
  <2>2. at' \in [Conn -> Places] /\ at'[c] = "cleanup" /\ \A d \in Conn \ {c} : at'[d] = at[d]
    BY <1>0, <1>5, <2>1, Went DEF Typed
  <2>3. Typed'
    BY <1>0, <1>1, <1>3, <1>5, <2>2 DEF Typed
  <2>4. taken[c] <= taken[c] /\ got[c] <= taken[c]
    BY <1>2
  <2>5. Reader(c)'
    BY <1>1, <1>2, <1>5, <2>1, <2>2, <2>4, Left
  <2>6. \A d \in Conn \ {c} : Same(d)
    BY <1>1, <1>3, <1>5, <2>2 DEF Same
  <2> QED
    BY <2>3, <2>5, <2>6, Assembled
<1> QED
  BY <1>4, <1>5 DEF Handshake

-----------------------------------------------------------------------------
(* Frames. *)

\* What a read within a frame brings belongs to that frame, and no more of it
\* than the field has room for.
LEMMA FieldRead ==
  ASSUME StreamInv, NEW c \in Conn, at[c] \in Fields,
         NEW n \in 1 .. Min({Missing(c), Len(wire[c])}), Receive(c, n), asked' = asked
  PROVE  LET x == asked[c][taken[c] + 1] IN
         /\ n \in 1 .. Len(wire[c]) /\ Missing(c) \in Nat /\ n <= Missing(c)
         /\ FrameOf(c) = x /\ x.long \in BOOLEAN /\ x.size \in Nat
         /\ raw'[c] # <<>> /\ Len(raw'[c]) = Len(raw[c]) + n /\ Len(raw[c]) \in Nat
         /\ at[c] = "payload" => Missing(c) = HeadLength(x) + x.size - Len(raw[c])
         /\ Streams(asked[c], taken[c], raw'[c] \o wire'[c])
<1> DEFINE x == asked[c][taken[c] + 1]
<1>0. /\ Sided(c) /\ Streaming(c) /\ Framed(c) /\ asked[c] \in Seq(Item) /\ taken[c] \in 0 .. Len(asked[c])
      /\ wire \in [Conn -> Seq(Byte)] /\ raw \in [Conn -> Seq(Byte)] /\ taken[c] \in Nat /\ Len(asked[c]) \in Nat
  BY DEF StreamInv, Typed, Reader, Counted
<1>1. Len(wire[c]) \in Nat /\ Len(raw[c]) \in Nat
  BY <1>0
<1>2. Missing(c) \in Int /\ (at[c] = "payload" => Missing(c) = HeadLength(x) + x.size - Len(raw[c]))
  <2>1. CASE at[c] = "payload"
    <3>1. raw[c] # <<>>
      BY <2>1, Begun
    <3>2. /\ x.size \in Nat /\ Len(Parts(x)) = HeadLength(x) + x.size /\ raw[c][1].item = taken[c] + 1
      BY <3>1, InFrame
    <3>3. Missing(c) = Len(Parts(asked[c][raw[c][1].item])) - Len(raw[c])
      BY <2>1 DEF Missing
    <3>4. HeadLength(x) \in Nat
      BY DEF HeadLength
    <3> QED
      BY <1>1, <3>2, <3>3, <3>4
  <2>2. CASE at[c] = "header"
    BY <1>1, <2>2 DEF Missing
  <2>3. CASE at[c] \in {"ext", "mask"}
    <3>1. Missing(c) = 2
      BY <2>3 DEF Missing
    <3>2. at[c] # "payload"
      BY <2>3
    <3> QED
      BY <3>1, <3>2
  <2> QED
    BY <2>1, <2>2, <2>3 DEF Fields
<1>3. n \in Nat /\ n > 0 /\ n <= Missing(c) /\ n <= Len(wire[c])
  <2> DEFINE m == Min({Missing(c), Len(wire[c])})
  <2>1. m \in Int /\ m <= Missing(c) /\ m <= Len(wire[c])
    <3> DEFINE u == Missing(c)
               v == Len(wire[c])
    <3>1. u \in Int /\ v \in Int
      BY <1>1, <1>2
    <3> HIDE DEF u, v
    <3>2. Min({u, v}) \in Int /\ Min({u, v}) <= u /\ Min({u, v}) <= v
      BY <3>1, MinOfTwo
    <3> QED
      BY <3>2 DEF u, v
  <2>2. n \in 1 .. m
    OBVIOUS
  <2> HIDE DEF m
  <2> QED
    BY <1>1, <1>2, <2>1, <2>2
<1>4. n \in 1 .. Len(wire[c]) /\ Missing(c) \in Nat
  BY <1>1, <1>2, <1>3
<1>5. /\ raw' \in [Conn -> Seq(Byte)] /\ wire' \in [Conn -> Seq(Byte)]
      /\ raw'[c] \o wire'[c] = raw[c] \o wire[c]
      /\ Len(raw'[c]) = Len(raw[c]) + n
  BY <1>4, Received
<1>6. raw'[c] \in Seq(Byte) /\ wire'[c] \in Seq(Byte) /\ raw'[c] # <<>>
  <2>1. Len(raw'[c]) # 0
    BY <1>1, <1>3, <1>5
  <2> QED
    BY <1>5, <2>1
<1>7. Streams(asked[c], taken[c], raw'[c] \o wire'[c])
  BY <1>0, <1>5, Disjoint DEF Streaming
<1>8. /\ taken[c] + 1 \in 1 .. Len(asked[c]) /\ x \in Item /\ raw'[c][1].item = taken[c] + 1
  BY <1>0, <1>6, <1>7, FirstBytes
<1>9. FrameOf(c) = x
  BY <1>8 DEF FrameOf
<1>10. x.kind \in Frames
  <2>1. c \in ws
    BY <1>0 DEF Sided
  <2>2. taken[c] + 1 \in taken[c] + 1 .. Len(asked[c])
    BY <1>0, <1>8
  <2> QED
    BY <2>1, <2>2, FramesLeft
<1>11. x.long \in BOOLEAN /\ x.size \in Nat
  BY <1>8, <1>10, Kinds
<1> QED
  BY <1>1, <1>2, <1>3, <1>4, <1>5, <1>6, <1>7, <1>9, <1>11

LEMMA ReadFieldStream ==
  ASSUME StreamInv, NEW c \in Conn, ReadField(c)
  PROVE  StreamInv'
<1> DEFINE x == asked[c][taken[c] + 1]
<1>0. Typed /\ Reader(c) /\ at[c] \in Fields
  BY DEF StreamInv, ReadField
<1>1. UNCHANGED <<cur, tok, fresh, script, asked, gone, ws, got, known, taken>>
  BY DEF ReadField
<1>2. PICK n \in 1 .. Min({Missing(c), Len(wire[c])}) :
        /\ Receive(c, n)
        /\ IF n = Missing(c)
           THEN Go(c, NextField(c)) /\ UNCHANGED astray
           ELSE IF at[c] \in {"header", "payload"}
           THEN UNCHANGED <<at, astray>>
           ELSE Go(c, "garbled") /\ astray' = astray \cup {c}
  BY DEF ReadField
<1>3. /\ n \in 1 .. Len(wire[c]) /\ Missing(c) \in Nat /\ n <= Missing(c)
      /\ FrameOf(c) = x /\ x.long \in BOOLEAN /\ x.size \in Nat
      /\ raw'[c] # <<>> /\ Len(raw'[c]) = Len(raw[c]) + n /\ Len(raw[c]) \in Nat
      /\ at[c] = "payload" => Missing(c) = HeadLength(x) + x.size - Len(raw[c])
      /\ Streams(asked[c], taken[c], raw'[c] \o wire'[c])
  BY <1>0, <1>1, <1>2, FieldRead
<1>4. /\ raw' \in [Conn -> Seq(Byte)] /\ wire' \in [Conn -> Seq(Byte)]
      /\ \A d \in Conn \ {c} : raw'[d] = raw[d] /\ wire'[d] = wire[d]
  BY <1>2, <1>3, Received
<1>5. at[c] = "header" => Missing(c) = 2 - Len(raw[c])
  BY DEF Missing
<1>6. at[c] \in {"ext", "mask"} => Missing(c) = 2
  BY DEF Missing
<1>7. /\ at[c] = "header" => Len(raw[c]) < 2
      /\ at[c] = "ext" => Len(raw[c]) = 2 /\ x.long
      /\ at[c] = "mask" => Len(raw[c]) + 2 = HeadLength(x)
      /\ at[c] = "payload" => HeadLength(x) <= Len(raw[c]) /\ Len(raw[c]) < HeadLength(x) + x.size
  BY <1>0 DEF Reader, Framed
<1>8. /\ x.long => HeadLength(x) = 6
      /\ ~ x.long => HeadLength(x) = 4
      /\ HeadLength(x) \in Nat
  BY DEF HeadLength
<1>9. c \in ws /\ c \in ws'
  BY <1>0, <1>1 DEF Reader, Sided
<1> HIDE DEF x
<1>10. CASE at'[c] \in Fields \cup {"act"} /\ at' \in [Conn -> Places] /\ UNCHANGED astray
            /\ (\A d \in Conn \ {c} : at'[d] = at[d])
            /\ (at'[c] = "header" => Len(raw'[c]) < 2)
            /\ (at'[c] = "ext" => Len(raw'[c]) = 2 /\ x.long)
            /\ (at'[c] = "mask" => Len(raw'[c]) + 2 = HeadLength(x))
            /\ (at'[c] = "payload" => HeadLength(x) <= Len(raw'[c]) /\ Len(raw'[c]) < HeadLength(x) + x.size)
            /\ (at'[c] = "act" => Len(raw'[c]) = HeadLength(x) + x.size)
  <2>1. Typed'
    BY <1>0, <1>1, <1>4, <1>10 DEF Typed
  <2>2. /\ at'[c] # "read" /\ at'[c] \notin Working /\ at'[c] \notin Acting /\ at'[c] \notin Over
        /\ at'[c] # "handshake"
    BY <1>10 DEF Working, Acting, Over, Fields
  <2>3. Scripted(c)'
    BY <1>0, <1>1 DEF Reader, Scripted
  <2>4. Sided(c)'
    BY <1>0, <1>1, <1>9, <2>2 DEF Reader, Sided
  <2>5. Counted(c)'
    BY <1>0, <1>1, <2>2 DEF Reader, Counted
  <2>6. Busy(c)'
    BY <1>0, <1>1, <2>2 DEF Reader, Busy
  <2>7. Streaming(c)'
    BY <1>1, <1>3 DEF Streaming
  <2>8. Framed(c)'
    <3>1. at'[c] \notin Acting
      BY <2>2
    <3>2. x = asked'[c][taken'[c] + 1]
      BY <1>1 DEF x
    <3> QED
      BY <1>3, <1>10, <3>1, <3>2 DEF Framed
  <2>9. Reader(c)'
    BY <2>3, <2>4, <2>5, <2>6, <2>7, <2>8 DEF Reader
  <2>10. \A d \in Conn \ {c} : Same(d)
    BY <1>1, <1>4, <1>10 DEF Same
  <2> QED
    BY <2>1, <2>9, <2>10, Assembled
<1>11. CASE n = Missing(c)
  <2>1. NextField(c) \in Fields \cup {"act"}
    BY <1>0, <1>3 DEF NextField, Fields
  <2>2. NextField(c) \in Places /\ Go(c, NextField(c)) /\ UNCHANGED astray
    BY <1>2, <1>11, <2>1 DEF Places
  <2>3. /\ at' \in [Conn -> Places] /\ at'[c] = NextField(c)
        /\ \A d \in Conn \ {c} : at'[d] = at[d]
    BY <1>0, <2>2, Went DEF Typed
  <2>4. /\ at[c] = "header" => NextField(c) = (IF x.long THEN "ext" ELSE "mask")
        /\ at[c] = "ext" => NextField(c) = "mask"
        /\ at[c] = "mask" => NextField(c) = (IF x.size > 0 THEN "payload" ELSE "act")
        /\ at[c] = "payload" => NextField(c) = "act"
    BY <1>3 DEF NextField
  <2>5. /\ at[c] = "header" => Len(raw'[c]) = 2
        /\ at[c] = "ext" => Len(raw'[c]) = 4 /\ x.long
        /\ at[c] = "mask" => Len(raw'[c]) = HeadLength(x)
        /\ at[c] = "payload" => Len(raw'[c]) = HeadLength(x) + x.size
    <3>1. CASE at[c] = "header"
      BY <1>3, <1>5, <1>11, <3>1
    <3>2. CASE at[c] = "ext"
      <4>1. n = 2 /\ Len(raw[c]) = 2 /\ x.long
        BY <1>6, <1>7, <1>11, <3>2
      <4>2. Len(raw'[c]) = Len(raw[c]) + n
        BY <1>3
      <4>3. Len(raw'[c]) = 4
        BY <4>1, <4>2
      <4> QED
        BY <3>2, <4>1, <4>3
    <3>3. CASE at[c] = "mask"
      BY <1>3, <1>6, <1>7, <1>8, <1>11, <3>3
    <3>4. CASE at[c] = "payload"
      BY <1>3, <1>8, <1>11, <3>4
    <3> QED
      BY <1>0, <3>1, <3>2, <3>3, <3>4 DEF Fields
  <2>6. /\ at'[c] = "header" => Len(raw'[c]) < 2
        /\ at'[c] = "ext" => Len(raw'[c]) = 2 /\ x.long
        /\ at'[c] = "mask" => Len(raw'[c]) + 2 = HeadLength(x)
        /\ at'[c] = "payload" => HeadLength(x) <= Len(raw'[c]) /\ Len(raw'[c]) < HeadLength(x) + x.size
        /\ at'[c] = "act" => Len(raw'[c]) = HeadLength(x) + x.size
    <3>1. CASE at[c] = "header"
      <4>1. Len(raw'[c]) = 2 /\ at'[c] = (IF x.long THEN "ext" ELSE "mask")
        BY <2>3, <2>4, <2>5, <3>1
      <4>2. CASE x.long
        BY <4>1, <4>2
      <4>3. CASE ~ x.long
        BY <1>8, <4>1, <4>3
      <4> QED
        BY <4>2, <4>3
    <3>2. CASE at[c] = "ext"
      <4>1. Len(raw'[c]) = 4 /\ at'[c] = "mask" /\ HeadLength(x) = 6
        BY <1>8, <2>3, <2>4, <2>5, <3>2
      <4> QED
        BY <4>1
    <3>3. CASE at[c] = "mask"
      BY <1>3, <1>8, <2>3, <2>4, <2>5, <3>3
    <3>4. CASE at[c] = "payload"
      BY <2>3, <2>4, <2>5, <3>4
    <3> QED
      BY <1>0, <3>1, <3>2, <3>3, <3>4 DEF Fields
  <2> QED
    BY <1>10, <2>1, <2>2, <2>3, <2>6
<1>12. CASE n # Missing(c) /\ at[c] \in {"header", "payload"}
  <2>1. UNCHANGED <<at, astray>> /\ n < Missing(c)
    BY <1>2, <1>3, <1>12
  <2>2. at' \in [Conn -> Places] /\ at'[c] \in Fields
    BY <1>0, <2>1 DEF Typed
  <2>3. /\ at[c] = "header" => Len(raw'[c]) < 2
        /\ at[c] = "payload" => HeadLength(x) <= Len(raw'[c]) /\ Len(raw'[c]) < HeadLength(x) + x.size
    BY <1>3, <1>5, <1>7, <1>8, <2>1
  <2> QED
    BY <1>10, <1>12, <2>1, <2>2, <2>3
<1>13. CASE n # Missing(c) /\ at[c] \notin {"header", "payload"}
  <2>1. Go(c, "garbled") /\ astray' = astray \cup {c}
    BY <1>2, <1>13
  <2>2. "garbled" \in Places /\ "garbled" \in Over
    BY DEF Places, Over
  <2>3. at' \in [Conn -> Places] /\ at'[c] = "garbled" /\ \A d \in Conn \ {c} : at'[d] = at[d]
    BY <1>0, <2>1, <2>2, Went DEF Typed
  <2>4. Typed'
    BY <1>0, <1>1, <1>4, <1>9, <2>1, <2>3 DEF Typed
  <2>5. got[c] <= taken[c] /\ taken[c] <= taken[c] /\ taken[c] <= Len(asked[c]) /\ taken[c] \in Nat
    BY <1>0 DEF Reader, Counted, Typed
  <2>6. Reader(c)'
    BY <1>1, <2>2, <2>3, <2>5, Left
  <2>7. \A d \in Conn \ {c} : Same(d)
    BY <1>1, <1>4, <2>3 DEF Same
  <2> QED
    BY <2>4, <2>6, <2>7, Assembled
<1> QED
  BY <1>11, <1>12, <1>13

LEMMA ReadFieldEndStream ==
  ASSUME StreamInv, NEW c \in Conn, ReadFieldEnd(c)
  PROVE  StreamInv'
<1>0. Typed /\ Reader(c) /\ at[c] \in Fields /\ Go(c, "cleanup") /\ c \in ws
  BY DEF StreamInv, ReadFieldEnd, Reader, Sided
<1>1. /\ UNCHANGED <<cur, tok, fresh, script, asked, wire, raw, gone, ws, got, known, taken>>
      /\ astray' \subseteq astray \cup {c}
  BY DEF ReadFieldEnd
<1>2. "cleanup" \in Places /\ "cleanup" \in Over
  BY DEF Places, Over
<1>3. at' \in [Conn -> Places] /\ at'[c] = "cleanup" /\ \A d \in Conn \ {c} : at'[d] = at[d]
  BY <1>0, <1>2, Went DEF Typed
<1>4. Typed'
  BY <1>0, <1>1, <1>3 DEF Typed
<1>5. got[c] <= taken[c] /\ taken[c] <= taken[c] /\ taken[c] <= Len(asked[c]) /\ taken[c] \in Nat
  BY <1>0 DEF Reader, Counted, Typed
<1>6. Reader(c)'
  BY <1>1, <1>2, <1>3, <1>5, Left
<1>7. \A d \in Conn \ {c} : Same(d)
  BY <1>1, <1>3 DEF Same
<1> QED
  BY <1>4, <1>6, <1>7, Assembled

LEMMA ReadGarbledStream ==
  ASSUME StreamInv, NEW c \in Conn, ReadGarbled(c)
  PROVE  StreamInv'
<1>0. Typed /\ Reader(c) /\ at[c] = "garbled"
  BY DEF StreamInv, ReadGarbled
<1>1. UNCHANGED <<cur, tok, fresh, script, asked, gone, ws, got, known, taken, astray>>
  BY DEF ReadGarbled
<1>2. /\ raw' \in [Conn -> Seq(Byte)] /\ wire' \in [Conn -> Seq(Byte)]
      /\ \A d \in Conn \ {c} : raw'[d] = raw[d] /\ wire'[d] = wire[d]
  <2>1. CASE \E n \in 1 .. Len(wire[c]) : Receive(c, n)
    BY <2>1, Received
  <2>2. CASE UNCHANGED <<raw, wire>>
    BY <1>0, <2>2 DEF Typed
  <2> QED
    BY <2>1, <2>2 DEF ReadGarbled
<1>3. /\ at' \in [Conn -> Places] /\ at'[c] \in Over /\ \A d \in Conn \ {c} : at'[d] = at[d]
  <2>1. CASE UNCHANGED at
    BY <1>0, <2>1 DEF Typed, Over
  <2>2. CASE Go(c, "cleanup")
    <3>1. "cleanup" \in Places /\ "cleanup" \in Over
      BY DEF Places, Over
    <3> QED
      BY <1>0, <2>2, <3>1, Went DEF Typed
  <2> QED
    BY <2>1, <2>2 DEF ReadGarbled
<1>4. Typed'
  BY <1>0, <1>1, <1>2, <1>3 DEF Typed
<1>5. got[c] <= taken[c] /\ taken[c] <= taken[c] /\ taken[c] <= Len(asked[c]) /\ taken[c] \in Nat
  BY <1>0 DEF Reader, Counted, Typed
<1>6. Reader(c)'
  BY <1>1, <1>3, <1>5, Left
<1>7. \A d \in Conn \ {c} : Same(d)
  BY <1>1, <1>2, <1>3 DEF Same
<1> QED
  BY <1>4, <1>6, <1>7, Assembled

\* The frame that is acted on is the next one, and nothing of it is left over.
LEMMA FrameWhole ==
  ASSUME StreamInv, NEW c \in Conn, at[c] = "act"
  PROVE  /\ taken[c] + 1 \in 1 .. Len(asked[c]) /\ raw[c][1].item = taken[c] + 1
         /\ asked[c][taken[c] + 1] \in Item /\ asked[c][taken[c] + 1].kind \in Frames
         /\ asked[c][taken[c] + 1].size \in Nat
         /\ Decode(c, taken[c] + 1, raw[c]) = asked[c][taken[c] + 1]
         /\ Streams(asked[c], taken[c] + 1, <<>> \o wire[c])
<1> DEFINE a == asked[c]
           t == taken[c]
           r == raw[c]
           w == wire[c]
           x == a[t + 1]
<1>0. Framed(c) /\ Streaming(c)
  BY DEF StreamInv, Reader
<1>1. a \in Seq(Item) /\ t \in 0 .. Len(a) /\ r \in Seq(Byte) /\ w \in Seq(Byte) /\ Len(a) \in Nat /\ t \in Nat
  BY DEF StreamInv, Typed, Reader, Counted
<1>2. Streams(a, t, r \o w)
  BY <1>0, Disjoint DEF Streaming
<1>3. r # <<>>
  BY Begun
<1>4. /\ t + 1 \in 1 .. Len(a) /\ x \in Item /\ x.kind \in Frames /\ x.size \in Nat
      /\ Len(Parts(x)) = HeadLength(x) + x.size /\ r[1].item = t + 1
  BY <1>3, InFrame
<1>5. Len(r) = Len(Parts(x))
  BY <1>0, <1>4 DEF Framed
<1> DEFINE n == Len(r)
<1> HIDE DEF a, t, r, w
<1>6. n \in Nat /\ n \in 0 .. Len(r) /\ n = Len(Parts(a[t + 1])) /\ t < Len(a)
  BY <1>1, <1>4, <1>5
<1> HIDE DEF n
<1> DEFINE z == r \o w
<1>7. /\ SubSeq(z, 1, n) = SubSeq(r, 1, n)
      /\ SubSeq(z, n + 1, Len(z)) = SubSeq(r, n + 1, Len(r)) \o w
  <2>1. /\ SubSeq(r \o w, 1, n) = SubSeq(r, 1, n)
        /\ SubSeq(r \o w, n + 1, Len(r \o w)) = SubSeq(r, n + 1, Len(r)) \o w
    BY <1>1, <1>6, PartedBytes, Zenon
  <2> QED
    BY <2>1, Zenon
<1>8. z \in Seq(Byte) /\ Streams(a, t, z)
  BY <1>1, <1>2, ConcatProperties
<1> HIDE DEF z
<1>9. /\ SubSeq(z, 1, n) = Bytes(a[t + 1], t + 1)
      /\ Streams(a, t + 1, SubSeq(z, n + 1, Len(z)))
  BY <1>1, <1>6, <1>8, StreamsTaken
<1>10. SubSeq(r, 1, n) = r
  BY <1>1, SubSeqFull DEF n
<1>11. SubSeq(r, n + 1, Len(r)) = <<>>
  <2>1. n + 1 \in Int /\ Len(r) \in Int /\ Len(r) < n + 1
    BY <1>6 DEF n
  <2> QED
    BY <2>1, SubSeqEmpty
<1>12. Decode(c, t + 1, r) = x
  BY <1>7, <1>9, <1>10 DEF Decode, a
<1>13. Streams(a, t + 1, <<>> \o w)
  BY <1>7, <1>9, <1>11
<1> QED
  BY <1>4, <1>12, <1>13 DEF a, t, r, w

LEMMA ActStream ==
  ASSUME StreamInv, NEW c \in Conn, Act(c)
  PROVE  StreamInv'
<1> DEFINE x == asked[c][taken[c] + 1]
<1>0. Typed /\ Reader(c) /\ at[c] = "act"
  BY DEF StreamInv, Act
<1>1. /\ taken[c] + 1 \in 1 .. Len(asked[c]) /\ raw[c][1].item = taken[c] + 1
      /\ x \in Item /\ x.kind \in Frames /\ x.size \in Nat
      /\ Decode(c, taken[c] + 1, raw[c]) = x
      /\ Streams(asked[c], taken[c] + 1, <<>> \o wire[c])
  BY <1>0, FrameWhole
<1>2. /\ taken' = [taken EXCEPT ![c] = taken[c] + 1]
      /\ raw' = [raw EXCEPT ![c] = <<>>]
      /\ UNCHANGED <<tok, fresh, script, asked, wire, gone, ws, got, known, astray>>
  BY DEF Act
<1>3. \/ Go(c, "cleanup") /\ UNCHANGED cur
      \/ \E p \in {"pong", "rpushWait", "acted"} : Go(c, p) /\ cur' = [cur EXCEPT ![c] = x]
  BY <1>1 DEF Act
<1>4. /\ taken[c] \in Nat /\ taken'[c] = taken[c] + 1 /\ raw'[c] = <<>>
      /\ Len(asked[c]) \in Nat /\ got[c] \in Nat /\ got[c] <= taken[c]
      /\ \A d \in Conn \ {c} : taken'[d] = taken[d] /\ raw'[d] = raw[d]
  BY <1>0, <1>2 DEF Typed, Reader, Counted
<1>5. taken' \in [Conn -> Nat] /\ raw' \in [Conn -> Seq(Byte)]
  BY <1>0, <1>2, <1>4 DEF Typed
<1>6. CASE Go(c, "cleanup") /\ UNCHANGED cur
  <2>1. "cleanup" \in Places /\ "cleanup" \in Over
    BY DEF Places, Over
  <2>2. at' \in [Conn -> Places] /\ at'[c] = "cleanup" /\ \A d \in Conn \ {c} : at'[d] = at[d]
    BY <1>0, <1>6, <2>1, Went DEF Typed
  <2>3. Typed'
    BY <1>0, <1>2, <1>5, <1>6, <2>2 DEF Typed
  <2>4. got'[c] <= taken'[c] /\ taken[c] <= taken'[c] /\ taken'[c] <= Len(asked[c]) /\ taken'[c] \in Nat
    BY <1>1, <1>2, <1>4
  <2>5. Reader(c)'
    BY <1>2, <2>1, <2>2, <2>4, Left
  <2>6. \A d \in Conn \ {c} : Same(d)
    BY <1>2, <1>4, <1>6, <2>2 DEF Same
  <2> QED
    BY <2>3, <2>5, <2>6, Assembled
<1>7. ASSUME NEW p \in {"pong", "rpushWait", "acted"}, Go(c, p), cur' = [cur EXCEPT ![c] = x]
      PROVE  StreamInv'
  <2>1. p \in Acting /\ p \in Places /\ p # "read" /\ p # "act" /\ p # "handshake"
        /\ p \notin Working /\ p \notin Fields /\ p \notin Over
    BY DEF Acting, Places, Working, Fields, Over
  <2>2. at' \in [Conn -> Places] /\ at'[c] = p /\ \A d \in Conn \ {c} : at'[d] = at[d]
    BY <1>0, <1>7, <2>1, Went DEF Typed
  <2>3. cur' \in [Conn -> Item \cup {NoItem, Garbled}] /\ cur'[c] = x
        /\ \A d \in Conn \ {c} : cur'[d] = cur[d]
    BY <1>0, <1>1, <1>7 DEF Typed
  <2>4. Typed'
    BY <1>0, <1>2, <1>5, <2>2, <2>3 DEF Typed
  <2>5. Scripted(c)'
    BY <1>0, <1>2 DEF Reader, Scripted
  <2>6. Sided(c)'
    <3>1. c \in ws /\ Sided(c)
      BY <1>0 DEF Reader, Sided
    <3>2. PICK k \in 1 .. taken[c] : asked[c][k].kind = "upgrade"
      BY <3>1 DEF Sided
    <3>3. k \in 1 .. taken'[c]
      BY <1>4
    <3> QED
      BY <1>2, <2>1, <2>2, <3>1, <3>2, <3>3 DEF Sided
  <2>7. Counted(c)'
    <3>1. taken'[c] <= Len(asked'[c]) /\ got'[c] <= taken'[c]
      BY <1>1, <1>2, <1>4
    <3> QED
      BY <2>1, <2>2, <3>1 DEF Counted
  <2>8. Busy(c)'
    <3>1. taken'[c] > 0 /\ cur'[c] = asked'[c][taken'[c]]
      BY <1>2, <1>4, <2>3
    <3> QED
      BY <2>1, <2>2, <3>1 DEF Busy
  <2>9. Streaming(c)'
    BY <1>1, <1>2, <1>4 DEF Streaming
  <2>10. Framed(c)'
    <3>1. p # "header" /\ p \notin {"ext", "mask", "payload", "act"}
      OBVIOUS
    <3> QED
      BY <1>4, <2>2, <3>1 DEF Framed
  <2>11. Reader(c)'
    BY <2>5, <2>6, <2>7, <2>8, <2>9, <2>10 DEF Reader
  <2>12. \A d \in Conn \ {c} : Same(d)
    BY <1>2, <1>4, <2>2, <2>3 DEF Same
  <2> QED
    BY <2>4, <2>11, <2>12, Assembled
<1> QED
  BY <1>3, <1>6, <1>7

LEMMA PushedStream ==
  ASSUME StreamInv, NEW c \in Conn, Pushed(c)
  PROVE  StreamInv'
<1>0. Typed /\ Reader(c) /\ at[c] = "rpushWait" /\ at[c] \in Acting /\ Go(c, "ltrimWait")
  BY DEF StreamInv, Pushed, Acting
<1>1. UNCHANGED <<cur, tok, fresh, script, asked, wire, raw, gone, ws, got, known, taken, astray>>
  BY DEF Pushed, streamVars
<1>2. "ltrimWait" \in Places /\ "ltrimWait" \in Acting
  BY DEF Places, Acting
<1>3. at' \in [Conn -> Places] /\ at'[c] = "ltrimWait" /\ \A d \in Conn \ {c} : at'[d] = at[d]
  BY <1>0, <1>2, Went DEF Typed
<1>4. Typed'
  BY <1>0, <1>1, <1>3 DEF Typed
<1>5. /\ at'[c] # "read" /\ at'[c] # "act" /\ at'[c] # "handshake" /\ at'[c] # "header"
      /\ at'[c] \notin {"ext", "mask", "payload", "act"}
      /\ at'[c] \notin Working /\ at'[c] \notin Fields /\ at'[c] \in Acting
  BY <1>3 DEF Working, Fields, Acting
<1>6. Scripted(c)'
  BY <1>0, <1>1 DEF Reader, Scripted
<1>7. Sided(c)'
  BY <1>0, <1>1, <1>5 DEF Reader, Sided
<1>8. Counted(c)'
  BY <1>0, <1>1, <1>5 DEF Reader, Counted
<1>9. Busy(c)'
  BY <1>0, <1>1, <1>5 DEF Reader, Busy
<1>10. Streaming(c)'
  BY <1>0, <1>1, Disjoint DEF Reader, Streaming
<1>11. Framed(c)'
  BY <1>0, <1>1, <1>5 DEF Reader, Framed
<1>12. Reader(c)'
  BY <1>6, <1>7, <1>8, <1>9, <1>10, <1>11 DEF Reader
<1>13. \A d \in Conn \ {c} : Same(d)
  BY <1>1, <1>3 DEF Same
<1> QED
  BY <1>4, <1>12, <1>13, Assembled

LEMMA FrameDoneStream ==
  ASSUME StreamInv, NEW c \in Conn, FrameDone(c)
  PROVE  StreamInv'
<1>0. Typed /\ Reader(c) /\ at[c] \in Acting /\ c \in ws
  BY DEF StreamInv, FrameDone, Acting, Reader, Sided
<1>1. /\ UNCHANGED <<tok, fresh, script, asked, wire, raw, gone, ws, got, known, taken>>
      /\ cur' = [cur EXCEPT ![c] = NoItem]
  BY DEF FrameDone
<1>2. cur' \in [Conn -> Item \cup {NoItem, Garbled}] /\ cur'[c] = NoItem
      /\ \A d \in Conn \ {c} : cur'[d] = cur[d]
  BY <1>0, <1>1 DEF Typed
<1>3. CASE Go(c, "header") /\ UNCHANGED astray
  <2>1. "header" \in Places /\ "header" \in Fields /\ "header" \notin Working
        /\ "header" \notin Acting /\ "header" \notin Over
    BY DEF Places, Fields, Working, Acting, Over
  <2>2. at' \in [Conn -> Places] /\ at'[c] = "header" /\ \A d \in Conn \ {c} : at'[d] = at[d]
    BY <1>0, <1>3, <2>1, Went DEF Typed
  <2>3. Typed'
    BY <1>0, <1>1, <1>2, <1>3, <2>2 DEF Typed
  <2>4. Scripted(c)'
    BY <1>0, <1>1 DEF Reader, Scripted
  <2>5. Sided(c)'
    BY <1>0, <1>1, <2>1, <2>2 DEF Reader, Sided
  <2>6. Counted(c)'
    BY <1>0, <1>1, <2>1, <2>2 DEF Reader, Counted
  <2>7. Busy(c)'
    BY <1>2, <2>1, <2>2 DEF Busy
  <2>8. Streaming(c)'
    BY <1>0, <1>1, Disjoint DEF Reader, Streaming
  <2>9. Framed(c)'
    <3>1. raw'[c] = <<>> /\ Len(<<>>) = 0
      BY <1>0, <1>1 DEF Reader, Framed
    <3> QED
      BY <2>1, <2>2, <3>1 DEF Framed
  <2>10. Reader(c)'
    BY <2>4, <2>5, <2>6, <2>7, <2>8, <2>9 DEF Reader
  <2>11. \A d \in Conn \ {c} : Same(d)
    BY <1>1, <1>2, <2>2 DEF Same
  <2> QED
    BY <2>3, <2>10, <2>11, Assembled
<1>4. CASE Go(c, "cleanup") /\ astray' = astray \cup {c}
  <2>1. "cleanup" \in Places /\ "cleanup" \in Over
    BY DEF Places, Over
  <2>2. at' \in [Conn -> Places] /\ at'[c] = "cleanup" /\ \A d \in Conn \ {c} : at'[d] = at[d]
    BY <1>0, <1>4, <2>1, Went DEF Typed
  <2>3. Typed'
    BY <1>0, <1>1, <1>2, <1>4, <2>2 DEF Typed
  <2>4. got[c] <= taken[c] /\ taken[c] <= taken[c] /\ taken[c] <= Len(asked[c]) /\ taken[c] \in Nat
    BY <1>0 DEF Reader, Counted, Typed
  <2>5. Reader(c)'
    BY <1>1, <2>1, <2>2, <2>4, Left
  <2>6. \A d \in Conn \ {c} : Same(d)
    BY <1>1, <1>2, <2>2 DEF Same
  <2> QED
    BY <2>3, <2>5, <2>6, Assembled
<1> QED
  BY <1>3, <1>4 DEF FrameDone

LEMMA CloseStream ==
  ASSUME StreamInv, NEW c \in Conn, Close(c)
  PROVE  StreamInv'
<1>0. Typed /\ Reader(c) /\ Go(c, "closed")
  BY DEF StreamInv, Close
<1>1. /\ UNCHANGED <<cur, tok, fresh, script, asked, ws, got, known, taken, astray>>
      /\ raw' = [raw EXCEPT ![c] = <<>>] /\ wire' = [wire EXCEPT ![c] = <<>>]
      /\ gone' = gone \cup {c}
  BY DEF Close
<1>2. "closed" \in Places /\ "closed" \in Over /\ <<>> \in Seq(Byte)
  BY DEF Places, Over
<1>3. at' \in [Conn -> Places] /\ at'[c] = "closed" /\ \A d \in Conn \ {c} : at'[d] = at[d]
  BY <1>0, <1>2, Went DEF Typed
<1>4. /\ raw' \in [Conn -> Seq(Byte)] /\ wire' \in [Conn -> Seq(Byte)]
      /\ \A d \in Conn \ {c} : raw'[d] = raw[d] /\ wire'[d] = wire[d]
  BY <1>0, <1>1, <1>2 DEF Typed
<1>5. Typed'
  BY <1>0, <1>1, <1>3, <1>4 DEF Typed
<1>6. got[c] <= taken[c] /\ taken[c] <= taken[c] /\ taken[c] <= Len(asked[c]) /\ taken[c] \in Nat
  BY <1>0 DEF Reader, Counted, Typed
<1>7. Reader(c)'
  BY <1>1, <1>2, <1>3, <1>6, Left
<1>8. \A d \in Conn \ {c} : Same(d)
  BY <1>1, <1>3, <1>4 DEF Same
<1> QED
  BY <1>5, <1>7, <1>8, Assembled

LEMMA StreamStays == StreamInv /\ [Next]_vars => StreamInv'
<1> SUFFICES ASSUME StreamInv, [Next]_vars
             PROVE  StreamInv'
  OBVIOUS
<1>1. ASSUME NEW c \in Conn, Step(c)
      PROVE  StreamInv'
  <2>1. CASE AccountStep(c) /\ UNCHANGED streamVars
    BY <2>1, AccountStream
  <2>2. CASE ReadRequest(c)
    BY <2>2, ReadRequestStream
  <2>3. CASE BadRequest(c)
    BY <2>3, BadRequestStream
  <2>4. CASE TakeRequest(c)
    BY <2>4, TakeRequestStream
  <2>5. CASE WriteResponse(c)
    BY <2>5, WriteResponseStream
  <2>6. CASE Handshake(c)
    BY <2>6, HandshakeStream
  <2>7. CASE ReadField(c)
    BY <2>7, ReadFieldStream
  <2>8. CASE ReadFieldEnd(c)
    BY <2>8, ReadFieldEndStream
  <2>9. CASE ReadGarbled(c)
    BY <2>9, ReadGarbledStream
  <2>10. CASE Act(c)
    BY <2>10, ActStream
  <2>11. CASE Pushed(c)
    BY <2>11, PushedStream
  <2>12. CASE FrameDone(c)
    BY <2>12, FrameDoneStream
  <2>13. CASE Close(c)
    BY <2>13, CloseStream
  <2> QED
    BY <1>1, <2>1, <2>2, <2>3, <2>4, <2>5, <2>6, <2>7, <2>8, <2>9, <2>10, <2>11, <2>12, <2>13
    DEF Step, StreamStep
<1>2. CASE UNCHANGED <<accountVars, streamVars>>
  BY <1>2, StillStream
<1>3. CASE UNCHANGED vars
  <2>1. UNCHANGED <<accountVars, streamVars>>
    BY <1>3 DEF vars
  <2> QED
    BY <2>1, StillStream
<1>4. CASE Next
  <2>1. CASE \E c \in Conn : Step(c)
    BY <1>1, <2>1
  <2>2. CASE \E c \in Conn : Ask(c)
    BY <2>2, AskStream
  <2>3. CASE \E c \in Conn : HangUp(c)
    BY <2>3, HangUpStream
  <2>4. CASE Redis /\ UNCHANGED <<accountVars, streamVars>>
    BY <1>2, <2>4
  <2> QED
    BY <1>4, <2>1, <2>2, <2>3, <2>4 DEF Next
<1> QED
  BY <1>3, <1>4

\* Whatever the segmentation, what has been read and what is on its way are the
\* bytes of the items not taken, no more and no less, and the field the frame
\* reader is at is the one the bytes are at (read loops, leftover,
\* ws_decode_frame's header, length, mask key and payload).
THEOREM ReaderAlwaysInStep == Spec => []StreamInv
<1> QED
  BY InitStream, StreamStays, PTL DEF Spec

-----------------------------------------------------------------------------
(* What RequestStream sees of the connections. *)

Ended == {c \in Conn : at[c] \in {"garbled", "cleanup", "closed"}}
Seen == [c \in Conn |-> IF at[c] \in {"garbled", "cleanup", "closed"} THEN NoItem ELSE cur[c]]
Coming == [c \in Conn |-> IF at[c] \in {"garbled", "cleanup", "closed"} THEN <<>>
                          ELSE SubSeq(asked[c], taken[c] + 1, Len(asked[c]))]

LEMMA SeenAs ==
  ASSUME NEW d \in Conn
  PROVE  /\ d \in Ended <=> at[d] \in Over
         /\ at[d] \in Over => Seen[d] = NoItem /\ Coming[d] = <<>>
         /\ at[d] \notin Over => /\ Seen[d] = cur[d]
                                 /\ Coming[d] = SubSeq(asked[d], taken[d] + 1, Len(asked[d]))
BY DEF Ended, Seen, Coming, Over

LEMMA SeenNext ==
  ASSUME NEW d \in Conn
  PROVE  /\ d \in Ended' <=> at'[d] \in Over
         /\ at'[d] \in Over => Seen'[d] = NoItem /\ Coming'[d] = <<>>
         /\ at'[d] \notin Over => /\ Seen'[d] = cur'[d]
                                  /\ Coming'[d] = SubSeq(asked'[d], taken'[d] + 1, Len(asked'[d]))
BY DEF Ended, Seen, Coming, Over

\* Functions over the connections are equal when they agree on each.
LEMMA Agree ==
  ASSUME NEW f, NEW g, f = [c \in Conn |-> f[c]], g = [c \in Conn |-> g[c]],
         \A c \in Conn : f[c] = g[c]
  PROVE  f = g
OBVIOUS

LEMMA Shapes ==
  /\ Seen = [c \in Conn |-> Seen[c]] /\ Coming = [c \in Conn |-> Coming[c]]
  /\ Seen' = [c \in Conn |-> Seen'[c]] /\ Coming' = [c \in Conn |-> Coming'[c]]
  /\ Ended \subseteq Conn /\ Ended' \subseteq Conn
BY DEF Seen, Coming, Ended

\* Nothing that RequestStream sees of d has changed.
Quiet(d) ==
  /\ at'[d] \in Over <=> at[d] \in Over
  /\ at[d] \notin Over => cur'[d] = cur[d] /\ asked'[d] = asked[d] /\ taken'[d] = taken[d]

LEMMA QuietSeen ==
  ASSUME NEW d \in Conn, Quiet(d)
  PROVE  Seen'[d] = Seen[d] /\ Coming'[d] = Coming[d] /\ (d \in Ended' <=> d \in Ended)
<1>1. CASE at[d] \in Over
  BY <1>1, SeenAs, SeenNext DEF Quiet
<1>2. CASE at[d] \notin Over
  <2>1. at'[d] \notin Over /\ cur'[d] = cur[d] /\ asked'[d] = asked[d] /\ taken'[d] = taken[d]
    BY <1>2 DEF Quiet
  <2>2. /\ Seen[d] = cur[d] /\ Coming[d] = SubSeq(asked[d], taken[d] + 1, Len(asked[d]))
        /\ d \notin Ended
    BY <1>2, SeenAs
  <2>3. /\ Seen'[d] = cur'[d] /\ Coming'[d] = SubSeq(asked'[d], taken'[d] + 1, Len(asked'[d]))
        /\ d \notin Ended'
    BY <2>1, SeenNext
  <2> QED
    BY <2>1, <2>2, <2>3
<1> QED
  BY <1>1, <1>2

LEMMA SeenStill ==
  ASSUME \A d \in Conn : Quiet(d)
  PROVE  UNCHANGED Stream!vars
<1>1. \A d \in Conn : Seen'[d] = Seen[d] /\ Coming'[d] = Coming[d] /\ (d \in Ended' <=> d \in Ended)
  BY QuietSeen
<1>2. Seen' = Seen
  BY <1>1, Shapes, Agree
<1>3. Coming' = Coming
  BY <1>1, Shapes, Agree
<1>4. Ended' = Ended
  BY <1>1, Shapes
<1> QED
  BY <1>2, <1>3, <1>4 DEF Stream!vars, Seen, Coming, Ended

LEMMA SeenAsk ==
  ASSUME NEW c \in Conn, at[c] \notin Over, at'[c] \notin Over, cur'[c] = cur[c],
         asked[c] \in Seq(Item), taken[c] \in 0 .. Len(asked[c]), taken'[c] = taken[c],
         NEW y \in Item, asked'[c] = Append(asked[c], y),
         \A d \in Conn \ {c} : Quiet(d)
  PROVE  Stream!Ask(c)
<1>1. \A d \in Conn \ {c} : Seen'[d] = Seen[d] /\ Coming'[d] = Coming[d] /\ (d \in Ended' <=> d \in Ended)
  BY QuietSeen
<1>2. /\ Seen[c] = cur[c] /\ Coming[c] = SubSeq(asked[c], taken[c] + 1, Len(asked[c])) /\ c \notin Ended
      /\ Seen'[c] = cur'[c] /\ Coming'[c] = SubSeq(asked'[c], taken'[c] + 1, Len(asked'[c])) /\ c \notin Ended'
  BY SeenAs, SeenNext
<1> DEFINE a == asked[c]
           t == taken[c]
           m == Len(asked[c])
           b == Append(asked[c], y)
<1>3. a \in Seq(Item) /\ m \in Nat /\ t \in Nat /\ t <= m /\ m = Len(a)
  OBVIOUS
<1>4. /\ b \in Seq(Item) /\ Len(b) = m + 1 /\ b[m + 1] = y
      /\ \A i \in 1 .. m : b[i] = a[i]
  BY AppendProperties
<1> DEFINE p == SubSeq(a, t + 1, m)
           q == SubSeq(b, t + 1, m + 1)
<1>5. p = Coming[c] /\ q = Coming'[c]
  BY <1>2, <1>4
<1> HIDE DEF a, t, m, b
<1>6. /\ p \in Seq(Item) /\ Len(p) = m - t /\ \A i \in 1 .. m - t : p[i] = a[i + t]
  <2>1. t \in 0 .. Len(a)
    BY <1>3
  <2>2. PICK k \in 0 .. Len(a) : k = t
    BY <2>1
  <2>3. /\ SubSeq(a, k + 1, Len(a)) \in Seq(Item) /\ Len(SubSeq(a, k + 1, Len(a))) = Len(a) - k
        /\ \A i \in 1 .. Len(a) - k : SubSeq(a, k + 1, Len(a))[i] = a[i + k]
    BY <1>3, Cut
  <2> QED
    BY <1>3, <2>2, <2>3
<1>7. /\ q \in Seq(Item) /\ Len(q) = m + 1 - t /\ \A i \in 1 .. m + 1 - t : q[i] = b[i + t]
  <2> DEFINE n == Len(b)
             w == SubSeq(b, t + 1, n)
  <2>1. t \in 0 .. n /\ n = m + 1
    BY <1>3, <1>4
  <2>2. /\ w \in Seq(Item) /\ Len(w) = n - t
        /\ \A i \in 1 .. n - t : w[i] = b[i + t]
    BY <1>4, <2>1, Cut
  <2>3. n = m + 1
    BY <2>1
  <2> HIDE DEF n
  <2>4. w = q
    BY <2>3
  <2> HIDE DEF w, q
  <2>5. q \in Seq(Item) /\ Len(q) = n - t /\ \A i \in 1 .. n - t : q[i] = b[i + t]
    BY <2>2, <2>4, Zenon
  <2>6. n - t = m + 1 - t
    BY <1>3, <2>3
  <2> QED
    BY <2>5, <2>6, Zenon
<1> HIDE DEF p, q
<1>8. q = Append(p, q[Len(q)]) /\ Len(q) = Len(p) + 1
  <2>1. Len(q) = Len(p) + 1 /\ Len(q) \in 1 .. m + 1 - t
    BY <1>3, <1>6, <1>7
  <2>2. q[Len(q)] \in Item
    BY <1>7, <2>1, ElementOfSeq
  <2> DEFINE z == q[Len(q)]
  <2>3. z \in Item
    BY <2>2
  <2> HIDE DEF z
  <2>4. /\ Append(p, z) \in Seq(Item) /\ Len(Append(p, z)) = Len(p) + 1
        /\ \A i \in 1 .. Len(p) : Append(p, z)[i] = p[i]
        /\ Append(p, z)[Len(p) + 1] = z
    BY <1>6, <2>3, AppendProperties
  <2>5. \A i \in 1 .. Len(q) : q[i] = Append(p, z)[i]
    <3> TAKE i \in 1 .. Len(q)
    <3>1. CASE i = Len(q)
      BY <2>1, <2>4, <3>1 DEF z
    <3>2. CASE i \in 1 .. m - t
      <4>1. i + t \in 1 .. m /\ i \in 1 .. m + 1 - t /\ i \in 1 .. Len(p)
        BY <1>3, <1>6, <3>2
      <4>2. q[i] = b[i + t] /\ b[i + t] = a[i + t] /\ p[i] = a[i + t]
        BY <1>4, <1>6, <1>7, <3>2, <4>1
      <4> QED
        BY <2>4, <4>1, <4>2
    <3> QED
      BY <1>3, <1>6, <2>1, <3>1, <3>2
  <2> QED
    BY <1>7, <2>1, <2>4, <2>5, SeqEqual DEF z
<1>9. Coming' = [Coming EXCEPT ![c] = Append(Coming[c], Coming'[c][Len(Coming'[c])])]
  <2> DEFINE g == [Coming EXCEPT ![c] = Append(Coming[c], Coming'[c][Len(Coming'[c])])]
  <2>1. g = [d \in Conn |-> g[d]]
    BY Shapes
  <2>2. g[c] = Append(Coming[c], Coming'[c][Len(Coming'[c])]) /\ \A d \in Conn \ {c} : g[d] = Coming[d]
    BY Shapes
  <2>3. \A d \in Conn : Coming'[d] = g[d]
    BY <1>1, <1>5, <1>8, <2>2
  <2> HIDE DEF g
  <2>4. Coming' = g
    BY <2>1, <2>3, Shapes, Agree
  <2> QED
    BY <2>4 DEF g
<1>10. Seen' = Seen
  BY <1>1, <1>2, Shapes, Agree
<1>11. Ended' = Ended
  <2>1. \A d \in Conn : d \in Ended' <=> d \in Ended
    BY <1>1, <1>2
  <2> QED
    BY <2>1, Shapes
<1>12. Len(Coming'[c]) = Len(Coming[c]) + 1 /\ c \notin Ended
  BY <1>2, <1>5, <1>8
<1> QED
  BY <1>9, <1>10, <1>11, <1>12 DEF Stream!Ask, Seen, Coming, Ended

LEMMA SeenTake ==
  ASSUME NEW c \in Conn, at[c] \notin Over, at'[c] \notin Over, cur[c] = NoItem,
         asked[c] \in Seq(Item), taken[c] \in Nat, taken[c] + 1 \in 1 .. Len(asked[c]),
         asked'[c] = asked[c], taken'[c] = taken[c] + 1, cur'[c] = asked[c][taken[c] + 1],
         \A d \in Conn \ {c} : Quiet(d)
  PROVE  Stream!Take(c)
<1>1. \A d \in Conn \ {c} : Seen'[d] = Seen[d] /\ Coming'[d] = Coming[d] /\ (d \in Ended' <=> d \in Ended)
  BY QuietSeen
<1>2. /\ Seen[c] = NoItem /\ Coming[c] = SubSeq(asked[c], taken[c] + 1, Len(asked[c])) /\ c \notin Ended
      /\ Seen'[c] = cur'[c] /\ Coming'[c] = SubSeq(asked[c], (taken[c] + 1) + 1, Len(asked[c])) /\ c \notin Ended'
  BY SeenAs, SeenNext
<1>3. /\ Head(Coming[c]) = cur'[c] /\ Tail(Coming[c]) = Coming'[c] /\ Coming[c] # <<>>
  <2> DEFINE a == asked[c]
             m == taken[c] + 1
             n == Len(asked[c])
  <2>1. a \in Seq(Item) /\ m \in 1 .. Len(a) /\ n \in m .. Len(a) /\ n \in Nat /\ n = Len(a) /\ m \in Nat /\ m <= n
    OBVIOUS
  <2> HIDE DEF a, m, n
  <2>2. Head(SubSeq(a, m, n)) = a[m] /\ Tail(SubSeq(a, m, n)) = SubSeq(a, m + 1, n)
    BY <2>1, HeadTailOfSubSeq
  <2>3. SubSeq(a, m, n) # <<>>
    <3>1. \A i \in m .. n : a[i] \in Item
      BY <2>1
    <3>2. Len(SubSeq(a, m, n)) = IF m <= n THEN n - m + 1 ELSE 0
      BY <2>1, <3>1, SubSeqProperties
    <3>3. Len(SubSeq(a, m, n)) # 0
      BY <2>1, <3>2
    <3> QED
      BY <3>3, EmptySeq
  <2> QED
    BY <1>2, <2>2, <2>3 DEF a, m, n
<1>4. Coming' = [Coming EXCEPT ![c] = Tail(Coming[c])]
  <2> DEFINE g == [Coming EXCEPT ![c] = Tail(Coming[c])]
  <2>1. g = [d \in Conn |-> g[d]]
    BY Shapes
  <2>2. g[c] = Tail(Coming[c]) /\ \A d \in Conn \ {c} : g[d] = Coming[d]
    BY Shapes
  <2>3. \A d \in Conn : Coming'[d] = g[d]
    BY <1>1, <1>3, <2>2
  <2> HIDE DEF g
  <2>4. Coming' = g
    BY <2>1, <2>3, Shapes, Agree
  <2> QED
    BY <2>4 DEF g
<1>5. Seen' = [Seen EXCEPT ![c] = Head(Coming[c])]
  <2> DEFINE g == [Seen EXCEPT ![c] = Head(Coming[c])]
  <2>1. g = [d \in Conn |-> g[d]]
    BY Shapes
  <2>2. g[c] = Head(Coming[c]) /\ \A d \in Conn \ {c} : g[d] = Seen[d]
    BY Shapes
  <2>3. \A d \in Conn : Seen'[d] = g[d]
    BY <1>1, <1>2, <1>3, <2>2
  <2> HIDE DEF g
  <2>4. Seen' = g
    BY <2>1, <2>3, Shapes, Agree
  <2> QED
    BY <2>4 DEF g
<1>6. Ended' = Ended
  <2>1. \A d \in Conn : d \in Ended' <=> d \in Ended
    BY <1>1, <1>2
  <2> QED
    BY <2>1, Shapes
<1> QED
  BY <1>2, <1>3, <1>4, <1>5, <1>6 DEF Stream!Take, Seen, Coming, Ended

LEMMA SeenDone ==
  ASSUME NEW c \in Conn, at[c] \notin Over, at'[c] \notin Over, cur[c] # NoItem, cur'[c] = NoItem,
         asked'[c] = asked[c], taken'[c] = taken[c],
         \A d \in Conn \ {c} : Quiet(d)
  PROVE  Stream!Done(c)
<1>1. \A d \in Conn \ {c} : Seen'[d] = Seen[d] /\ Coming'[d] = Coming[d] /\ (d \in Ended' <=> d \in Ended)
  BY QuietSeen
<1>2. /\ Seen[c] # NoItem /\ Seen'[c] = NoItem /\ Coming'[c] = Coming[c] /\ c \notin Ended /\ c \notin Ended'
  BY SeenAs, SeenNext
<1>3. Seen' = [Seen EXCEPT ![c] = NoItem]
  <2> DEFINE g == [Seen EXCEPT ![c] = NoItem]
  <2>1. g = [d \in Conn |-> g[d]]
    BY Shapes
  <2>2. g[c] = NoItem /\ \A d \in Conn \ {c} : g[d] = Seen[d]
    BY Shapes
  <2>3. \A d \in Conn : Seen'[d] = g[d]
    BY <1>1, <1>2, <2>2
  <2> HIDE DEF g
  <2>4. Seen' = g
    BY <2>1, <2>3, Shapes, Agree
  <2> QED
    BY <2>4 DEF g
<1>4. Coming' = Coming
  BY <1>1, <1>2, Shapes, Agree
<1>5. Ended' = Ended
  <2>1. \A d \in Conn : d \in Ended' <=> d \in Ended
    BY <1>1, <1>2
  <2> QED
    BY <2>1, Shapes
<1> QED
  BY <1>2, <1>3, <1>4, <1>5 DEF Stream!Done, Seen, Coming, Ended

LEMMA SeenEnd ==
  ASSUME NEW c \in Conn, at'[c] \in Over, \A d \in Conn \ {c} : Quiet(d)
  PROVE  Stream!End(c)
<1>1. \A d \in Conn \ {c} : Seen'[d] = Seen[d] /\ Coming'[d] = Coming[d] /\ (d \in Ended' <=> d \in Ended)
  BY QuietSeen
<1>2. Seen'[c] = NoItem /\ Coming'[c] = <<>> /\ c \in Ended'
  BY SeenNext
<1>3. Seen' = [Seen EXCEPT ![c] = NoItem]
  <2> DEFINE g == [Seen EXCEPT ![c] = NoItem]
  <2>1. g = [d \in Conn |-> g[d]]
    BY Shapes
  <2>2. g[c] = NoItem /\ \A d \in Conn \ {c} : g[d] = Seen[d]
    BY Shapes
  <2>3. \A d \in Conn : Seen'[d] = g[d]
    BY <1>1, <1>2, <2>2
  <2> HIDE DEF g
  <2>4. Seen' = g
    BY <2>1, <2>3, Shapes, Agree
  <2> QED
    BY <2>4 DEF g
<1>4. Coming' = [Coming EXCEPT ![c] = <<>>]
  <2> DEFINE g == [Coming EXCEPT ![c] = <<>>]
  <2>1. g = [d \in Conn |-> g[d]]
    BY Shapes
  <2>2. g[c] = <<>> /\ \A d \in Conn \ {c} : g[d] = Coming[d]
    BY Shapes
  <2>3. \A d \in Conn : Coming'[d] = g[d]
    BY <1>1, <1>2, <2>2
  <2> HIDE DEF g
  <2>4. Coming' = g
    BY <2>1, <2>3, Shapes, Agree
  <2> QED
    BY <2>4 DEF g
<1>5. Ended' = Ended \cup {c}
  <2>1. \A d \in Conn : d \in Ended' <=> d \in Ended \/ d = c
    BY <1>1, <1>2
  <2> QED
    BY <2>1, Shapes
<1> QED
  BY <1>3, <1>4, <1>5 DEF Stream!End, Seen, Coming, Ended

-----------------------------------------------------------------------------
(* The refinement: every step is one of RequestStream's, or none. *)

LEMMA Others ==
  ASSUME Typed, NEW c \in Conn, asked' = asked,
         at' = at \/ \E p : at' = [at EXCEPT ![c] = p],
         cur' = cur \/ \E x : cur' = [cur EXCEPT ![c] = x],
         taken' = taken \/ \E n : taken' = [taken EXCEPT ![c] = n]
  PROVE  \A d \in Conn \ {c} : Quiet(d)
<1> TAKE d \in Conn \ {c}
<1>1. at'[d] = at[d]
  BY DEF Typed
<1>2. cur'[d] = cur[d]
  BY DEF Typed
<1>3. taken'[d] = taken[d]
  BY DEF Typed
<1> QED
  BY <1>1, <1>2, <1>3 DEF Quiet

\* A step that neither takes nor finishes an item, nor ends the connection.
LEMMA QuietStep ==
  ASSUME Typed, NEW c \in Conn, UNCHANGED <<asked, cur, taken>>,
         \/ UNCHANGED at
         \/ at[c] \notin Over /\ \E p \in Places \ Over : Go(c, p)
         \/ at[c] \in Over /\ \E p \in Over : Go(c, p)
  PROVE  UNCHANGED Stream!vars
<1>1. at' = at \/ \E p : at' = [at EXCEPT ![c] = p]
  BY DEF Go
<1>2. \A d \in Conn \ {c} : Quiet(d)
  BY <1>1, Others
<1>3. at'[c] \in Over <=> at[c] \in Over
  BY DEF Typed, Go
<1>4. Quiet(c)
  BY <1>3 DEF Quiet
<1> QED
  BY <1>2, <1>4, SeenStill

LEMMA EndStep ==
  ASSUME Typed, NEW c \in Conn, NEW p \in Over, Go(c, p), asked' = asked,
         cur' = cur \/ \E x : cur' = [cur EXCEPT ![c] = x],
         taken' = taken \/ \E n : taken' = [taken EXCEPT ![c] = n]
  PROVE  Stream!End(c)
<1>1. \A d \in Conn \ {c} : Quiet(d)
  BY Others DEF Go
<1>2. at'[c] \in Over
  BY DEF Typed, Go
<1> QED
  BY <1>1, <1>2, SeenEnd

LEMMA DoneStep ==
  ASSUME StreamInv, NEW c \in Conn, at[c] \in Working \cup Acting, UNCHANGED <<asked, taken>>,
         NEW p \in Places \ Over, Go(c, p), cur' = [cur EXCEPT ![c] = NoItem]
  PROVE  Stream!Done(c)
<1>0. Typed /\ Busy(c) /\ asked[c] \in Seq(Item) /\ taken[c] \in 0 .. Len(asked[c]) /\ taken[c] \in Nat
  BY DEF StreamInv, Reader, Typed, Counted
<1>1. \A d \in Conn \ {c} : Quiet(d)
  BY <1>0, Others DEF Go
<1>2. at[c] \notin Over /\ at'[c] \notin Over
  BY <1>0 DEF Typed, Go, Working, Acting, Over
<1>3. taken[c] > 0 /\ cur[c] = asked[c][taken[c]]
  BY <1>0 DEF Busy
<1>4. cur[c] \in Item
  BY <1>0, <1>3
<1>5. cur[c] # NoItem /\ cur'[c] = NoItem
  BY <1>0, <1>4, Kinds DEF Typed
<1> QED
  BY <1>1, <1>2, <1>5, SeenDone

LEMMA TakeStep ==
  ASSUME StreamInv, NEW c \in Conn, at[c] \in {"read", "act"},
         taken[c] + 1 \in 1 .. Len(asked[c]), UNCHANGED asked,
         NEW p \in Places \ Over, Go(c, p),
         cur' = [cur EXCEPT ![c] = asked[c][taken[c] + 1]],
         taken' = [taken EXCEPT ![c] = taken[c] + 1]
  PROVE  Stream!Take(c)
<1>0. Typed /\ Busy(c)
  BY DEF StreamInv, Reader
<1>1. \A d \in Conn \ {c} : Quiet(d)
  BY <1>0, Others DEF Go
<1>2. at[c] \notin Over /\ at'[c] \notin Over
  BY <1>0 DEF Typed, Go, Over
<1>3. cur[c] = NoItem
  BY <1>0 DEF Busy
<1>4. cur'[c] = asked[c][taken[c] + 1] /\ taken'[c] = taken[c] + 1 /\ asked'[c] = asked[c]
  BY <1>0 DEF Typed
<1>5. asked[c] \in Seq(Item) /\ taken[c] \in Nat
  BY <1>0 DEF Typed
<1> QED
  BY <1>1, <1>2, <1>3, <1>4, <1>5, SeenTake

LEMMA AskMaps ==
  ASSUME StreamInv, NEW c \in Conn, Ask(c)
  PROVE  Stream!Ask(c) \/ UNCHANGED Stream!vars
<1> DEFINE i == Len(asked[c]) + 1
           x == script[c][i]
<1>0. Typed /\ Counted(c)
  BY DEF StreamInv, Reader
<1>1. PICK t \in Token \cup {NoToken} : asked' = [asked EXCEPT ![c] = Append(@, [x EXCEPT !.tok = t])]
  BY <1>0 DEF Ask, Typed
<1> DEFINE y == [x EXCEPT !.tok = t]
<1>2. asked[c] \in Seq(Item) /\ Len(asked[c]) \in Nat /\ taken[c] \in 0 .. Len(asked[c]) /\ script[c] \in Seq(Item)
  BY <1>0 DEF Typed, Counted, Sendable
<1>3. x \in Item
  <2>1. Len(asked[c]) < Len(script[c]) /\ Len(script[c]) \in Nat
    BY <1>2 DEF Ask
  <2>2. i \in 1 .. Len(script[c])
    BY <1>2, <2>1
  <2> QED
    BY <1>2, <2>2
<1>4. y \in Item
  <2> HIDE DEF x
  <2> QED
    BY <1>3, PartsOf
<1> HIDE DEF y
<1>5. asked' = [asked EXCEPT ![c] = Append(asked[c], y)]
  BY <1>1 DEF y
<1>6. UNCHANGED <<at, cur, taken>>
  BY DEF Ask, accountVars
<1>7. asked'[c] = Append(asked[c], y) /\ \A d \in Conn \ {c} : asked'[d] = asked[d]
  BY <1>0, <1>5 DEF Typed
<1>8. \A d \in Conn \ {c} : Quiet(d)
  BY <1>6, <1>7 DEF Quiet
<1>9. CASE at[c] \in Over
  <2>1. Quiet(c)
    BY <1>6, <1>9 DEF Quiet
  <2> QED
    BY <1>8, <2>1, SeenStill
<1>10. CASE at[c] \notin Over
  BY <1>2, <1>4, <1>6, <1>7, <1>8, <1>10, SeenAsk
<1> QED
  BY <1>9, <1>10

LEMMA AccountMaps ==
  ASSUME StreamInv, NEW c \in Conn, AccountStep(c), UNCHANGED streamVars
  PROVE  UNCHANGED Stream!vars
<1>0. Typed
  BY DEF StreamInv
<1>1. UNCHANGED <<asked, cur, taken>>
  BY DEF AccountStep, Insert, Select, Stored, LoggedIn, TokenChecked, streamVars
<1>2. Working \subseteq Places \ Over
  BY DEF Working, Places, Over
<1>3. at[c] \in Working /\ \E p \in Working : Go(c, p)
  <2>1. CASE Insert(c)
    BY <2>1 DEF Insert, Respond, Working
  <2>2. CASE Select(c)
    BY <2>2 DEF Select, Respond, Working
  <2>3. CASE Stored(c)
    BY <2>3 DEF Stored, Working
  <2>4. CASE LoggedIn(c)
    BY <2>4 DEF LoggedIn, Respond, Working
  <2>5. CASE TokenChecked(c)
    BY <2>5 DEF TokenChecked, Respond, Working
  <2> QED
    BY <2>1, <2>2, <2>3, <2>4, <2>5 DEF AccountStep
<1> QED
  BY <1>0, <1>1, <1>2, <1>3, QuietStep

LEMMA ReadRequestMaps ==
  ASSUME StreamInv, NEW c \in Conn, ReadRequest(c)
  PROVE  Stream!End(c) \/ UNCHANGED Stream!vars
<1>0. Typed /\ UNCHANGED <<asked, cur, taken>>
  BY DEF StreamInv, ReadRequest
<1>1. CASE UNCHANGED at
  BY <1>0, <1>1, QuietStep
<1>2. CASE Go(c, "cleanup")
  BY <1>0, <1>2, EndStep DEF Over
<1> QED
  BY <1>1, <1>2 DEF ReadRequest

LEMMA BadRequestMaps ==
  ASSUME StreamInv, NEW c \in Conn, BadRequest(c)
  PROVE  Stream!End(c)
<1>1. Typed /\ UNCHANGED <<asked, cur, taken>> /\ Go(c, "cleanup")
  BY DEF StreamInv, BadRequest, streamVars
<1> QED
  BY <1>1, EndStep DEF Over

LEMMA TakeRequestMaps ==
  ASSUME StreamInv, NEW c \in Conn, TakeRequest(c)
  PROVE  Stream!Take(c)
<1> DEFINE n == RequestLength(c, raw[c])
           x == asked[c][taken[c] + 1]
<1>0. Typed /\ at[c] = "read"
  BY DEF StreamInv, TakeRequest
<1>1. /\ taken[c] + 1 \in 1 .. Len(asked[c]) /\ raw[c][1].item = taken[c] + 1
      /\ Decode(c, taken[c] + 1, SubSeq(raw[c], 1, n)) = x
  BY RequestWhole DEF TakeRequest
<1>2. /\ cur' = [cur EXCEPT ![c] = x] /\ taken' = [taken EXCEPT ![c] = taken[c] + 1]
      /\ Dispatch(c, x) /\ UNCHANGED asked
  BY <1>1 DEF TakeRequest
<1>3. {"insert", "select", "getWait", "respond"} \subseteq Places \ Over
  BY DEF Working, Places, Over
<1> HIDE DEF x
<1>4. \E p \in {"insert", "select", "getWait", "respond"} : Go(c, p)
  BY <1>2 DEF Dispatch, Respond
<1> QED
  BY <1>0, <1>1, <1>2, <1>3, <1>4, TakeStep DEF x

LEMMA WriteResponseMaps ==
  ASSUME StreamInv, NEW c \in Conn, WriteResponse(c)
  PROVE  Stream!Done(c) \/ Stream!End(c)
<1>0. /\ Typed /\ UNCHANGED <<asked, taken>> /\ cur' = [cur EXCEPT ![c] = NoItem]
      /\ at[c] \in Working
  BY DEF StreamInv, WriteResponse, Working
<1>1. CASE Go(c, "read")
  <2>1. "read" \in Places \ Over
    BY DEF Places, Over
  <2> QED
    BY <1>0, <1>1, <2>1, DoneStep
<1>2. CASE Go(c, "cleanup")
  BY <1>0, <1>2, EndStep DEF Over
<1> QED
  BY <1>1, <1>2 DEF WriteResponse

LEMMA HandshakeMaps ==
  ASSUME StreamInv, NEW c \in Conn, Handshake(c)
  PROVE  Stream!Done(c) \/ Stream!End(c)
<1>0. /\ Typed /\ UNCHANGED <<asked, taken>> /\ cur' = [cur EXCEPT ![c] = NoItem]
      /\ at[c] \in Working
  BY DEF StreamInv, Handshake, Working
<1>1. CASE Go(c, "header")
  <2>1. "header" \in Places \ Over
    BY DEF Places, Fields, Over
  <2> QED
    BY <1>0, <1>1, <2>1, DoneStep
<1>2. CASE Go(c, "cleanup")
  BY <1>0, <1>2, EndStep DEF Over
<1> QED
  BY <1>1, <1>2 DEF Handshake

LEMMA ReadFieldMaps ==
  ASSUME StreamInv, NEW c \in Conn, ReadField(c)
  PROVE  Stream!End(c) \/ UNCHANGED Stream!vars
<1>0. Typed /\ UNCHANGED <<asked, cur, taken>> /\ at[c] \in Fields
  BY DEF StreamInv, ReadField
<1>1. CASE UNCHANGED at
  BY <1>0, <1>1, QuietStep
<1>2. CASE Go(c, "garbled")
  BY <1>0, <1>2, EndStep DEF Over
<1>3. ASSUME NEW n \in 1 .. Min({Missing(c), Len(wire[c])}), Receive(c, n), Go(c, NextField(c))
      PROVE  UNCHANGED Stream!vars
  <2>1. FrameOf(c).long \in BOOLEAN /\ FrameOf(c).size \in Nat
    BY <1>0, <1>3, FieldRead
  <2>2. NextField(c) \in {"ext", "mask", "payload", "act"}
    <3>1. CASE at[c] = "header"
      BY <2>1, <3>1 DEF NextField
    <3>2. CASE at[c] = "ext"
      BY <3>2 DEF NextField
    <3>3. CASE at[c] = "mask"
      BY <2>1, <3>3 DEF NextField
    <3>4. CASE at[c] = "payload"
      BY <3>4 DEF NextField
    <3> QED
      BY <1>0, <3>1, <3>2, <3>3, <3>4 DEF Fields
  <2>3. {"ext", "mask", "payload", "act"} \subseteq Places \ Over /\ at[c] \notin Over
    BY <1>0 DEF Places, Fields, Over
  <2> QED
    BY <1>0, <1>3, <2>2, <2>3, QuietStep
<1>4. PICK n \in 1 .. Min({Missing(c), Len(wire[c])}) :
        /\ Receive(c, n)
        /\ \/ Go(c, NextField(c))
           \/ UNCHANGED at
           \/ Go(c, "garbled")
  BY DEF ReadField
<1> QED
  BY <1>1, <1>2, <1>3, <1>4

LEMMA ReadFieldEndMaps ==
  ASSUME StreamInv, NEW c \in Conn, ReadFieldEnd(c)
  PROVE  Stream!End(c)
<1>1. Typed /\ UNCHANGED <<asked, cur, taken>> /\ Go(c, "cleanup")
  BY DEF StreamInv, ReadFieldEnd
<1> QED
  BY <1>1, EndStep DEF Over

LEMMA ReadGarbledMaps ==
  ASSUME StreamInv, NEW c \in Conn, ReadGarbled(c)
  PROVE  UNCHANGED Stream!vars
<1>1. Typed /\ UNCHANGED <<asked, cur, taken>> /\ at[c] \in Over
  BY DEF StreamInv, ReadGarbled, Over
<1>2. UNCHANGED at \/ \E p \in Over : Go(c, p)
  BY DEF ReadGarbled, Over
<1> QED
  BY <1>1, <1>2, QuietStep

LEMMA ActMaps ==
  ASSUME StreamInv, NEW c \in Conn, Act(c)
  PROVE  Stream!Take(c) \/ Stream!End(c)
<1> DEFINE x == asked[c][taken[c] + 1]
<1>0. Typed /\ at[c] = "act"
  BY DEF StreamInv, Act
<1>1. /\ taken[c] + 1 \in 1 .. Len(asked[c]) /\ raw[c][1].item = taken[c] + 1
      /\ Decode(c, taken[c] + 1, raw[c]) = x
  BY <1>0, FrameWhole
<1>2. UNCHANGED asked /\ taken' = [taken EXCEPT ![c] = taken[c] + 1]
  BY DEF Act
<1>3. {"pong", "rpushWait", "acted"} \subseteq Places \ Over
  BY DEF Places, Acting, Over
<1> HIDE DEF x
<1>4. \/ Go(c, "cleanup") /\ UNCHANGED cur
      \/ \E p \in {"pong", "rpushWait", "acted"} : Go(c, p) /\ cur' = [cur EXCEPT ![c] = x]
  BY <1>1 DEF Act
<1>5. CASE Go(c, "cleanup") /\ UNCHANGED cur
  BY <1>0, <1>2, <1>5, EndStep DEF Over
<1>6. CASE \E p \in {"pong", "rpushWait", "acted"} : Go(c, p) /\ cur' = [cur EXCEPT ![c] = x]
  BY <1>0, <1>1, <1>2, <1>3, <1>6, TakeStep DEF x
<1> QED
  BY <1>4, <1>5, <1>6

LEMMA PushedMaps ==
  ASSUME StreamInv, NEW c \in Conn, Pushed(c)
  PROVE  UNCHANGED Stream!vars
<1>1. Typed /\ UNCHANGED <<asked, cur, taken>> /\ at[c] \notin Over /\ Go(c, "ltrimWait")
  BY DEF StreamInv, Pushed, streamVars, Over
<1>2. "ltrimWait" \in Places \ Over
  BY DEF Places, Acting, Over
<1> QED
  BY <1>1, <1>2, QuietStep

LEMMA FrameDoneMaps ==
  ASSUME StreamInv, NEW c \in Conn, FrameDone(c)
  PROVE  Stream!Done(c) \/ Stream!End(c)
<1>0. /\ Typed /\ UNCHANGED <<asked, taken>> /\ cur' = [cur EXCEPT ![c] = NoItem]
      /\ at[c] \in Acting
  BY DEF StreamInv, FrameDone, Acting
<1>1. CASE Go(c, "header")
  <2>1. "header" \in Places \ Over
    BY DEF Places, Fields, Over
  <2> QED
    BY <1>0, <1>1, <2>1, DoneStep
<1>2. CASE Go(c, "cleanup")
  BY <1>0, <1>2, EndStep DEF Over
<1> QED
  BY <1>1, <1>2 DEF FrameDone

LEMMA CloseMaps ==
  ASSUME StreamInv, NEW c \in Conn, Close(c)
  PROVE  UNCHANGED Stream!vars
<1>1. Typed /\ UNCHANGED <<asked, cur, taken>> /\ at[c] \in Over /\ Go(c, "closed") /\ "closed" \in Over
  BY DEF StreamInv, Close, Over
<1> QED
  BY <1>1, QuietStep

LEMMA StillMaps ==
  ASSUME UNCHANGED <<at, cur, asked, taken>>
  PROVE  UNCHANGED Stream!vars
<1>1. \A d \in Conn : Quiet(d)
  BY DEF Quiet
<1> QED
  BY <1>1, SeenStill

LEMMA InitMaps == Init => Stream!Init
<1> SUFFICES ASSUME Init
             PROVE  Stream!Init
  OBVIOUS
<1>1. \A c \in Conn : at[c] = "read" /\ cur[c] = NoItem /\ asked[c] = <<>> /\ taken[c] = 0
  BY DEF Init, AccountInit
<1>2. SubSeq(<<>>, 1, 0) = <<>>
  OBVIOUS
<1>3. \A c \in Conn : Seen[c] = NoItem /\ Coming[c] = <<>> /\ c \notin Ended
  <2> TAKE c \in Conn
  <2>1. Seen[c] = cur[c] /\ Coming[c] = SubSeq(asked[c], taken[c] + 1, Len(asked[c])) /\ c \notin Ended
    BY <1>1, SeenAs DEF Over
  <2> QED
    BY <1>1, <1>2, <2>1
<1>4. Seen = [c \in Conn |-> NoItem]
  BY <1>3, Shapes
<1>5. Coming = [c \in Conn |-> <<>>]
  BY <1>3, Shapes
<1>6. Ended = {}
  BY <1>3, Shapes
<1> QED
  BY <1>4, <1>5, <1>6 DEF Stream!Init, Seen, Coming, Ended

LEMMA StepMaps == StreamInv /\ [Next]_vars => [Stream!Next]_Stream!vars
<1> SUFFICES ASSUME StreamInv, [Next]_vars
             PROVE  Stream!Next \/ UNCHANGED Stream!vars
  OBVIOUS
<1>1. ASSUME NEW c \in Conn, Step(c)
      PROVE  Stream!Take(c) \/ Stream!Done(c) \/ Stream!End(c) \/ UNCHANGED Stream!vars
  <2>1. CASE AccountStep(c) /\ UNCHANGED streamVars
    BY <2>1, AccountMaps
  <2>2. CASE ReadRequest(c)
    BY <2>2, ReadRequestMaps
  <2>3. CASE BadRequest(c)
    BY <2>3, BadRequestMaps
  <2>4. CASE TakeRequest(c)
    BY <2>4, TakeRequestMaps
  <2>5. CASE WriteResponse(c)
    BY <2>5, WriteResponseMaps
  <2>6. CASE Handshake(c)
    BY <2>6, HandshakeMaps
  <2>7. CASE ReadField(c)
    BY <2>7, ReadFieldMaps
  <2>8. CASE ReadFieldEnd(c)
    BY <2>8, ReadFieldEndMaps
  <2>9. CASE ReadGarbled(c)
    BY <2>9, ReadGarbledMaps
  <2>10. CASE Act(c)
    BY <2>10, ActMaps
  <2>11. CASE Pushed(c)
    BY <2>11, PushedMaps
  <2>12. CASE FrameDone(c)
    BY <2>12, FrameDoneMaps
  <2>13. CASE Close(c)
    BY <2>13, CloseMaps
  <2> QED
    BY <1>1, <2>1, <2>2, <2>3, <2>4, <2>5, <2>6, <2>7, <2>8, <2>9, <2>10, <2>11, <2>12, <2>13
    DEF Step, StreamStep
<1>2. CASE UNCHANGED <<accountVars, streamVars>>
  BY <1>2, StillMaps DEF accountVars, streamVars
<1>3. CASE UNCHANGED vars
  BY <1>2, <1>3 DEF vars
<1>4. CASE Next
  <2>1. CASE \E c \in Conn : Step(c)
    BY <1>1, <2>1 DEF Stream!Next
  <2>2. CASE \E c \in Conn : Ask(c)
    BY <2>2, AskMaps DEF Stream!Next
  <2>3. CASE \E c \in Conn : HangUp(c)
    BY <2>3, StillMaps DEF HangUp, accountVars
  <2>4. CASE Redis /\ UNCHANGED <<accountVars, streamVars>>
    BY <1>2, <2>4
  <2> QED
    BY <1>4, <2>1, <2>2, <2>3, <2>4 DEF Next
<1> QED
  BY <1>3, <1>4

\* The reader of every connection implements RequestStream: it takes the items
\* its client sends entire, in order, each once, and the next one when the last
\* is done, until the connection ends (handle_http_connection).
THEOREM TakesWholeInOrder == Spec => ImplementsStream
<1>1. Spec => []StreamInv
  BY ReaderAlwaysInStep
<1> QED
  BY <1>1, InitMaps, StepMaps, PTL DEF Spec, ImplementsStream, Stream!Spec
==============================================================================
