---------------------------- MODULE NetstackProofs ----------------------------
(***************************************************************************)
(* Proofs about the user-space stack, for any number of connections and    *)
(* associations, any buffer and queue sizes and any amount of data: what a *)
(* relay sends reaches the remote once and in order, neither end of stream *)
(* comes before the data it follows, and the upload implements Pipe.       *)
(***************************************************************************)
EXTENDS Netstack, SequenceTheorems, TLAPS

-----------------------------------------------------------------------------
(* A queue of messages, seen from one connection.                          *)

IsClose(m, i) == m.t = "close" /\ m.id = i
HasData(q, i) == \E n \in 1 .. Len(q) : IsData(q[n], i)
HasClose(q, i) == \E n \in 1 .. Len(q) : IsClose(q[n], i)

\* No data follows a close.
CloseOrder(q, i) ==
    \A m, n \in 1 .. Len(q) : IsClose(q[m], i) /\ m < n => ~IsData(q[n], i)

\* The data of i in q is units a + 1 to b, in order.
Line(q, i, a, b) ==
    /\ \A n \in 1 .. Len(q) : IsData(q[n], i) =>
          a <= q[n].from /\ q[n].from < q[n].to /\ q[n].to <= b
    /\ \A m, n \in 1 .. Len(q) :
          IsData(q[m], i) /\ IsData(q[n], i) /\ m < n => q[m].to <= q[n].from
    /\ \A u \in a + 1 .. b :
          \E n \in 1 .. Len(q) : IsData(q[n], i) /\ q[n].from < u /\ u <= q[n].to

\* Going from q to r nothing for i comes in.
Calm(q, r, i) ==
    /\ HasData(r, i) => HasData(q, i)
    /\ HasClose(r, i) => HasClose(q, i)
    /\ CloseOrder(q, i) => CloseOrder(r, i)

\* All its data stays and no other comes in.
Kept(q, r, i) ==
    /\ HasData(r, i) => HasData(q, i)
    /\ CloseOrder(q, i) => CloseOrder(r, i)
    /\ \A a, b \in Nat : Line(q, i, a, b) => Line(r, i, a, b)

Benign(q, r, i) == Calm(q, r, i) /\ Kept(q, r, i)

LEMMA MessageFields ==
    ASSUME NEW m \in Message
    PROVE  /\ m.from \in Nat /\ m.to \in Nat /\ m.from <= m.to
           /\ m.t \in {"tcp", "close"} => m.id \in Conns
           /\ m.t \in {"udp", "udpclose"} => m.id \in Udps
           /\ m.t \in {"tcp", "close", "udp", "udpclose"}
BY DEF Message

LEMMA MessageTypes ==
    /\ \A i \in Conns : TcpClose(i) \in Message
    /\ \A i \in Conns, a, b \in Nat : a <= b => Data(i, a, b) \in Message
    /\ \A u \in Udps : UdpClose(u) \in Message
    /\ \A u \in Udps : [t |-> "udp", id |-> u, from |-> 0, to |-> 0] \in Message
BY DEF Message, TcpClose, Data, UdpClose

LEMMA OneMessage ==
    ASSUME NEW m \in Message
    PROVE  <<m>> \in Seq(Message) /\ Len(<<m>>) = 1 /\ <<m>>[1] = m
OBVIOUS

\* Any other message at the end leaves the data alone.
LEMMA KeptAppend ==
    ASSUME NEW q \in Seq(Message), NEW m \in Message, NEW i \in Conns, ~IsData(m, i)
    PROVE  /\ Kept(q, Append(q, m), i)
           /\ ~IsClose(m, i) => Benign(q, Append(q, m), i)
<1> DEFINE r == Append(q, m)
<1>1. /\ Len(r) = Len(q) + 1 /\ Len(q) \in Nat
      /\ \A n \in 1 .. Len(q) : r[n] = q[n]
      /\ r[Len(q) + 1] = m
    BY AppendProperties, LenProperties
<1>2. \A n \in 1 .. Len(r) : IsData(r[n], i) => n \in 1 .. Len(q) /\ r[n] = q[n]
    BY <1>1
<1>3. \A n \in 1 .. Len(q) : n \in 1 .. Len(r)
    BY <1>1
<1> HIDE DEF r
<1>4. ASSUME NEW a \in Nat, NEW b \in Nat, Line(q, i, a, b) PROVE Line(r, i, a, b)
  <2>1. \A u \in a + 1 .. b :
          \E n \in 1 .. Len(r) : IsData(r[n], i) /\ r[n].from < u /\ u <= r[n].to
    BY <1>1, <1>3, <1>4 DEF Line
  <2> QED
    BY <1>2, <1>4, <2>1 DEF Line
<1>5. CloseOrder(q, i) => CloseOrder(r, i)
    BY <1>1, <1>2 DEF CloseOrder
<1>6. HasData(r, i) => HasData(q, i)
    BY <1>2 DEF HasData
<1>7. ~IsClose(m, i) /\ HasClose(r, i) => HasClose(q, i)
    BY <1>1 DEF HasClose
<1> QED
    BY <1>4, <1>5, <1>6, <1>7 DEF Benign, Calm, Kept, r

\* The next units at the end.
LEMMA DataAppend ==
    ASSUME NEW q \in Seq(Message), NEW i \in Conns, NEW b \in Nat, NEW k \in Nat, k > 0,
           NEW m, m = Data(i, b, b + k)
    PROVE  /\ HasClose(Append(q, m), i) => HasClose(q, i)
           /\ CloseOrder(q, i) /\ ~HasClose(q, i) => CloseOrder(Append(q, m), i)
           /\ \A a \in Nat : a <= b /\ Line(q, i, a, b) => Line(Append(q, m), i, a, b + k)
<1> DEFINE r == Append(q, m)
<1>0. m \in Message /\ IsData(m, i) /\ ~IsClose(m, i) /\ m.from = b /\ m.to = b + k
    BY b + k \in Nat, b <= b + k, MessageTypes DEF IsData, IsClose, Data
<1>1. /\ Len(r) = Len(q) + 1 /\ Len(q) \in Nat
      /\ \A n \in 1 .. Len(q) : r[n] = q[n]
      /\ r[Len(q) + 1] = m
    BY <1>0, AppendProperties, LenProperties
<1>2. \A n \in 1 .. Len(r) : n \in 1 .. Len(q) \/ n = Len(q) + 1
    BY <1>1
<1>3. \A n \in 1 .. Len(q) : n \in 1 .. Len(r) /\ q[n].from \in Nat /\ q[n].to \in Nat
    BY <1>1, ElementOfSeq, MessageFields
<1> HIDE DEF r
<1>4. ASSUME NEW a \in Nat, a <= b, Line(q, i, a, b) PROVE Line(r, i, a, b + k)
  <2>1. \A u \in a + 1 .. b + k :
          \E n \in 1 .. Len(r) : IsData(r[n], i) /\ r[n].from < u /\ u <= r[n].to
    <3> SUFFICES ASSUME NEW u \in a + 1 .. b + k
                 PROVE  \E n \in 1 .. Len(r) : IsData(r[n], i) /\ r[n].from < u /\ u <= r[n].to
      OBVIOUS
    <3>1. CASE u <= b
      <4>1. PICK n \in 1 .. Len(q) : IsData(q[n], i) /\ q[n].from < u /\ u <= q[n].to
        BY <1>4, <3>1 DEF Line
      <4> QED
        BY <1>1, <1>3, <4>1
    <3>2. CASE u > b
      <4>1. Len(q) + 1 \in 1 .. Len(r) /\ r[Len(q) + 1].from = b /\ r[Len(q) + 1].to = b + k
        BY <1>0, <1>1
      <4> QED
        BY <1>0, <1>1, <3>2, <4>1
    <3> QED
      BY <3>1, <3>2
  <2>2. \A n \in 1 .. Len(r) : IsData(r[n], i) =>
          a <= r[n].from /\ r[n].from < r[n].to /\ r[n].to <= b + k
    BY <1>0, <1>1, <1>2, <1>3, <1>4 DEF Line
  <2>3. ASSUME NEW x \in 1 .. Len(r), NEW n \in 1 .. Len(r),
               IsData(r[x], i), IsData(r[n], i), x < n
        PROVE  r[x].to <= r[n].from
    <3>1. x \in 1 .. Len(q) /\ r[x] = q[x]
      BY <1>1, <1>2, <2>3
    <3>2. CASE n \in 1 .. Len(q)
      BY <1>1, <1>4, <2>3, <3>1, <3>2 DEF Line
    <3>3. CASE n = Len(q) + 1
      BY <1>0, <1>1, <1>4, <2>3, <3>1, <3>3 DEF Line
    <3> QED
      BY <1>2, <3>2, <3>3
  <2> QED
    BY <2>1, <2>2, <2>3 DEF Line
<1>5. CloseOrder(q, i) /\ ~HasClose(q, i) => CloseOrder(r, i)
    BY <1>0, <1>1, <1>2 DEF CloseOrder, HasClose
<1>6. HasClose(r, i) => HasClose(q, i)
    BY <1>0, <1>1, <1>2 DEF HasClose
<1> QED
    BY <1>4, <1>5, <1>6 DEF r

\* The first message leaves.
LEMMA TailIndex ==
    ASSUME NEW q \in Seq(Message), q # <<>>
    PROVE  /\ Len(Tail(q)) = Len(q) - 1 /\ Len(q) \in Nat /\ Len(q) >= 1
           /\ q[1] \in Message /\ Tail(q) \in Seq(Message)
           /\ \A n \in 1 .. Len(q) - 1 : Tail(q)[n] = q[n + 1]
           /\ \A n \in 1 .. Len(q) : q[n].from \in Nat /\ q[n].to \in Nat /\ q[n] \in Message
<1>1. Len(q) \in Nat /\ Len(q) >= 1
    BY EmptySeq, LenProperties
<1>2. \A n \in 1 .. Len(q) : q[n] \in Message
    BY ElementOfSeq
<1>3. q[1] \in Message
    BY <1>1, <1>2
<1>4. Tail(q) \in Seq(Message) /\ Len(Tail(q)) = Len(q) - 1
      /\ \A n \in 1 .. Len(q) - 1 : Tail(q)[n] = q[n + 1]
    BY HeadTailProperties, <1>1
<1> QED
    BY <1>1, <1>2, <1>3, <1>4, MessageFields

LEMMA TailCalm ==
    ASSUME NEW q \in Seq(Message), q # <<>>, NEW i \in Conns
    PROVE  Calm(q, Tail(q), i)
<1> DEFINE r == Tail(q)
<1>1. /\ Len(r) = Len(q) - 1 /\ Len(q) \in Nat
      /\ \A n \in 1 .. Len(r) : n + 1 \in 1 .. Len(q) /\ r[n] = q[n + 1]
    BY TailIndex
<1> HIDE DEF r
<1>2. HasData(r, i) => HasData(q, i)
    BY <1>1 DEF HasData
<1>3. HasClose(r, i) => HasClose(q, i)
    BY <1>1 DEF HasClose
<1>4. ASSUME CloseOrder(q, i), NEW m \in 1 .. Len(r), NEW n \in 1 .. Len(r),
             IsClose(r[m], i), m < n
      PROVE  ~IsData(r[n], i)
  <2>1. m + 1 < n + 1 /\ m + 1 \in 1 .. Len(q) /\ n + 1 \in 1 .. Len(q)
        /\ r[m] = q[m + 1] /\ r[n] = q[n + 1]
    <3>1. m + 1 \in 1 .. Len(q) /\ r[m] = q[m + 1]
      BY <1>1
    <3>2. n + 1 \in 1 .. Len(q) /\ r[n] = q[n + 1]
      BY <1>1
    <3>3. m + 1 < n + 1
      BY <1>4
    <3> QED
      BY <3>1, <3>2, <3>3
  <2> QED
    BY <1>4, <2>1 DEF CloseOrder
<1> QED
    BY <1>2, <1>3, <1>4 DEF Calm, CloseOrder, r

LEMMA TailBenign ==
    ASSUME NEW q \in Seq(Message), q # <<>>, NEW i \in Conns, ~IsData(q[1], i)
    PROVE  Benign(q, Tail(q), i)
<1> DEFINE r == Tail(q)
<1>1. /\ Len(r) = Len(q) - 1 /\ Len(q) \in Nat /\ Len(q) >= 1
      /\ \A n \in 1 .. Len(r) : n + 1 \in 1 .. Len(q) /\ r[n] = q[n + 1]
    BY TailIndex
<1> HIDE DEF r
<1>2. ASSUME NEW a \in Nat, NEW b \in Nat, Line(q, i, a, b) PROVE Line(r, i, a, b)
  <2>1. ASSUME NEW n \in 1 .. Len(r), IsData(r[n], i)
        PROVE  a <= r[n].from /\ r[n].from < r[n].to /\ r[n].to <= b
    BY <1>1, <1>2, <2>1 DEF Line
  <2>2. ASSUME NEW m \in 1 .. Len(r), NEW n \in 1 .. Len(r),
               IsData(r[m], i), IsData(r[n], i), m < n
        PROVE  r[m].to <= r[n].from
    <3>1. m + 1 < n + 1 /\ m + 1 \in 1 .. Len(q) /\ n + 1 \in 1 .. Len(q)
          /\ r[m] = q[m + 1] /\ r[n] = q[n + 1]
      BY <1>1, <2>2
    <3> QED
      BY <1>2, <2>2, <3>1 DEF Line
  <2>3. ASSUME NEW u \in a + 1 .. b
        PROVE  \E n \in 1 .. Len(r) : IsData(r[n], i) /\ r[n].from < u /\ u <= r[n].to
    <3>1. PICK n \in 1 .. Len(q) : IsData(q[n], i) /\ q[n].from < u /\ u <= q[n].to
      BY <1>2 DEF Line
    <3>2. n # 1
      BY <3>1
    <3>3. n - 1 \in 1 .. Len(r) /\ r[n - 1] = q[(n - 1) + 1] /\ (n - 1) + 1 = n
      BY <1>1, <3>2
    <3> QED
      BY <3>1, <3>3
  <2> QED
    BY <2>1, <2>2, <2>3 DEF Line
<1> QED
    BY <1>2, TailCalm DEF Benign, Calm, Kept, r

\* The first message of a connection starts where its line does.
LEMMA HeadFirst ==
    ASSUME NEW q \in Seq(Message), q # <<>>, NEW i \in Conns, IsData(q[1], i),
           NEW a \in Nat, NEW b \in Nat, a <= b, Line(q, i, a, b)
    PROVE  q[1].from = a /\ a < q[1].to /\ q[1].to <= b
<1>1. 1 \in 1 .. Len(q) /\ Len(q) \in Nat /\ q[1].from \in Nat /\ q[1].to \in Nat
    BY TailIndex
<1>2. a <= q[1].from /\ q[1].from < q[1].to /\ q[1].to <= b
    BY <1>1 DEF Line
<1>3. a + 1 \in a + 1 .. b
    BY <1>1, <1>2
<1>4. PICK n \in 1 .. Len(q) : IsData(q[n], i) /\ q[n].from < a + 1 /\ a + 1 <= q[n].to
    BY <1>3 DEF Line
<1>5. CASE n = 1
    BY <1>1, <1>2, <1>4, <1>5
<1>6. CASE n > 1
  <2>1. q[1].to <= q[n].from /\ q[n].from \in Nat
    BY <1>1, <1>4, <1>6, TailIndex DEF Line
  <2> QED
    BY <1>1, <1>2, <1>4, <2>1
<1> QED
    BY <1>4, <1>5, <1>6

\* The first message is taken as a whole.
LEMMA HeadWhole ==
    ASSUME NEW q \in Seq(Message), q # <<>>, NEW i \in Conns, IsData(q[1], i),
           NEW a \in Nat, NEW b \in Nat, a <= b, Line(q, i, a, b)
    PROVE  Line(Tail(q), i, q[1].to, b)
<1> DEFINE r == Tail(q)
<1>1. /\ Len(r) = Len(q) - 1 /\ Len(q) \in Nat /\ Len(q) >= 1
      /\ \A n \in 1 .. Len(r) : n + 1 \in 1 .. Len(q) /\ r[n] = q[n + 1]
      /\ q[1].to \in Nat
      /\ \A n \in 1 .. Len(q) : q[n].from \in Nat /\ q[n].to \in Nat
    BY TailIndex
<1>2. q[1].from = a /\ a < q[1].to /\ q[1].to <= b
    BY HeadFirst
<1> HIDE DEF r
<1>3. ASSUME NEW n \in 1 .. Len(r), IsData(r[n], i)
      PROVE  q[1].to <= r[n].from /\ r[n].from < r[n].to /\ r[n].to <= b
  <2>1. n + 1 \in 1 .. Len(q) /\ r[n] = q[n + 1] /\ 1 \in 1 .. Len(q) /\ 1 < n + 1
    BY <1>1
  <2> QED
    BY <1>3, <2>1 DEF Line
<1>4. ASSUME NEW m \in 1 .. Len(r), NEW n \in 1 .. Len(r),
             IsData(r[m], i), IsData(r[n], i), m < n
      PROVE  r[m].to <= r[n].from
  <2>1. m + 1 < n + 1 /\ m + 1 \in 1 .. Len(q) /\ n + 1 \in 1 .. Len(q)
        /\ r[m] = q[m + 1] /\ r[n] = q[n + 1]
    <3>1. m + 1 \in 1 .. Len(q) /\ r[m] = q[m + 1]
      BY <1>1
    <3>2. n + 1 \in 1 .. Len(q) /\ r[n] = q[n + 1]
      BY <1>1
    <3>3. m + 1 < n + 1
      BY <1>4
    <3> QED
      BY <3>1, <3>2, <3>3
  <2> QED
    BY <1>4, <2>1 DEF Line
<1>5. ASSUME NEW u \in q[1].to + 1 .. b
      PROVE  \E n \in 1 .. Len(r) : IsData(r[n], i) /\ r[n].from < u /\ u <= r[n].to
  <2>1. u \in a + 1 .. b /\ u > q[1].to
    BY <1>1, <1>2
  <2>2. PICK n \in 1 .. Len(q) : IsData(q[n], i) /\ q[n].from < u /\ u <= q[n].to
    BY <2>1 DEF Line
  <2>3. n # 1
    BY <1>1, <2>1, <2>2
  <2>4. n - 1 \in 1 .. Len(r) /\ r[n - 1] = q[(n - 1) + 1] /\ (n - 1) + 1 = n
    BY <1>1, <2>3
  <2> QED
    BY <2>2, <2>4
<1> QED
    BY <1>3, <1>4, <1>5 DEF Line, r

\* The first message goes back without its first units.
LEMMA CutIndex ==
    ASSUME NEW q \in Seq(Message), q # <<>>, NEW h \in Message
    PROVE  LET r == <<h>> \o Tail(q) IN
           /\ r \in Seq(Message) /\ Len(r) = Len(q) /\ r[1] = h
           /\ \A n \in 1 .. Len(q) : n # 1 => r[n] = q[n]
<1> DEFINE s == Tail(q)
           r == <<h>> \o s
<1>1. /\ s \in Seq(Message) /\ Len(s) = Len(q) - 1 /\ Len(q) \in Nat /\ Len(q) >= 1
      /\ \A n \in 1 .. Len(q) - 1 : s[n] = q[n + 1]
    BY TailIndex
<1>2. <<h>> \in Seq(Message) /\ Len(<<h>>) = 1 /\ <<h>>[1] = h
    OBVIOUS
<1> HIDE DEF s
<1>3. /\ r \in Seq(Message) /\ Len(r) = Len(q)
      /\ \A n \in 1 .. Len(q) : r[n] = IF n <= 1 THEN <<h>>[n] ELSE s[n - 1]
    BY <1>1, <1>2, ConcatProperties
<1>4. ASSUME NEW n \in 1 .. Len(q), n # 1 PROVE r[n] = q[n]
  <2>1. n - 1 \in 1 .. Len(q) - 1 /\ (n - 1) + 1 = n
    BY <1>1, <1>4
  <2>2. r[n] = s[n - 1] /\ s[n - 1] = q[(n - 1) + 1]
    BY <1>1, <1>3, <1>4, <2>1
  <2> QED
    BY <2>1, <2>2
<1>5. r[1] = h
    BY <1>1, <1>2, <1>3
<1> QED
    BY <1>3, <1>4, <1>5 DEF s

LEMMA CutCalm ==
    ASSUME NEW q \in Seq(Message), q # <<>>, NEW i \in Conns, NEW h \in Message,
           h.t = q[1].t, h.id = q[1].id
    PROVE  Calm(q, <<h>> \o Tail(q), i)
<1> DEFINE r == <<h>> \o Tail(q)
<1>1. /\ Len(r) = Len(q) /\ r[1] = h
      /\ \A n \in 1 .. Len(q) : n # 1 => r[n] = q[n]
    BY CutIndex
<1> HIDE DEF r
<1>2. \A n \in 1 .. Len(q) : /\ IsData(r[n], i) <=> IsData(q[n], i)
                             /\ IsClose(r[n], i) <=> IsClose(q[n], i)
    BY <1>1 DEF IsData, IsClose
<1> QED
    BY <1>1, <1>2 DEF Calm, HasData, HasClose, CloseOrder, r

LEMMA CutBenign ==
    ASSUME NEW q \in Seq(Message), q # <<>>, NEW i \in Conns, NEW h \in Message,
           h.t = q[1].t, h.id = q[1].id, ~IsData(q[1], i)
    PROVE  Benign(q, <<h>> \o Tail(q), i)
<1> DEFINE r == <<h>> \o Tail(q)
<1>1. /\ Len(r) = Len(q) /\ r[1] = h
      /\ \A n \in 1 .. Len(q) : n # 1 => r[n] = q[n]
    BY CutIndex
<1> HIDE DEF r
<1>2. ~IsData(r[1], i)
    BY <1>1 DEF IsData
<1>3. ASSUME NEW a \in Nat, NEW b \in Nat, Line(q, i, a, b) PROVE Line(r, i, a, b)
  <2>1. \A n \in 1 .. Len(q) : IsData(r[n], i) \/ IsData(q[n], i) => r[n] = q[n]
    BY <1>1, <1>2
  <2>2. \A u \in a + 1 .. b :
          \E n \in 1 .. Len(r) : IsData(r[n], i) /\ r[n].from < u /\ u <= r[n].to
    BY <1>1, <1>3, <2>1 DEF Line
  <2> QED
    BY <1>1, <1>3, <2>1, <2>2 DEF Line
<1> QED
    BY <1>3, CutCalm DEF Benign, Calm, Kept, r

LEMMA HeadCut ==
    ASSUME NEW q \in Seq(Message), q # <<>>, NEW i \in Conns, IsData(q[1], i),
           NEW a \in Nat, NEW b \in Nat, a <= b, Line(q, i, a, b), NEW h \in Message,
           h.t = q[1].t, h.id = q[1].id, h.to = q[1].to,
           NEW f \in Nat, h.from = q[1].from + f, h.from < h.to
    PROVE  Line(<<h>> \o Tail(q), i, a + f, b)
<1> DEFINE r == <<h>> \o Tail(q)
<1>0. /\ Len(q) \in Nat /\ 1 \in 1 .. Len(q) /\ q[1].from \in Nat /\ q[1].to \in Nat
      /\ \A n \in 1 .. Len(q) : q[n].from \in Nat /\ q[n].to \in Nat
    BY TailIndex
<1>1. /\ Len(r) = Len(q) /\ r[1] = h
      /\ \A n \in 1 .. Len(q) : n # 1 => r[n] = q[n]
    BY CutIndex
<1>2. q[1].from = a /\ q[1].to <= b
    BY HeadFirst
<1> HIDE DEF r
<1>3. \A n \in 1 .. Len(q) : IsData(r[n], i) <=> IsData(q[n], i)
    BY <1>1 DEF IsData
<1>4. \A n \in 1 .. Len(q) : IsData(q[n], i) /\ n # 1 => q[1].to <= q[n].from
    BY <1>0 DEF Line
<1>5. ASSUME NEW n \in 1 .. Len(r), IsData(r[n], i)
      PROVE  a + f <= r[n].from /\ r[n].from < r[n].to /\ r[n].to <= b
  <2>1. CASE n = 1
    BY <1>0, <1>1, <1>2, <2>1
  <2>2. CASE n # 1
    BY <1>0, <1>1, <1>2, <1>3, <1>4, <1>5, <2>2 DEF Line
  <2> QED
    BY <2>1, <2>2
<1>6. ASSUME NEW m \in 1 .. Len(r), NEW n \in 1 .. Len(r),
             IsData(r[m], i), IsData(r[n], i), m < n
      PROVE  r[m].to <= r[n].from
  <2>1. r[m].to = q[m].to /\ r[n] = q[n]
    BY <1>0, <1>1, <1>6
  <2> QED
    BY <1>1, <1>3, <1>6, <2>1 DEF Line
<1>7. ASSUME NEW u \in a + f + 1 .. b
      PROVE  \E n \in 1 .. Len(r) : IsData(r[n], i) /\ r[n].from < u /\ u <= r[n].to
  <2>1. PICK n \in 1 .. Len(q) : IsData(q[n], i) /\ q[n].from < u /\ u <= q[n].to
    BY DEF Line
  <2>2. CASE n = 1
    BY <1>0, <1>1, <1>2, <1>3, <2>1, <2>2
  <2>3. CASE n # 1
    BY <1>1, <1>3, <2>1, <2>3
  <2> QED
    BY <2>2, <2>3
<1> QED
    BY <1>5, <1>6, <1>7 DEF Line, r

-----------------------------------------------------------------------------
(* The operators of the stack.                                             *)

LEMMA RecordFields ==
    /\ \A c \in Record :
          /\ c.st \in States /\ c.est \in BOOLEAN /\ c.half \in BOOLEAN
          /\ c.pend \in Seq(Nat) /\ c.tx \in Seq(Nat) /\ c.rx \in 0 .. Buf
          /\ c = [st |-> c.st, est |-> c.est, half |-> c.half,
                  pend |-> c.pend, tx |-> c.tx, rx |-> c.rx]
    /\ \A s \in States, e, h \in BOOLEAN, p, x \in Seq(Nat), n \in 0 .. Buf :
          [st |-> s, est |-> e, half |-> h, pend |-> p, tx |-> x, rx |-> n] \in Record
BY DEF Record

LEMMA AbsentType ==
    /\ Absent \in Record /\ Absent.pend = <<>> /\ Absent.tx = <<>> /\ Absent.rx = 0
    /\ Absent.st = "none" /\ Absent.est = FALSE /\ Absent.half = FALSE
    /\ Len(Absent.pend) = 0 /\ Len(Absent.tx) = 0
<1>1. "none" \in States /\ <<>> \in Seq(Nat) /\ 0 \in 0 .. Buf
    BY NetstackAssumption DEF States
<1>2. Absent \in Record
    BY <1>1, RecordFields DEF Absent
<1> QED
    BY <1>2 DEF Absent

LEMMA ClosedState ==
    ASSUME NEW s \in States
    PROVE  /\ Closed(s) \in States
           /\ Closed(s) = "none" <=> s = "none"
           /\ Closed(s) # "synsent" /\ Closed(s) # "established" /\ Closed(s) # "closewait"
           /\ Closed(s) = "timewait" <=> s = "timewait"
           /\ Closed(s) = "closed" <=> s \in {"synsent", "closed"}
           /\ Closed(s) = "lastack" <=> s \in {"closewait", "lastack"}
           /\ Closed(s) \in {"finwait1", "finwait2", "closing"} =>
                s \in {"established", "finwait1", "finwait2", "closing"}
           /\ Closed(s) = "closing" <=> s = "closing"
           /\ s # "established" /\ s \notin {"synsent", "closewait"} => Closed(s) = s
BY DEF Closed, States

LEMMA TrySendType ==
    ASSUME NEW q \in Seq(Message), NEW m \in Message, Len(q) <= Queue
    PROVE  /\ TrySend(q, m) \in Seq(Message) /\ Len(TrySend(q, m)) <= Queue
           /\ TrySend(q, m) = q \/ TrySend(q, m) = Append(q, m)
<1>1. Append(q, m) \in Seq(Message) /\ Len(Append(q, m)) = Len(q) + 1 /\ Len(q) \in Nat
    BY AppendProperties, LenProperties
<1> QED
    BY <1>1, NetstackAssumption DEF TrySend

\* What one visit of service_tcp does to a record: n units of pending go into
\* the socket and k units to the app.
Moves(i, n, k) ==
    LET c == conn[i]
        s == Serviced(i).next
    IN  /\ n \in 0 .. Len(c.pend) /\ n + Len(c.tx) <= Buf
        /\ s.tx = c.tx \o SubSeq(c.pend, 1, n)
        /\ s.st # "timewait" => s.pend = SubSeq(c.pend, n + 1, Len(c.pend))
        /\ Len(s.pend) <= Len(c.pend) /\ Len(s.tx) <= Buf
        /\ Serviced(i).given = k /\ k \in 0 .. c.rx /\ to_app[i] + k <= Queue
        /\ s.rx = c.rx - k
        /\ s.est = (c.est \/ c.st = "established") /\ s.half = c.half

\* The state of the socket before and after.
Shifts(i) ==
    LET c == conn[i]
        s == Serviced(i).next
        gone == (c.est \/ c.st = "established") /\ app[i] = "gone"
    IN  /\ s \in Record
        /\ s.st = "none" <=> c.st = "none"
        /\ s.st = "synsent" => c.st = "synsent"
        /\ c.st \in {"finwait1", "finwait2", "lastack", "closing", "timewait", "closed"} =>
              s.st = c.st
        /\ ~gone /\ c.st = "established" =>
              \/ s.st = "established"
              \/ s.st = "finwait1" /\ c.half /\ s.pend = <<>>
        /\ c.st = "closewait" => s.st = "lastack"
        /\ gone /\ c.st = "established" => s.st = "finwait1"
        /\ c.st = "synsent" => s.st \in {"synsent", "closed"}
        /\ Serviced(i).over <=> s.est /\ s.st \in {"closed", "timewait"}

LEMMA SubSeqSplit ==
    ASSUME NEW p \in Seq(Nat), NEW n \in 0 .. Len(p)
    PROVE  /\ SubSeq(p, 1, n) \in Seq(Nat) /\ Len(SubSeq(p, 1, n)) = n
           /\ SubSeq(p, n + 1, Len(p)) \in Seq(Nat)
           /\ Len(SubSeq(p, n + 1, Len(p))) = Len(p) - n
           /\ SubSeq(p, 1, n) \o SubSeq(p, n + 1, Len(p)) = p
<1>1. Len(p) \in Nat
    BY LenProperties
<1>2. /\ SubSeq(p, 1, n) \in Seq(Nat) /\ Len(SubSeq(p, 1, n)) = n
      /\ SubSeq(p, n + 1, Len(p)) \in Seq(Nat)
      /\ Len(SubSeq(p, n + 1, Len(p))) = Len(p) - n
    BY <1>1
<1>3. SubSeq(p, 1, n) \o SubSeq(p, n + 1, Len(p)) = SubSeq(p, 1, Len(p))
  <2>1. 1 \in 1 .. Len(p) + 1 /\ n \in 1 - 1 .. Len(p) /\ Len(p) \in n .. Len(p)
    BY <1>1
  <2> QED
    BY <2>1, ConcatAdjacentSubSeq
<1>4. SubSeq(p, 1, Len(p)) = p
    BY SubSeqFull
<1> QED
    BY <1>2, <1>3, <1>4

LEMMA NatConcat ==
    ASSUME NEW s \in Seq(Nat), NEW x \in Seq(Nat)
    PROVE  s \o x \in Seq(Nat) /\ Len(s \o x) = Len(s) + Len(x)
BY ConcatProperties

LEMMA MinOfNat ==
    ASSUME NEW a \in Nat, NEW b \in Nat
    PROVE  MinOf(a, b) \in Nat /\ MinOf(a, b) <= a /\ MinOf(a, b) <= b
BY DEF MinOf

LEMMA ServiceMoves ==
    ASSUME TypeOK, NEW i \in Conns
    PROVE  Shifts(i) /\ \E n, k \in Nat : Moves(i, n, k)
<1> DEFINE c == conn[i]
           est == c.est \/ c.st = "established"
           n == IF c.st \in {"established", "closewait"}
                THEN MinOf(Len(c.pend), Buf - Len(c.tx)) ELSE 0
           pend == SubSeq(c.pend, n + 1, Len(c.pend))
           k == IF AppGone(i, est) THEN 0 ELSE MinOf(c.rx, Queue - to_app[i])
           st == IF AppGone(i, est) THEN Closed(Drained(c, pend)) ELSE Drained(c, pend)
           nst == IF st = "closewait" THEN Closed(st) ELSE st
           s == [st |-> nst, est |-> est, half |-> c.half,
                 pend |-> IF st = "timewait" THEN <<>> ELSE pend,
                 tx |-> c.tx \o SubSeq(c.pend, 1, n), rx |-> c.rx - k]
<1>1. Serviced(i) = [next |-> s, given |-> k, over |-> est /\ st \in {"closed", "timewait"}]
    BY DEF Serviced, Left
<1>2. /\ c \in Record /\ c.st \in States /\ c.est \in BOOLEAN /\ c.half \in BOOLEAN
      /\ c.pend \in Seq(Nat) /\ c.tx \in Seq(Nat) /\ c.rx \in 0 .. Buf
      /\ Len(c.pend) <= max_tcp_pending /\ Len(c.tx) <= Buf
      /\ Len(c.pend) \in Nat /\ Len(c.tx) \in Nat
      /\ to_app[i] \in 0 .. Queue /\ Buf \in Nat /\ Queue \in Nat /\ est \in BOOLEAN
    BY RecordFields, NetstackAssumption, LenProperties DEF TypeOK
<1>3. n \in 0 .. Len(c.pend) /\ n + Len(c.tx) <= Buf /\ n \in Nat
  <2>1. Buf - Len(c.tx) \in Nat
    BY <1>2
  <2> DEFINE x == MinOf(Len(c.pend), Buf - Len(c.tx))
  <2>3. x \in Nat /\ x <= Len(c.pend) /\ x <= Buf - Len(c.tx)
    BY <1>2, <2>1, MinOfNat
  <2>4. n = x \/ n = 0
    OBVIOUS
  <2> HIDE DEF x, n
  <2>2. n \in Nat /\ n <= Len(c.pend) /\ n <= Buf - Len(c.tx)
    BY <1>2, <2>1, <2>3, <2>4
  <2> QED
    BY <1>2, <2>2
<1>4. k \in 0 .. c.rx /\ to_app[i] + k <= Queue /\ k \in Nat
  <2>1. Queue - to_app[i] \in Nat /\ c.rx \in Nat
    BY <1>2
  <2> DEFINE x == MinOf(c.rx, Queue - to_app[i])
  <2>3. x \in Nat /\ x <= c.rx /\ x <= Queue - to_app[i]
    BY <1>2, <2>1, MinOfNat
  <2>4. k = x \/ k = 0
    OBVIOUS
  <2> HIDE DEF x, k
  <2>2. k \in Nat /\ k <= c.rx /\ k <= Queue - to_app[i]
    BY <1>2, <2>1, <2>3, <2>4
  <2> QED
    BY <1>2, <2>2
<1> HIDE DEF n, k
<1>5. Drained(c, pend) = IF c.half /\ pend = <<>> THEN Closed(c.st) ELSE c.st
    BY DEF Drained
<1>6. /\ SubSeq(c.pend, 1, n) \in Seq(Nat) /\ Len(SubSeq(c.pend, 1, n)) = n
      /\ pend \in Seq(Nat) /\ Len(pend) = Len(c.pend) - n
    BY <1>2, <1>3, SubSeqSplit
<1>7. c.tx \o SubSeq(c.pend, 1, n) \in Seq(Nat)
      /\ Len(c.tx \o SubSeq(c.pend, 1, n)) = Len(c.tx) + n
    BY <1>2, <1>6, NatConcat
<1> HIDE DEF pend
<1>8. nst \in States /\ nst # "closewait" /\ (nst = "timewait" <=> st = "timewait")
      /\ (nst = "closed" <=> st = "closed")
    BY <1>2, <1>5, ClosedState
<1>9. s \in Record
  <2>1. <<>> \in Seq(Nat) /\ c.rx - k \in 0 .. Buf
    BY <1>2, <1>4
  <2> HIDE DEF nst, c, st, est
  <2> QED
    BY <1>2, <1>6, <1>7, <1>8, <2>1, RecordFields
<1>10. Moves(i, n, k)
  <2> HIDE DEF nst, st, est, c
  <2>1. (s.pend = <<>> \/ s.pend = pend) /\ Len(<<>>) = 0
    OBVIOUS
  <2>2. s.st # "timewait" => s.pend = pend
    BY <1>8
  <2>3. Serviced(i).next = s /\ Serviced(i).given = k
    BY <1>1 DEF s
  <2>5. s.tx = c.tx \o SubSeq(c.pend, 1, n) /\ s.rx = c.rx - k
    OBVIOUS
  <2>6. s.est = est /\ s.half = c.half
    BY Zenon
  <2> HIDE DEF s
  <2>4. Len(s.pend) <= Len(c.pend) /\ Len(s.tx) <= Buf
    <3>1. Len(s.pend) = 0 \/ Len(s.pend) = Len(c.pend) - n
      BY <1>6, <2>1
    <3>2. Len(s.tx) = Len(c.tx) + n
      BY <1>7, <2>5
    <3> QED
      BY <1>2, <1>3, <3>1, <3>2
  <2> QED
    BY <1>3, <1>4, <2>2, <2>3, <2>4, <2>5, <2>6 DEF Moves, pend, c, est
<1>11. Shifts(i)
  <2> DEFINE gone == est /\ app[i] = "gone"
  <2>1. AppGone(i, est) <=> gone
    BY DEF AppGone
  <2>2. st = IF gone THEN Closed(Drained(c, pend)) ELSE Drained(c, pend)
    BY <2>1
  <2>3. s.st = nst /\ s.est = est /\ (s.st # "timewait" => s.pend = pend)
    BY <1>8
  <2>4. nst = "none" <=> c.st = "none"
    BY <1>2, <1>5, <2>2, ClosedState
  <2>5. nst = "synsent" => c.st = "synsent"
    BY <1>2, <1>5, <2>2, ClosedState
  <2>6. c.st \in {"finwait1", "finwait2", "lastack", "closing", "timewait", "closed"} =>
            nst = c.st
    BY <1>2, <1>5, <2>2, ClosedState
  <2>7. ~gone /\ c.st = "established" =>
            nst = "established" \/ (nst = "finwait1" /\ c.half /\ pend = <<>>)
    BY <1>2, <1>5, <2>2 DEF Closed
  <2>8. c.st = "closewait" => nst = "lastack"
    BY <1>2, <1>5, <2>2 DEF Closed
  <2>9. gone /\ c.st = "established" => nst = "finwait1"
    BY <1>2, <1>5, <2>2 DEF Closed
  <2>10. c.st = "synsent" => nst \in {"synsent", "closed"}
    BY <1>2, <1>5, <2>2 DEF Closed
  <2>11. Serviced(i).over <=> s.est /\ nst \in {"closed", "timewait"}
    <3>1. Serviced(i).over = (est /\ st \in {"closed", "timewait"}) /\ s.est = est
      BY <1>1
    <3> HIDE DEF s, nst, st, est
    <3> QED
      BY <1>8, <3>1
  <2> HIDE DEF nst
  <2> QED
    BY <1>1, <1>9, <2>3, <2>4, <2>5, <2>6, <2>7, <2>8, <2>9, <2>10, <2>11 DEF Shifts
<1> QED
    BY <1>3, <1>4, <1>10, <1>11

\* What try_handle_data does: f units of a message are taken and the rest goes
\* back, a close is noted, or the message is dropped.
Accepts(m, f) ==
    /\ m.t = "tcp" /\ Present(m.id)
    /\ f \in Nat /\ f <= m.to - m.from /\ Len(conn[m.id].pend) + f <= max_tcp_pending
    /\ conn' = [conn EXCEPT ![m.id].pend = @ \o Taken(m, f)] /\ udp' = udp
    /\ \/ f = m.to - m.from /\ deferred' = <<>>
       \/ f < m.to - m.from /\ deferred' = <<Rest(m, f)>>
Notes(m) ==
    /\ m.t = "close" /\ Present(m.id)
    /\ conn' = [conn EXCEPT ![m.id].half = TRUE] /\ udp' = udp /\ deferred' = <<>>
Drops(m) ==
    /\ m.t \in {"tcp", "close"} => ~Present(m.id)
    /\ conn' = conn /\ udp' \subseteq udp /\ deferred' = <<>>

LEMMA HandleCases ==
    ASSUME TypeOK, NEW m \in Message, Handle(m)
    PROVE  (\E f \in Nat : Accepts(m, f)) \/ Notes(m) \/ Drops(m)
<1>1. CASE m.t = "tcp" /\ Present(m.id)
  <2> DEFINE f == Fits(conn[m.id], m)
  <2>1. m.id \in Conns /\ m.from \in Nat /\ m.to \in Nat /\ m.from <= m.to
    BY <1>1, MessageFields
  <2>2. /\ Len(conn[m.id].pend) \in Nat /\ Len(conn[m.id].pend) <= max_tcp_pending
        /\ max_tcp_pending \in Nat
    <3>1. conn[m.id].pend \in Seq(Nat) /\ Len(conn[m.id].pend) <= max_tcp_pending
      BY <2>1, RecordFields DEF TypeOK
    <3>2. max_tcp_pending \in Nat
      BY NetstackAssumption DEF max_tcp_pending
    <3> QED
      BY <3>1, <3>2, LenProperties
  <2>3. m.to - m.from \in Nat /\ max_tcp_pending - Len(conn[m.id].pend) \in Nat
    BY <2>1, <2>2
  <2>4. f \in Nat /\ f <= m.to - m.from /\ f <= max_tcp_pending - Len(conn[m.id].pend)
    BY <2>3, MinOfNat DEF Fits
  <2> HIDE DEF f
  <2>5. /\ conn' = [conn EXCEPT ![m.id].pend = @ \o Taken(m, f)] /\ udp' = udp
        /\ deferred' = IF f = m.to - m.from THEN <<>> ELSE <<Rest(m, f)>>
    BY <1>1 DEF Handle, try_handle_data, f
  <2>6. Accepts(m, f)
    BY <1>1, <2>2, <2>3, <2>4, <2>5 DEF Accepts
  <2> QED
    BY <2>4, <2>6
<1>2. CASE m.t = "close" /\ Present(m.id)
    BY <1>2 DEF Handle, try_handle_data, Notes
<1>3. CASE ~(m.t = "tcp" /\ Present(m.id)) /\ ~(m.t = "close" /\ Present(m.id))
    BY <1>3, MessageFields DEF Handle, try_handle_data, Drops
<1> QED
    BY <1>1, <1>2, <1>3

-----------------------------------------------------------------------------
(* Type correctness.                                                       *)

\* The parts of the state the actions of a group leave alone or change.
SocketsOK ==
    /\ conn \in [Conns -> Record]
    /\ \A i \in Conns : Len(conn[i].pend) <= max_tcp_pending /\ Len(conn[i].tx) <= Buf
QueuesOK ==
    /\ data_in \in Seq(Message) /\ Len(data_in) <= Queue
    /\ deferred \in Seq(Message) /\ Len(deferred) <= 1
TaskOK ==
    /\ phase \in {"service", "select", "drain", "ended"} /\ todo \subseteq Conns
    /\ udp \subseteq Udps
RelayOK ==
    /\ to_app \in [Conns -> 0 .. Queue]
    /\ app \in [Conns \cup Udps -> {"idle", "dialing", "open", "gone"}]
    /\ up \in [Conns -> BOOLEAN]
    /\ sent \in [Conns -> Nat] /\ taken \in [Conns -> Nat]
    /\ \A i \in Conns : sent[i] <= UpUnits[i]
RemoteOK ==
    /\ want \in [Conns -> Nat] /\ got \in [Conns -> Nat]
    /\ \A i \in Conns : want[i] <= DownUnits[i]
    /\ sunk \in [Conns -> Seq(Nat)] /\ eof \in [Conns -> BOOLEAN]
    /\ cut \in [Conns -> {"no", "whole", "full", "reset", "ended"}]

LEMMA TypeParts ==
    /\ TypeOK <=> SocketsOK /\ QueuesOK /\ TaskOK /\ RelayOK /\ RemoteOK
    /\ TypeOK' <=> SocketsOK' /\ QueuesOK' /\ TaskOK' /\ RelayOK' /\ RemoteOK'
BY DEF TypeOK, SocketsOK, QueuesOK, TaskOK, RelayOK, RemoteOK

LEMMA SocketType ==
    ASSUME SocketsOK, NEW i \in Conns, NEW c \in Record,
           Len(c.pend) <= max_tcp_pending, Len(c.tx) <= Buf,
           conn' = [conn EXCEPT ![i] = c]
    PROVE  SocketsOK'
BY DEF SocketsOK

LEMMA TakenType ==
    ASSUME NEW m \in Message, NEW f \in Nat, f <= m.to - m.from
    PROVE  /\ Taken(m, f) \in Seq(Nat) /\ Len(Taken(m, f)) = f
           /\ \A n \in 1 .. f : Taken(m, f)[n] = m.from + n
           /\ m.t = "tcp" => Rest(m, f) \in Message
           /\ Rest(m, f).t = m.t /\ Rest(m, f).id = m.id /\ Rest(m, f).to = m.to
           /\ Rest(m, f).from = m.from + f
<1>1. m.from \in Nat /\ m.to \in Nat
    BY MessageFields
<1>2. \A n \in 1 .. f : m.from + n \in Nat
    BY <1>1
<1>3. Taken(m, f) \in Seq(Nat) /\ Len(Taken(m, f)) = f
    BY <1>2 DEF Taken
<1>4. m.t = "tcp" => Rest(m, f) \in Message
    BY <1>1 DEF Rest, Message
<1>5. /\ Rest(m, f).t = m.t /\ Rest(m, f).id = m.id /\ Rest(m, f).to = m.to
      /\ Rest(m, f).from = m.from + f
    BY DEF Rest, Message
<1> QED
    BY <1>3, <1>4, <1>5 DEF Taken

\* A handled message leaves the sockets and the deferred message well typed.
LEMMA HandleType ==
    ASSUME TypeOK, NEW m \in Message, Handle(m)
    PROVE  /\ SocketsOK' /\ udp' \subseteq Udps
           /\ deferred' \in Seq(Message) /\ Len(deferred') <= 1
<1>1. CASE \E f \in Nat : Accepts(m, f)
  <2>1. PICK f \in Nat : Accepts(m, f)
    BY <1>1
  <2>2. f <= m.to - m.from /\ m.t = "tcp" /\ m.id \in Conns
    BY <2>1, MessageFields DEF Accepts
  <2> DEFINE c == conn[m.id]
             d == [c EXCEPT !.pend = @ \o Taken(m, f)]
  <2>3. c \in Record /\ c.pend \in Seq(Nat) /\ Len(c.tx) <= Buf
    BY <2>2, RecordFields DEF TypeOK
  <2>4. c.pend \o Taken(m, f) \in Seq(Nat)
        /\ Len(c.pend \o Taken(m, f)) = Len(c.pend) + f
    <3>1. Taken(m, f) \in Seq(Nat) /\ Len(Taken(m, f)) = f
      BY <2>2, TakenType
    <3> QED
      BY <2>3, <3>1, NatConcat
  <2>5. d \in Record /\ d.pend = c.pend \o Taken(m, f) /\ d.tx = c.tx
    BY <2>3, <2>4 DEF Record
  <2>6. conn' = [conn EXCEPT ![m.id] = d]
    BY <2>1 DEF Accepts
  <2>7. Len(d.pend) <= max_tcp_pending /\ Len(d.tx) <= Buf
    BY <2>1, <2>3, <2>4, <2>5 DEF Accepts
  <2> HIDE DEF d
  <2>8. SocketsOK'
    BY <2>2, <2>5, <2>6, <2>7, SocketType, TypeParts
  <2>9. Rest(m, f) \in Message
    BY <2>2, TakenType
  <2>10. deferred' \in Seq(Message) /\ Len(deferred') <= 1
    <3>1. deferred' = <<>> \/ deferred' = <<Rest(m, f)>>
      BY <2>1 DEF Accepts
    <3>2. CASE deferred' = <<>>
      BY <3>2, EmptySeq
    <3>3. CASE deferred' = <<Rest(m, f)>>
      BY <2>9, <3>3, OneMessage
    <3> QED
      BY <3>1, <3>2, <3>3
  <2> QED
    BY <2>1, <2>8, <2>10, TypeParts DEF Accepts, TaskOK
<1>2. CASE Notes(m)
  <2>1. m.id \in Conns
    BY <1>2, MessageFields DEF Notes
  <2> DEFINE c == conn[m.id]
             d == [c EXCEPT !.half = TRUE]
  <2>2. c \in Record /\ Len(c.tx) <= Buf /\ Len(c.pend) <= max_tcp_pending
    BY <2>1 DEF TypeOK
  <2>3. d \in Record /\ d.pend = c.pend /\ d.tx = c.tx
    BY <2>2 DEF Record
  <2>4. conn' = [conn EXCEPT ![m.id] = d]
    BY <1>2 DEF Notes
  <2> HIDE DEF d
  <2>5. SocketsOK'
    BY <2>1, <2>2, <2>3, <2>4, SocketType, TypeParts
  <2> QED
    BY <1>2, <2>5, TypeParts DEF Notes, TaskOK
<1>3. CASE Drops(m)
    BY <1>3, TypeParts DEF Drops, TaskOK, SocketsOK
<1> QED
    BY <1>1, <1>2, <1>3, HandleCases

LEMMA ServiceType ==
    ASSUME TypeOK, NEW i \in Conns, service_tcp(i)
    PROVE  TypeOK'
<1> USE DEF service_tcp
<1>0. SocketsOK /\ QueuesOK /\ TaskOK /\ RelayOK /\ RemoteOK
    BY TypeParts
<1> DEFINE c == IF ~Present(i) \/ Removed(i) THEN Absent ELSE Serviced(i).next
<1>1. PICK n, k \in Nat : Shifts(i) /\ Moves(i, n, k)
    BY ServiceMoves
<1>2. Serviced(i).next \in Record /\ Len(Serviced(i).next.tx) <= Buf
      /\ Len(Serviced(i).next.pend) <= Len(conn[i].pend)
    BY <1>1 DEF Shifts, Moves
<1>3. c \in Record /\ Len(c.tx) <= Buf /\ Len(c.pend) <= max_tcp_pending
  <2>1. /\ Len(conn[i].pend) \in Nat /\ Len(conn[i].pend) <= max_tcp_pending
        /\ max_tcp_pending \in Nat /\ Buf \in Nat
        /\ Len(Serviced(i).next.pend) \in Nat
    <3>1. /\ conn[i].pend \in Seq(Nat) /\ Len(conn[i].pend) <= max_tcp_pending
          /\ Serviced(i).next.pend \in Seq(Nat)
      BY <1>2, RecordFields DEF TypeOK
    <3>2. max_tcp_pending \in Nat /\ Buf \in Nat
      BY NetstackAssumption DEF max_tcp_pending
    <3> QED
      BY <3>1, <3>2, LenProperties
  <2> QED
    BY <1>2, <2>1, AbsentType
<1>4. SocketsOK'
  <2>1. conn' = [conn EXCEPT ![i] = c]
    OBVIOUS
  <2> HIDE DEF c
  <2> QED
    BY <1>0, <1>3, <2>1, SocketType
<1>5. QueuesOK'
    BY <1>0, MessageTypes, TrySendType DEF QueuesOK
<1>6. TaskOK'
    BY <1>0 DEF TaskOK
<1>7. RelayOK'
  <2>1. to_app[i] \in 0 .. Queue /\ to_app[i] + Serviced(i).given \in 0 .. Queue
    BY <1>0, <1>1, NetstackAssumption DEF Moves, RelayOK
  <2>2. to_app' \in [Conns -> 0 .. Queue]
    BY <1>0, <2>1 DEF RelayOK
  <2>3. app' \in [Conns \cup Udps -> {"idle", "dialing", "open", "gone"}]
    BY <1>0 DEF RelayOK
  <2>4. up' \in [Conns -> BOOLEAN]
    BY <1>0 DEF RelayOK
  <2> QED
    BY <1>0, <2>2, <2>3, <2>4 DEF RelayOK
<1>8. RemoteOK'
    BY <1>0 DEF RemoteOK, remote
<1> QED
    BY <1>4, <1>5, <1>6, <1>7, <1>8, TypeParts

\* The head of a queue of messages.
LEMMA HeadMessage ==
    ASSUME NEW q \in Seq(Message), q # <<>>
    PROVE  /\ Head(q) \in Message /\ Head(q) = q[1]
           /\ Tail(q) \in Seq(Message) /\ Len(Tail(q)) <= Len(q)
BY HeadTailProperties, LenProperties

LEMMA TaskType ==
    ASSUME TypeOK, retry_deferred \/ wake \/ recv_data \/ run_end
    PROVE  TypeOK'
<1>0. SocketsOK /\ QueuesOK /\ TaskOK /\ RelayOK /\ RemoteOK
    BY TypeParts
<1>1. CASE retry_deferred
  <2>1. SocketsOK' /\ QueuesOK' /\ udp' \subseteq Udps
    <3>1. CASE deferred = <<>>
      BY <1>0, <1>1, <3>1 DEF retry_deferred, SocketsOK, QueuesOK, TaskOK
    <3>2. CASE deferred # <<>>
      <4>1. Head(deferred) \in Message /\ Handle(Head(deferred))
        BY <1>0, <1>1, <3>2, HeadMessage DEF retry_deferred, QueuesOK
      <4> QED
        BY <1>0, <1>1, <4>1, HandleType DEF retry_deferred, QueuesOK
    <3> QED
      BY <3>1, <3>2
  <2>2. TaskOK' /\ RelayOK' /\ RemoteOK'
    BY <1>0, <1>1, <2>1 DEF retry_deferred, TaskOK, RelayOK, RemoteOK, relay, remote
  <2> QED
    BY <2>1, <2>2, TypeParts
<1>2. CASE recv_data
  <2>1. Head(data_in) \in Message /\ Handle(Head(data_in))
        /\ Tail(data_in) \in Seq(Message) /\ Len(Tail(data_in)) <= Len(data_in)
    BY <1>0, <1>2, HeadMessage DEF recv_data, QueuesOK
  <2>2. Len(Tail(data_in)) <= Queue
    BY <1>0, <2>1, LenProperties, NetstackAssumption DEF QueuesOK
  <2>3. SocketsOK' /\ QueuesOK' /\ udp' \subseteq Udps
    BY <1>2, <2>1, <2>2, HandleType DEF recv_data, QueuesOK
  <2>4. TaskOK' /\ RelayOK' /\ RemoteOK'
    BY <1>0, <1>2, <2>3 DEF recv_data, TaskOK, RelayOK, RemoteOK, relay, remote
  <2> QED
    BY <2>3, <2>4, TypeParts
<1>3. CASE wake
  <2>1. SocketsOK' /\ QueuesOK'
    BY <1>0, <1>3 DEF wake, SocketsOK, QueuesOK
  <2>2. TaskOK' /\ RelayOK' /\ RemoteOK'
    BY <1>0, <1>3 DEF wake, TaskOK, RelayOK, RemoteOK, relay, remote
  <2> QED
    BY <2>1, <2>2, TypeParts
<1>4. CASE run_end
  <2>1. SocketsOK'
    <3>1. conn' = [i \in Conns |-> Absent] /\ max_tcp_pending \in Nat /\ Buf \in Nat
      BY <1>4, NetstackAssumption DEF run_end, DropRecords, max_tcp_pending
    <3> QED
      BY <3>1, AbsentType DEF SocketsOK
  <2>2. QueuesOK'
    BY <1>4, NetstackAssumption DEF run_end, QueuesOK
  <2>3. TaskOK' /\ RelayOK' /\ RemoteOK'
    BY <1>0, <1>4 DEF run_end, TaskOK, RelayOK, RemoteOK, relay, remote
  <2> QED
    BY <2>1, <2>2, <2>3, TypeParts
<1> QED
    BY <1>1, <1>2, <1>3, <1>4

LEMMA PollType ==
    ASSUME TypeOK, NEW i \in Conns, NEW c \in Record, Poll(i, c),
           Len(c.pend) <= max_tcp_pending, Len(c.tx) <= Buf,
           got' \in [Conns -> Nat], sunk' \in [Conns -> Seq(Nat)],
           eof' \in [Conns -> BOOLEAN]
    PROVE  TypeOK'
<1>0. SocketsOK /\ QueuesOK /\ TaskOK /\ RelayOK /\ RemoteOK
    BY TypeParts
<1>1. SocketsOK'
    BY <1>0, SocketType DEF Poll
<1>2. QueuesOK' /\ TaskOK'
    BY <1>0 DEF Poll, QueuesOK, TaskOK
<1>3. RelayOK'
    BY <1>0 DEF Poll, RelayOK, relay
<1>4. RemoteOK'
    BY <1>0 DEF Poll, RemoteOK
<1> QED
    BY <1>1, <1>2, <1>3, <1>4, TypeParts

LEMMA NetType ==
    ASSUME TypeOK, NEW i \in Conns,
           \/ net_accept(i) \/ net_send(i) \/ net_fin(i)
           \/ net_read(i) \/ net_ack(i) \/ net_reset(i)
    PROVE  TypeOK'
<1> DEFINE c == conn[i]
<1>0. SocketsOK /\ QueuesOK /\ TaskOK /\ RelayOK /\ RemoteOK
    BY TypeParts
<1>1. /\ c \in Record /\ Len(c.pend) <= max_tcp_pending /\ Len(c.tx) <= Buf
      /\ c.tx \in Seq(Nat) /\ c.rx \in 0 .. Buf /\ Buf \in Nat
      /\ got \in [Conns -> Nat] /\ sunk \in [Conns -> Seq(Nat)]
    BY RecordFields, NetstackAssumption DEF TypeOK
<1>2. \A s \in States : /\ [c EXCEPT !.st = s] \in Record
                        /\ [c EXCEPT !.st = s].pend = c.pend /\ [c EXCEPT !.st = s].tx = c.tx
    BY <1>1 DEF Record
<1>3. eof' \in [Conns -> BOOLEAN]
    BY DEF TypeOK, net_accept, net_send, net_fin, net_read, net_ack, net_reset, remote
<1>4. CASE net_accept(i)
  <2>1. "established" \in States
    BY DEF States
  <2> QED
    BY <1>1, <1>2, <1>4, <2>1, <1>3, PollType DEF net_accept
<1>5. CASE net_fin(i)
  <2> DEFINE s == CASE c.st = "established" -> "closewait"
                    [] c.st = "finwait1" -> "closing"
                    [] c.st = "finwait2" -> "timewait"
  <2>1. s \in States /\ Poll(i, [c EXCEPT !.st = s])
    BY <1>5 DEF net_fin, States
  <2> HIDE DEF s
  <2> QED
    BY <1>1, <1>2, <1>5, <2>1, <1>3, PollType DEF net_fin
<1>6. CASE net_ack(i)
  <2> DEFINE s == CASE c.st = "finwait1" -> "finwait2"
                    [] c.st = "closing" -> "timewait"
                    [] c.st = "lastack" -> "closed"
  <2>1. s \in States /\ Poll(i, [c EXCEPT !.st = s])
    BY <1>6 DEF net_ack, States
  <2> HIDE DEF s
  <2> QED
    BY <1>1, <1>2, <1>6, <2>1, <1>3, PollType DEF net_ack
<1>7. CASE net_send(i)
  <2> DEFINE d == [c EXCEPT !.rx = @ + 1]
  <2>1. d \in Record /\ d.pend = c.pend /\ d.tx = c.tx
    <3>1. c.rx + 1 \in 0 .. Buf
      BY <1>1, <1>7 DEF net_send
    <3> QED
      BY <1>1, <3>1 DEF Record
  <2>2. Poll(i, d) /\ got' \in [Conns -> Nat] /\ sunk' = sunk
    BY <1>1, <1>7 DEF net_send
  <2> HIDE DEF d
  <2> QED
    BY <1>1, <2>1, <2>2, <1>3, PollType
<1>8. CASE net_read(i)
  <2> DEFINE d == [c EXCEPT !.tx = Tail(@)]
  <2>1. c.tx # <<>> /\ Tail(c.tx) \in Seq(Nat) /\ Len(Tail(c.tx)) <= Buf /\ Head(c.tx) \in Nat
    BY <1>1, <1>8, HeadTailProperties, LenProperties DEF net_read
  <2>2. d \in Record /\ d.pend = c.pend /\ d.tx = Tail(c.tx)
    BY <1>1, <2>1 DEF Record
  <2>3. Poll(i, d) /\ sunk' = [sunk EXCEPT ![i] = Append(@, Head(c.tx))] /\ got' = got
    BY <1>8 DEF net_read
  <2>4. Append(sunk[i], Head(c.tx)) \in Seq(Nat)
    BY <1>1, <2>1, AppendProperties
  <2>5. sunk' \in [Conns -> Seq(Nat)]
    BY <1>1, <2>3, <2>4
  <2> HIDE DEF d
  <2> QED
    BY <1>1, <2>1, <2>2, <2>3, <2>5, <1>3, PollType
<1>9. CASE net_reset(i)
  <2> DEFINE d == [c EXCEPT !.st = "closed", !.tx = <<>>]
  <2>1. d \in Record /\ d.pend = c.pend /\ d.tx = <<>>
    <3>1. "closed" \in States /\ <<>> \in Seq(Nat)
      BY DEF States
    <3> QED
      BY <1>1, <3>1 DEF Record
  <2>2. conn' = [conn EXCEPT ![i] = d]
    BY <1>9 DEF net_reset
  <2>3. Len(d.pend) <= max_tcp_pending /\ Len(d.tx) <= Buf
    BY <1>1, <2>1
  <2> HIDE DEF d
  <2>4. SocketsOK'
    BY <1>0, <2>1, <2>2, <2>3, SocketType
  <2>5. QueuesOK' /\ TaskOK'
    BY <1>0, <1>9 DEF net_reset, QueuesOK, TaskOK
  <2>6. RelayOK' /\ RemoteOK'
    BY <1>0, <1>9 DEF net_reset, RelayOK, RemoteOK, relay, remote
  <2> QED
    BY <2>4, <2>5, <2>6, TypeParts
<1> QED
    BY <1>4, <1>5, <1>6, <1>7, <1>8, <1>9

LEMMA RelayType ==
    ASSUME TypeOK, NEW i \in Conns,
           \/ open_tcp(i) \/ give_up(i) \/ dial_dropped(i)
           \/ \E k \in 1 .. MaxChunk : relay_up(i, k)
           \/ relay_eof(i) \/ relay_down(i) \/ relay_end(i)
    PROVE  TypeOK'
<1>0. SocketsOK /\ QueuesOK /\ TaskOK /\ RelayOK /\ RemoteOK
    BY TypeParts
<1>1. CASE open_tcp(i)
  <2> DEFINE d == [Absent EXCEPT !.st = "synsent"]
  <2>1. d \in Record /\ d.pend = <<>> /\ d.tx = <<>>
    BY AbsentType DEF Record, States
  <2>2. conn' = [conn EXCEPT ![i] = d] /\ max_tcp_pending \in Nat /\ Buf \in Nat
    BY <1>1, NetstackAssumption DEF open_tcp, max_tcp_pending
  <2> HIDE DEF d
  <2>3. Len(d.pend) <= max_tcp_pending /\ Len(d.tx) <= Buf
    BY <2>1, <2>2
  <2>4. SocketsOK'
    BY <1>0, <2>1, <2>2, <2>3, SocketType
  <2>5. QueuesOK' /\ TaskOK'
    BY <1>0, <1>1 DEF open_tcp, QueuesOK, TaskOK
  <2>6. RelayOK' /\ RemoteOK'
    BY <1>0, <1>1 DEF open_tcp, RelayOK, RemoteOK, remote
  <2> QED
    BY <2>4, <2>5, <2>6, TypeParts
<1>2. CASE give_up(i) \/ dial_dropped(i)
  <2>1. SocketsOK' /\ QueuesOK' /\ TaskOK'
    BY <1>0, <1>2 DEF give_up, dial_dropped, SocketsOK, QueuesOK, TaskOK
  <2>2. RelayOK' /\ RemoteOK'
    BY <1>0, <1>2 DEF give_up, dial_dropped, RelayOK, RemoteOK, remote
  <2> QED
    BY <2>1, <2>2, TypeParts
<1>3. ASSUME NEW k \in 1 .. MaxChunk, relay_up(i, k) PROVE TypeOK'
  <2>1. SocketsOK' /\ TaskOK' /\ RemoteOK'
    BY <1>0, <1>3 DEF relay_up, SocketsOK, TaskOK, RemoteOK, remote
  <2>2. sent[i] \in Nat /\ k \in Nat /\ sent[i] + k \in Nat /\ sent[i] <= sent[i] + k
    BY <1>0, NetstackAssumption DEF RelayOK
  <2>3. QueuesOK'
    <3> DEFINE m == Data(i, sent[i], sent[i] + k)
    <3>1. m \in Message
      BY <2>2, MessageTypes
    <3>2. data_in' = Append(data_in, m) /\ Len(data_in) < Queue /\ deferred' = deferred
      BY <1>3 DEF relay_up, HasRoom
    <3> HIDE DEF m
    <3> QED
      BY <1>0, <3>1, <3>2, AppendProperties, LenProperties, NetstackAssumption DEF QueuesOK
  <2>4. RelayOK'
    BY <1>0, <1>3, <2>2 DEF relay_up, RelayOK
  <2> QED
    BY <2>1, <2>3, <2>4, TypeParts
<1>4. CASE relay_eof(i)
  <2>1. QueuesOK'
    BY <1>0, <1>4, MessageTypes, TrySendType DEF relay_eof, QueuesOK
  <2>2. SocketsOK' /\ TaskOK' /\ RemoteOK'
    BY <1>0, <1>4 DEF relay_eof, SocketsOK, TaskOK, RemoteOK, remote
  <2>3. RelayOK'
    BY <1>0, <1>4 DEF relay_eof, RelayOK
  <2> QED
    BY <2>1, <2>2, <2>3, TypeParts
<1>5. CASE relay_down(i)
  <2>1. SocketsOK' /\ QueuesOK' /\ TaskOK' /\ RemoteOK'
    BY <1>0, <1>5 DEF relay_down, SocketsOK, QueuesOK, TaskOK, RemoteOK, remote
  <2>2. RelayOK'
    <3>1. to_app[i] - 1 \in 0 .. Queue /\ taken[i] + 1 \in Nat
      BY <1>0, <1>5, NetstackAssumption DEF relay_down, RelayOK
    <3> QED
      BY <1>0, <1>5, <3>1 DEF relay_down, RelayOK
  <2> QED
    BY <2>1, <2>2, TypeParts
<1>6. CASE relay_end(i)
  <2>1. QueuesOK'
    BY <1>0, <1>6, MessageTypes, TrySendType DEF relay_end, QueuesOK
  <2>2. SocketsOK' /\ TaskOK' /\ RemoteOK'
    BY <1>0, <1>6 DEF relay_end, SocketsOK, TaskOK, RemoteOK, remote
  <2>3. RelayOK'
    BY <1>0, <1>6 DEF relay_end, RelayOK
  <2> QED
    BY <2>1, <2>2, <2>3, TypeParts
<1> QED
    BY <1>1, <1>2, <1>3, <1>4, <1>5, <1>6

LEMMA UdpType ==
    ASSUME TypeOK, NEW u \in Udps,
           open_udp(u) \/ udp_send(u) \/ udp_close(u) \/ udp_drop(u)
    PROVE  TypeOK'
<1>0. SocketsOK /\ QueuesOK /\ TaskOK /\ RelayOK /\ RemoteOK
    BY TypeParts
<1>1. CASE open_udp(u)
  <2>1. SocketsOK' /\ QueuesOK' /\ TaskOK'
    BY <1>0, <1>1 DEF open_udp, SocketsOK, QueuesOK, TaskOK
  <2>2. RelayOK' /\ RemoteOK'
    BY <1>0, <1>1 DEF open_udp, RelayOK, RemoteOK, remote
  <2> QED
    BY <2>1, <2>2, TypeParts
<1>2. CASE udp_send(u)
  <2>1. SocketsOK' /\ TaskOK'
    BY <1>0, <1>2 DEF udp_send, SocketsOK, TaskOK
  <2>2. RelayOK' /\ RemoteOK'
    BY <1>0, <1>2 DEF udp_send, RelayOK, RemoteOK, relay, remote
  <2>3. QueuesOK'
    <3> DEFINE m == [t |-> "udp", id |-> u, from |-> 0, to |-> 0]
    <3>1. m \in Message
      BY MessageTypes
    <3>2. data_in' = Append(data_in, m) /\ Len(data_in) < Queue /\ deferred' = deferred
      BY <1>2 DEF udp_send, HasRoom
    <3> HIDE DEF m
    <3> QED
      BY <1>0, <3>1, <3>2, AppendProperties, LenProperties, NetstackAssumption DEF QueuesOK
  <2> QED
    BY <2>1, <2>2, <2>3, TypeParts
<1>3. CASE udp_close(u) \/ udp_drop(u)
  <2>1. UdpGone(u)
    BY <1>3 DEF udp_close, udp_drop
  <2>2. QueuesOK'
    BY <1>0, <1>3, MessageTypes, TrySendType DEF udp_close, udp_drop, UdpGone, QueuesOK
  <2>3. SocketsOK' /\ TaskOK'
    BY <1>0, <2>1 DEF UdpGone, SocketsOK, TaskOK
  <2>4. RelayOK' /\ RemoteOK'
    BY <1>0, <2>1 DEF UdpGone, RelayOK, RemoteOK, remote
  <2> QED
    BY <2>2, <2>3, <2>4, TypeParts
<1> QED
    BY <1>1, <1>2, <1>3

LEMMA TypeInit == Init => TypeOK
<1> SUFFICES ASSUME Init PROVE TypeOK
    OBVIOUS
<1> USE DEF Init
<1>1. max_tcp_pending \in Nat /\ Buf \in Nat /\ Queue \in Nat
    BY NetstackAssumption DEF max_tcp_pending
<1>2. SocketsOK
    BY <1>1, AbsentType DEF SocketsOK
<1>3. QueuesOK /\ TaskOK
    BY <1>1, EmptySeq DEF QueuesOK, TaskOK
<1>4. RelayOK
    BY <1>1, NetstackAssumption DEF RelayOK
<1>5. RemoteOK
  <2>1. /\ want \in [Conns -> Units(DownUnits)]
        /\ \A i \in Conns : want[i] <= DownUnits[i]
    OBVIOUS
  <2>2. Units(DownUnits) \subseteq Nat
    BY NetstackAssumption DEF Units
  <2> QED
    BY <2>1, <2>2, EmptySeq DEF RemoteOK
<1> QED
    BY <1>2, <1>3, <1>4, <1>5, TypeParts

LEMMA TypeStep == TypeOK /\ [Next]_vars => TypeOK'
<1> SUFFICES ASSUME TypeOK, [Next]_vars PROVE TypeOK'
    OBVIOUS
<1>1. CASE UNCHANGED vars
    BY <1>1 DEF vars, relay, remote, TypeOK
<1>2. ASSUME NEW i \in Conns, service_tcp(i) PROVE TypeOK'
    BY <1>2, ServiceType
<1>3. CASE retry_deferred \/ wake \/ recv_data \/ run_end
    BY <1>3, TaskType
<1>4. ASSUME NEW i \in Conns,
             \/ open_tcp(i) \/ give_up(i) \/ dial_dropped(i)
             \/ \E k \in 1 .. MaxChunk : relay_up(i, k)
             \/ relay_eof(i) \/ relay_down(i) \/ relay_end(i)
      PROVE  TypeOK'
    BY <1>4, RelayType
<1>5. ASSUME NEW i \in Conns,
             \/ net_accept(i) \/ net_send(i) \/ net_fin(i)
             \/ net_read(i) \/ net_ack(i) \/ net_reset(i)
      PROVE  TypeOK'
    BY <1>5, NetType
<1>6. ASSUME NEW u \in Udps, open_udp(u) \/ udp_send(u) \/ udp_close(u) \/ udp_drop(u)
      PROVE  TypeOK'
    BY <1>6, UdpType
<1> QED
    BY <1>1, <1>2, <1>3, <1>4, <1>5, <1>6 DEF Next, Turn

\* The queues and buffers of the stack stay within their limits: data_in and
\* every to_app within app_queue, a socket's send buffer within tcp_buf, pending
\* within max_tcp_pending, and at most one message is deferred.
THEOREM StackTypeCorrect == Spec => []TypeOK
BY TypeInit, TypeStep, PTL DEF Spec

-----------------------------------------------------------------------------
(* The flow of a connection.  What the three properties need: an unused    *)
(* connection has no data; a connection that has a relay is established;   *)
(* a relay that queued a close queues no data after it; a socket the stack *)
(* closed took the close, and with it all data; what was received is in    *)
(* the socket, in the queue or with the relay; and the upload is whole.    *)

Fresh(i) ==
    /\ app[i] = "idle" =>
          /\ conn[i] = Absent /\ sunk[i] = <<>>
          /\ got[i] = 0 /\ taken[i] = 0 /\ to_app[i] = 0
    /\ app[i] \in {"idle", "dialing"} =>
          /\ sent[i] = 0 /\ ~conn[i].half
          /\ ~HasData(Waiting, i) /\ ~HasClose(Waiting, i)
    /\ up[i] => app[i] = "open"

Answer(i) ==
    /\ conn[i].st = "none" => conn[i] = Absent
    /\ conn[i].est => conn[i].st # "synsent"
    /\ app[i] = "open" /\ conn[i].st # "none" => conn[i].est

CloseLast(i) ==
    /\ HasClose(Waiting, i) \/ conn[i].half => ~up[i]
    /\ conn[i].half => ~HasData(Waiting, i)
    /\ CloseOrder(Waiting, i)

ClosedHalf(i) ==
    /\ app[i] = "open" /\ cut[i] # "reset"
    /\ conn[i].st \in {"finwait1", "finwait2", "closing", "timewait"}
    => conn[i].half /\ conn[i].pend = <<>>

Download(i) ==
    /\ got[i] <= want[i]
    /\ conn[i].st # "none" => got[i] = conn[i].rx + to_app[i] + taken[i]
    /\ /\ app[i] = "open" /\ cut[i] # "reset"
       /\ conn[i].st \in {"closewait", "lastack", "closing", "timewait", "closed"}
       => got[i] = want[i]
    /\ app[i] = "open" /\ conn[i].st = "none" /\ cut[i] = "whole"
       => taken[i] + to_app[i] = want[i]

Upload(i) ==
    conn[i].st # "none" /\ cut[i] # "reset" =>
        /\ \A n \in 1 .. Len(Held(i)) : Held(i)[n] = n
        /\ Len(Held(i)) <= sent[i]
        /\ Line(Waiting, i, Len(Held(i)), sent[i])

Flow(i) ==
    Fresh(i) /\ Answer(i) /\ CloseLast(i) /\ ClosedHalf(i) /\ Download(i) /\ Upload(i)

\* A step that does not concern i.
Same(i) ==
    /\ conn'[i] = conn[i] /\ app'[i] = app[i] /\ up'[i] = up[i] /\ sent'[i] = sent[i]
    /\ to_app'[i] = to_app[i] /\ taken'[i] = taken[i] /\ want'[i] = want[i]
    /\ got'[i] = got[i] /\ sunk'[i] = sunk[i] /\ cut'[i] = cut[i]

LEMMA HeldType ==
    ASSUME TypeOK, NEW i \in Conns
    PROVE  Held(i) \in Seq(Nat) /\ Len(Held(i)) \in Nat
<1>1. sunk[i] \in Seq(Nat) /\ conn[i].tx \in Seq(Nat) /\ conn[i].pend \in Seq(Nat)
    BY RecordFields DEF TypeOK
<1>2. sunk[i] \o conn[i].tx \in Seq(Nat)
    BY <1>1, ConcatProperties
<1>3. Held(i) \in Seq(Nat)
    BY <1>1, <1>2, ConcatProperties DEF Held
<1> QED
    BY <1>3, LenProperties

LEMMA Bystander ==
    ASSUME TypeOK, NEW i \in Conns, Flow(i), Same(i), Benign(Waiting, Waiting', i)
    PROVE  Flow(i)'
<1>1. Held(i)' = Held(i)
    BY DEF Same, Held
<1>2. Len(Held(i)) \in Nat /\ sent[i] \in Nat
    BY HeldType DEF TypeOK
<1>3. Fresh(i)'
    BY DEF Flow, Fresh, Same, Benign, Calm
<1>4. Answer(i)' /\ ClosedHalf(i)' /\ Download(i)'
    BY DEF Flow, Answer, ClosedHalf, Download, Same
<1>5. CloseLast(i)'
    BY DEF Flow, CloseLast, Same, Benign, Calm
<1>6. Upload(i)'
    BY <1>1, <1>2 DEF Flow, Upload, Same, Benign, Kept
<1> QED
    BY <1>3, <1>4, <1>5, <1>6 DEF Flow

\* The messages that wait, when one is queued and when one is handled.
LEMMA WaitingType ==
    ASSUME TypeOK
    PROVE  Waiting \in Seq(Message)
BY ConcatProperties DEF TypeOK, Waiting

LEMMA WaitingAppend ==
    ASSUME NEW d \in Seq(Message), NEW q \in Seq(Message), NEW m \in Message
    PROVE  d \o Append(q, m) = Append(d \o q, m)
<1>1. <<m>> \in Seq(Message)
    BY OneMessage
<1>2. Append(q, m) = q \o <<m>> /\ d \o q \in Seq(Message)
    BY AppendIsConcat, ConcatProperties
<1>3. Append(d \o q, m) = (d \o q) \o <<m>>
    BY <1>2, AppendIsConcat
<1>4. (d \o q) \o <<m>> = d \o (q \o <<m>>)
    BY <1>1, ConcatAssociative
<1> QED
    BY <1>2, <1>3, <1>4

LEMMA Unmoved ==
    ASSUME NEW q, NEW i
    PROVE  Benign(q, q, i)
BY DEF Benign, Calm, Kept

LEMMA SendOther ==
    ASSUME TypeOK, NEW m \in Message, m.t # "tcp", deferred' = deferred,
           \/ data_in' = data_in
           \/ data_in' = Append(data_in, m)
           \/ data_in' = TrySend(data_in, m)
           \/ data_in' = TrySend(TrySend(data_in, m), m)
    PROVE  \A i \in Conns : /\ Kept(Waiting, Waiting', i)
                            /\ ~IsClose(m, i) => Benign(Waiting, Waiting', i)
<1> SUFFICES ASSUME NEW i \in Conns
             PROVE  /\ Kept(Waiting, Waiting', i)
                    /\ ~IsClose(m, i) => Benign(Waiting, Waiting', i)
    OBVIOUS
<1> DEFINE q == data_in
           r == Append(q, m)
           s == Append(r, m)
<1>1. /\ q \in Seq(Message) /\ Len(q) <= Queue /\ deferred \in Seq(Message)
      /\ r \in Seq(Message) /\ s \in Seq(Message)
    BY AppendProperties DEF TypeOK
<1>2. data_in' \in {q, r, s}
    BY DEF TrySend
<1>3. deferred \o r = Append(Waiting, m) /\ deferred \o s = Append(Append(Waiting, m), m)
  <2>1. deferred \o r = Append(Waiting, m)
    BY <1>1, WaitingAppend DEF Waiting
  <2> HIDE DEF r
  <2>2. deferred \o s = Append(deferred \o r, m)
    BY <1>1, WaitingAppend
  <2> QED
    BY <2>1, <2>2, Zenon
<1>4. Waiting \in Seq(Message) /\ Append(Waiting, m) \in Seq(Message)
    BY WaitingType, AppendProperties
<1>5. ~IsData(m, i)
    BY DEF IsData
<1> HIDE DEF r, s
<1>6. CASE data_in' = q
  <2>1. Waiting' = Waiting
    BY <1>6 DEF Waiting
  <2> QED
    BY <2>1, Unmoved DEF Benign
<1>7. CASE data_in' = r
  <2>1. Waiting' = Append(Waiting, m)
    BY <1>3, <1>7 DEF Waiting
  <2> QED
    BY <1>4, <1>5, <2>1, KeptAppend
<1>8. CASE data_in' = s
  <2> DEFINE w == Append(Waiting, m)
  <2>1. Waiting' = Append(w, m) /\ w \in Seq(Message)
    BY <1>3, <1>4, <1>8 DEF Waiting
  <2>2. Kept(Waiting, w, i) /\ (~IsClose(m, i) => Benign(Waiting, w, i))
    BY <1>4, <1>5, KeptAppend
  <2> HIDE DEF w
  <2>3. Kept(w, Append(w, m), i) /\ (~IsClose(m, i) => Benign(w, Append(w, m), i))
    BY <1>5, <2>1, KeptAppend
  <2> QED
    BY <2>1, <2>2, <2>3 DEF Benign, Calm, Kept
<1> QED
    BY <1>2, <1>6, <1>7, <1>8

\* A message is taken off the queues, or goes back to their head.
LEMMA TakeDeferred ==
    ASSUME TypeOK, deferred # <<>>
    PROVE  /\ Waiting # <<>> /\ Waiting[1] = Head(deferred) /\ Head(deferred) \in Message
           /\ data_in = Tail(Waiting)
<1> DEFINE m == Head(deferred)
<1>1. data_in \in Seq(Message) /\ deferred \in Seq(Message) /\ Len(deferred) <= 1
    BY DEF TypeOK
<1>2. m \in Message /\ m = deferred[1]
    BY <1>1, HeadMessage
<1>3. Len(deferred) \in Nat /\ Len(deferred) >= 1
    BY <1>1, TailIndex
<1> HIDE DEF m
<1>4. Len(deferred) = 1
  <2> DEFINE l == Len(deferred)
  <2>1. l \in Nat /\ l >= 1 /\ l <= 1
    BY <1>1, <1>3
  <2> HIDE DEF l
  <2>2. l = 1
    BY <2>1
  <2> QED
    BY <2>2 DEF l
<1>5. deferred = <<m>>
    BY <1>1, <1>2, <1>4, SeqEqual, OneMessage
<1>6. Waiting = <<m>> \o data_in
    BY <1>5 DEF Waiting
<1>7. /\ Len(<<m>> \o data_in) = 1 + Len(data_in) /\ Len(data_in) \in Nat
      /\ (<<m>> \o data_in)[1] = m
    BY <1>1, <1>2, OneMessage, ConcatProperties, LenProperties
<1>8. Tail(<<m>> \o data_in) = data_in /\ <<m>> \o data_in # <<>>
    BY <1>1, <1>2, <1>7, OneMessage
<1> QED
    BY <1>2, <1>6, <1>7, <1>8 DEF m

LEMMA TakeData ==
    ASSUME TypeOK, deferred = <<>>, data_in # <<>>
    PROVE  Waiting = data_in /\ Waiting[1] = Head(data_in) /\ Head(data_in) \in Message
<1>1. data_in \in Seq(Message) /\ Waiting = data_in
    BY ConcatEmptySeq DEF TypeOK, Waiting
<1> QED
    BY <1>1, HeadMessage

LEMMA WaitingNext ==
    ASSUME TypeOK, Waiting # <<>>, data_in' = Tail(Waiting)
    PROVE  /\ deferred' = <<>> => Waiting' = Tail(Waiting)
           /\ \A h : deferred' = <<h>> => Waiting' = <<h>> \o Tail(Waiting)
<1>1. Tail(Waiting) \in Seq(Message)
    BY WaitingType, HeadMessage
<1>2. Waiting' = deferred' \o data_in'
    BY DEF Waiting
<1> QED
    BY <1>1, <1>2, ConcatEmptySeq

-----------------------------------------------------------------------------
(* Every action keeps the flow of the connection it is about.              *)

LEMMA NoLine ==
    ASSUME NEW q, NEW i, ~HasData(q, i), NEW a \in Nat
    PROVE  Line(q, i, a, a)
BY DEF Line, HasData

LEMMA OpenFlow ==
    ASSUME TypeOK, NEW i \in Conns, Flow(i), open_tcp(i)
    PROVE  Flow(i)'
<1> USE DEF open_tcp
<1>1. /\ app[i] = "idle" /\ app'[i] = "dialing" /\ up'[i] = up[i] /\ ~up[i]
      /\ sent'[i] = 0 /\ sunk'[i] = <<>> /\ got'[i] = 0 /\ taken'[i] = 0
      /\ to_app'[i] = 0 /\ want'[i] = want[i] /\ cut'[i] = cut[i] /\ Waiting' = Waiting
      /\ ~HasData(Waiting, i) /\ ~HasClose(Waiting, i) /\ CloseOrder(Waiting, i)
    BY DEF Flow, Fresh, CloseLast, Waiting, remote, TypeOK
<1>2. /\ conn'[i].st = "synsent" /\ conn'[i].est = FALSE /\ conn'[i].half = FALSE
      /\ conn'[i].pend = <<>> /\ conn'[i].tx = <<>> /\ conn'[i].rx = 0
    BY AbsentType DEF TypeOK, Absent
<1>3. Fresh(i)' /\ Answer(i)'
    BY <1>1, <1>2 DEF Fresh, Answer
<1>4. CloseLast(i)' /\ ClosedHalf(i)'
    BY <1>1, <1>2 DEF CloseLast, ClosedHalf
<1>5. Download(i)'
    BY <1>1, <1>2 DEF Flow, Download, TypeOK
<1>6. Upload(i)'
  <2>1. Held(i)' = <<>> /\ Len(Held(i)') = 0
    <3>1. <<>> \in Seq(Nat) /\ <<>> \o <<>> = <<>>
      BY EmptySeq, ConcatEmptySeq
    <3>2. Held(i)' = sunk'[i] \o conn'[i].tx \o conn'[i].pend
      BY DEF Held
    <3> QED
      BY <1>1, <1>2, <3>1, <3>2, EmptySeq
  <2>2. Line(Waiting, i, 0, 0)
    BY <1>1, NoLine
  <2> QED
    BY <1>1, <2>1, <2>2 DEF Upload
<1> QED
    BY <1>3, <1>4, <1>5, <1>6 DEF Flow

\* The relay gives up its dial.
LEMMA GiveUpFlow ==
    ASSUME TypeOK, NEW i \in Conns, Flow(i), give_up(i) \/ dial_dropped(i)
    PROVE  Flow(i)'
<1>1. /\ conn' = conn /\ app[i] = "dialing" /\ app'[i] = "gone" /\ up' = up /\ sent' = sent
      /\ to_app' = to_app /\ taken' = taken /\ want' = want /\ got' = got
      /\ sunk' = sunk /\ cut' = cut /\ Waiting' = Waiting
    BY DEF give_up, dial_dropped, Waiting, remote, TypeOK
<1>2. Held(i)' = Held(i) /\ ~up[i]
    BY <1>1 DEF Held, Flow, Fresh
<1> QED
    BY <1>1, <1>2 DEF Flow, Fresh, Answer, CloseLast, ClosedHalf, Download, Upload

LEMMA SendFlow ==
    ASSUME TypeOK, NEW i \in Conns, Flow(i), NEW k \in 1 .. MaxChunk, relay_up(i, k)
    PROVE  Flow(i)'
<1>1. /\ conn' = conn /\ app' = app /\ up' = up /\ up[i] /\ to_app' = to_app /\ taken' = taken
      /\ want' = want /\ got' = got /\ sunk' = sunk /\ cut' = cut /\ deferred' = deferred
      /\ sent[i] \in Nat /\ sent'[i] = sent[i] + k /\ k \in Nat /\ k > 0
      /\ data_in' = Append(data_in, Data(i, sent[i], sent[i] + k))
    BY NetstackAssumption DEF relay_up, remote, TypeOK
<1>2. app[i] = "open" /\ ~HasClose(Waiting, i) /\ ~conn[i].half /\ CloseOrder(Waiting, i)
    BY <1>1 DEF Flow, Fresh, CloseLast
<1>3. Waiting' = Append(Waiting, Data(i, sent[i], sent[i] + k)) /\ Waiting \in Seq(Message)
  <2>1. Data(i, sent[i], sent[i] + k) \in Message
    BY <1>1, sent[i] + k \in Nat, sent[i] <= sent[i] + k, MessageTypes
  <2> QED
    BY <1>1, <2>1, WaitingAppend, WaitingType DEF Waiting, TypeOK
<1>4. /\ ~HasClose(Waiting', i) /\ CloseOrder(Waiting', i)
      /\ \A a \in Nat : a <= sent[i] /\ Line(Waiting, i, a, sent[i]) =>
            Line(Waiting', i, a, sent[i] + k)
  <2> DEFINE m == Data(i, sent[i], sent[i] + k)
  <2>1. /\ HasClose(Append(Waiting, m), i) => HasClose(Waiting, i)
        /\ CloseOrder(Waiting, i) /\ ~HasClose(Waiting, i) => CloseOrder(Append(Waiting, m), i)
        /\ \A a \in Nat : a <= sent[i] /\ Line(Waiting, i, a, sent[i]) =>
              Line(Append(Waiting, m), i, a, sent[i] + k)
    BY <1>1, <1>3, DataAppend
  <2>2. Waiting' = Append(Waiting, m)
    BY <1>3
  <2> QED
    BY <1>2, <2>1, <2>2
<1>5. Fresh(i)' /\ Answer(i)' /\ CloseLast(i)' /\ ClosedHalf(i)' /\ Download(i)'
    BY <1>1, <1>2, <1>4 DEF Flow, Fresh, Answer, CloseLast, ClosedHalf, Download
<1>6. Upload(i)'
  <2>1. Held(i)' = Held(i) /\ Len(Held(i)) \in Nat
    BY <1>1, HeldType DEF Held
  <2>2. Len(Held(i)) <= sent[i] => Len(Held(i)) <= sent[i] + k
    BY <1>1, <2>1
  <2> QED
    BY <1>1, <1>4, <2>1, <2>2 DEF Flow, Upload
<1> QED
    BY <1>5, <1>6 DEF Flow

\* The relay lets go of its sender, and may be gone itself.
LEMMA CloseFlow ==
    ASSUME TypeOK, NEW i \in Conns, Flow(i), relay_eof(i) \/ relay_end(i)
    PROVE  Flow(i)'
<1>1. /\ conn' = conn /\ sent' = sent /\ to_app' = to_app /\ taken' = taken
      /\ want' = want /\ got' = got /\ sunk' = sunk /\ cut' = cut
      /\ up'[i] = FALSE /\ app[i] = "open" /\ app'[i] \in {"open", "gone"}
    BY DEF relay_eof, relay_end, remote, TypeOK, Flow, Fresh
<1>2. Kept(Waiting, Waiting', i)
  <2>1. TcpClose(i) \in Message /\ TcpClose(i).t # "tcp"
    BY MessageTypes DEF TcpClose
  <2> QED
    BY <2>1, SendOther DEF relay_eof, relay_end
<1>3. Held(i)' = Held(i) /\ Len(Held(i)) \in Nat /\ sent[i] \in Nat
    BY <1>1, HeldType DEF Held, TypeOK
<1>4. Fresh(i)' /\ Answer(i)' /\ CloseLast(i)' /\ ClosedHalf(i)' /\ Download(i)'
    BY <1>1, <1>2 DEF Flow, Fresh, Answer, CloseLast, ClosedHalf, Download, Kept
<1>5. Upload(i)'
    BY <1>1, <1>2, <1>3 DEF Flow, Upload, Kept
<1> QED
    BY <1>4, <1>5 DEF Flow

LEMMA DownFlow ==
    ASSUME TypeOK, NEW i \in Conns, Flow(i), relay_down(i)
    PROVE  Flow(i)'
<1>1. /\ conn' = conn /\ app' = app /\ app[i] = "open" /\ up' = up /\ sent' = sent
      /\ want' = want /\ got' = got /\ sunk' = sunk /\ cut' = cut /\ Waiting' = Waiting
      /\ to_app'[i] = to_app[i] - 1 /\ taken'[i] = taken[i] + 1
      /\ to_app[i] \in Nat /\ taken[i] \in Nat /\ conn[i].rx \in Nat
    BY RecordFields, NetstackAssumption DEF relay_down, remote, TypeOK, Waiting
<1>2. Held(i)' = Held(i)
    BY <1>1 DEF Held
<1>3. Fresh(i)' /\ Answer(i)' /\ CloseLast(i)' /\ ClosedHalf(i)' /\ Upload(i)'
    BY <1>1, <1>2 DEF Flow, Fresh, Answer, CloseLast, ClosedHalf, Upload
<1>4. Download(i)'
    BY <1>1 DEF Flow, Download
<1> QED
    BY <1>3, <1>4 DEF Flow

LEMMA EndFlow ==
    ASSUME TypeOK, NEW i \in Conns, Flow(i), run_end
    PROVE  Flow(i)'
<1>1. /\ conn'[i] = Absent /\ app' = app /\ up' = up /\ sent' = sent
      /\ to_app' = to_app /\ taken' = taken /\ want' = want /\ got' = got
      /\ sunk' = sunk /\ cut'[i] = (IF conn[i].st # "none" THEN "ended" ELSE cut[i])
      /\ Waiting' = <<>>
    BY DEF run_end, DropRecords, relay, remote, Present, Waiting
<1>2. ~HasData(Waiting', i) /\ ~HasClose(Waiting', i) /\ CloseOrder(Waiting', i)
    BY <1>1 DEF HasData, HasClose, CloseOrder
<1> QED
    BY <1>1, <1>2, AbsentType DEF
        Flow, Fresh, Answer, CloseLast, ClosedHalf, Download, Upload

\* A packet changes the state of the socket.
LEMMA StateFlow ==
    ASSUME TypeOK, NEW i \in Conns, Flow(i), net_accept(i) \/ net_fin(i) \/ net_ack(i)
    PROVE  Flow(i)'
<1>1. /\ app' = app /\ up' = up /\ sent' = sent /\ to_app' = to_app /\ taken' = taken
      /\ want' = want /\ got' = got /\ sunk' = sunk /\ cut' = cut /\ Waiting' = Waiting
    BY DEF net_accept, net_fin, net_ack, Poll, relay, Waiting
<1>2. /\ conn'[i].half = conn[i].half /\ conn'[i].est = conn[i].est
      /\ conn'[i].pend = conn[i].pend /\ conn'[i].tx = conn[i].tx
      /\ conn'[i].rx = conn[i].rx
  <2>1. conn \in [Conns -> Record] /\ conn[i] \in Record
    BY DEF TypeOK
  <2>2. PICK st : conn' = [conn EXCEPT ![i] = [conn[i] EXCEPT !.st = st]]
    BY DEF net_accept, net_fin, net_ack, Poll
  <2>3. conn'[i] = [conn[i] EXCEPT !.st = st]
    BY <2>1, <2>2
  <2> QED
    BY <2>1, <2>3 DEF Record
<1>3. \/ conn[i].st = "synsent" /\ conn'[i].st = "established"
      \/ /\ got[i] = want[i]
         /\ \/ conn[i].st = "established" /\ conn'[i].st = "closewait"
            \/ conn[i].st = "finwait1" /\ conn'[i].st = "closing"
            \/ conn[i].st = "finwait2" /\ conn'[i].st = "timewait"
      \/ conn[i].st = "finwait1" /\ conn'[i].st = "finwait2"
      \/ conn[i].st = "closing" /\ conn'[i].st = "timewait"
      \/ conn[i].st = "lastack" /\ conn'[i].st = "closed"
    BY DEF net_accept, net_fin, net_ack, Poll, TypeOK, Record
<1>4. Held(i)' = Held(i)
    BY <1>1, <1>2 DEF Held
<1>5. app[i] # "idle"
    BY <1>3, AbsentType DEF Flow, Fresh
<1>6. Fresh(i)' /\ Answer(i)'
    BY <1>1, <1>2, <1>3, <1>5 DEF Flow, Fresh, Answer
<1>7. CloseLast(i)' /\ ClosedHalf(i)'
    BY <1>1, <1>2, <1>3 DEF Flow, CloseLast, ClosedHalf
<1>8. Download(i)'
    BY <1>1, <1>2, <1>3 DEF Flow, Download
<1>9. Upload(i)'
    BY <1>1, <1>3, <1>4 DEF Flow, Upload
<1> QED
    BY <1>6, <1>7, <1>8, <1>9 DEF Flow

LEMMA ReceiveFlow ==
    ASSUME TypeOK, NEW i \in Conns, Flow(i), net_send(i)
    PROVE  Flow(i)'
<1>1. /\ app' = app /\ up' = up /\ sent' = sent /\ to_app' = to_app /\ taken' = taken
      /\ want' = want /\ sunk' = sunk /\ cut' = cut /\ Waiting' = Waiting
      /\ got'[i] = got[i] + 1 /\ got[i] < want[i]
      /\ conn[i].st \in {"established", "finwait1", "finwait2"}
    BY DEF net_send, Poll, relay, Waiting, TypeOK
<1>2. /\ conn'[i].half = conn[i].half /\ conn'[i].est = conn[i].est
      /\ conn'[i].pend = conn[i].pend /\ conn'[i].tx = conn[i].tx
      /\ conn'[i].rx = conn[i].rx + 1 /\ conn'[i].st = conn[i].st
    BY DEF net_send, Poll, TypeOK, Record
<1>3. /\ got[i] \in Nat /\ want[i] \in Nat /\ to_app[i] \in Nat /\ taken[i] \in Nat
      /\ conn[i].rx \in Nat
    BY RecordFields, NetstackAssumption DEF TypeOK
<1>4. Held(i)' = Held(i)
    BY <1>1, <1>2 DEF Held
<1>5. app[i] # "idle"
    BY <1>1, AbsentType DEF Flow, Fresh
<1>6. Fresh(i)' /\ Answer(i)' /\ CloseLast(i)' /\ ClosedHalf(i)' /\ Upload(i)'
    BY <1>1, <1>2, <1>4, <1>5 DEF Flow, Fresh, Answer, CloseLast, ClosedHalf, Upload
<1>7. Download(i)'
    BY <1>1, <1>2, <1>3 DEF Flow, Download
<1> QED
    BY <1>6, <1>7 DEF Flow

LEMMA ReadFlow ==
    ASSUME TypeOK, NEW i \in Conns, Flow(i), net_read(i)
    PROVE  Flow(i)'
<1>1. /\ app' = app /\ up' = up /\ sent' = sent /\ to_app' = to_app /\ taken' = taken
      /\ want' = want /\ got' = got /\ cut' = cut /\ Waiting' = Waiting
      /\ conn[i].st # "none" /\ conn[i].tx # <<>>
      /\ sunk'[i] = Append(sunk[i], Head(conn[i].tx))
    BY DEF net_read, Poll, relay, Waiting, TypeOK
<1>2. /\ conn'[i].half = conn[i].half /\ conn'[i].est = conn[i].est
      /\ conn'[i].pend = conn[i].pend /\ conn'[i].tx = Tail(conn[i].tx)
      /\ conn'[i].rx = conn[i].rx /\ conn'[i].st = conn[i].st
    BY DEF net_read, Poll, TypeOK, Record
<1>3. Held(i)' = Held(i)
  <2> DEFINE s == sunk[i]
             x == conn[i].tx
  <2>1. s \in Seq(Nat) /\ x \in Seq(Nat) /\ x # <<>>
    BY <1>1, RecordFields DEF TypeOK
  <2>2. Held(i)' = Append(s, Head(x)) \o Tail(x) \o conn[i].pend
    BY <1>1, <1>2 DEF Held
  <2> HIDE DEF s, x
  <2>3. Append(s, Head(x)) \o Tail(x) = s \o x
    <3>1. Head(x) \in Nat /\ Tail(x) \in Seq(Nat) /\ Append(s, Head(x)) = s \o <<Head(x)>>
      BY <2>1, HeadTailProperties, AppendIsConcat
    <3>2. (s \o <<Head(x)>>) \o Tail(x) = s \o (<<Head(x)>> \o Tail(x))
      BY <2>1, <3>1, ConcatAssociative
    <3>3. <<Head(x)>> \o Tail(x) = x
      BY <2>1, <3>1
    <3> QED
      BY <3>1, <3>2, <3>3
  <2> QED
    BY <2>2, <2>3 DEF Held, s, x
<1>4. app[i] # "idle"
    BY <1>1, AbsentType DEF Flow, Fresh
<1>5. Fresh(i)' /\ Answer(i)' /\ CloseLast(i)' /\ ClosedHalf(i)'
    BY <1>1, <1>2, <1>4 DEF Flow, Fresh, Answer, CloseLast, ClosedHalf
<1>6. Download(i)' /\ Upload(i)'
    BY <1>1, <1>2, <1>3 DEF Flow, Download, Upload
<1> QED
    BY <1>5, <1>6 DEF Flow

LEMMA ResetFlow ==
    ASSUME TypeOK, NEW i \in Conns, Flow(i), net_reset(i)
    PROVE  Flow(i)'
<1>1. /\ app' = app /\ up' = up /\ sent' = sent /\ to_app' = to_app /\ taken' = taken
      /\ want' = want /\ got' = got /\ sunk' = sunk /\ cut'[i] = "reset" /\ Waiting' = Waiting
      /\ conn[i].st # "none"
    BY DEF net_reset, relay, remote, Waiting, TypeOK
<1>2. /\ conn'[i].half = conn[i].half /\ conn'[i].est = conn[i].est
      /\ conn'[i].rx = conn[i].rx /\ conn'[i].st = "closed"
    BY DEF net_reset, TypeOK, Record
<1>3. app[i] # "idle"
    BY <1>1, AbsentType DEF Flow, Fresh
<1> QED
    BY <1>1, <1>2, <1>3 DEF Flow, Fresh, Answer, CloseLast, ClosedHalf, Download, Upload

\* Concatenation, kept from being expanded.
Cat(s, t) == s \o t

LEMMA CatFacts ==
    /\ \A s, x \in Seq(Nat) : Cat(s, x) \in Seq(Nat)
    /\ \A s, x, a \in Seq(Nat) : Cat(Cat(s, x), a) = Cat(s, Cat(x, a))
<1>1. \A s, x \in Seq(Nat) : s \o x \in Seq(Nat)
    BY NatConcat, Zenon
<1>2. \A s, x, a \in Seq(Nat) : (s \o x) \o a = s \o (x \o a)
  <2> TAKE s, x, a \in Seq(Nat)
  <2> QED
    BY ConcatAssociative
<1> QED
    BY <1>1, <1>2, Zenon DEF Cat

\* The visit of a connection that stays: pending units move into the socket,
\* received ones to the app, and what is held for the remote is the same.
LEMMA VisitHeld ==
    ASSUME TypeOK, NEW i \in Conns, NEW n, NEW k, Moves(i, n, k),
           Serviced(i).next.st # "timewait"
    PROVE  sunk[i] \o Serviced(i).next.tx \o Serviced(i).next.pend = Held(i)
<1> DEFINE s == sunk[i]
           x == conn[i].tx
           p == conn[i].pend
           a == SubSeq(p, 1, n)
           b == SubSeq(p, n + 1, Len(p))
<1>1. s \in Seq(Nat) /\ x \in Seq(Nat) /\ p \in Seq(Nat)
    BY RecordFields DEF TypeOK
<1>2. /\ n \in 0 .. Len(p)
      /\ Serviced(i).next.tx = Cat(x, a) /\ Serviced(i).next.pend = b
    BY DEF Moves, Cat
<1>3. a \in Seq(Nat) /\ b \in Seq(Nat) /\ Cat(a, b) = p
    BY <1>1, <1>2, SubSeqSplit DEF Cat
<1>4. Held(i) = Cat(Cat(s, x), p)
    BY DEF Held, Cat
<1>5. sunk[i] \o Serviced(i).next.tx \o Serviced(i).next.pend = Cat(Cat(s, Cat(x, a)), b)
    BY <1>2 DEF Cat
<1> HIDE DEF s, x, p, a, b
<1>6. Cat(Cat(s, Cat(x, a)), b) = Cat(Cat(s, x), Cat(a, b))
    BY <1>1, <1>3, CatFacts
<1> QED
    BY <1>3, <1>4, <1>5, <1>6

LEMMA ServiceFlow ==
    ASSUME TypeOK, NEW i \in Conns, Flow(i), service_tcp(i)
    PROVE  Flow(i)'
<1> DEFINE c == conn[i]
           s == Serviced(i).next
<1>1. PICK n, k \in Nat : Shifts(i) /\ Moves(i, n, k)
    BY ServiceMoves
<1>2. /\ sent' = sent /\ taken' = taken /\ want' = want /\ got' = got /\ sunk' = sunk
      /\ deferred' = deferred
      /\ conn'[i] = IF c.st = "none" \/ Removed(i) THEN Absent ELSE s
      /\ to_app'[i] = IF c.st # "none" /\ ~DialFailed(i) THEN to_app[i] + k ELSE to_app[i]
      /\ app'[i] = CASE app[i] = "dialing" /\ Answered(i) -> "open"
                     [] app[i] = "dialing" /\ DialFailed(i) -> "gone"
                     [] OTHER -> app[i]
      /\ cut'[i] = IF ~Removed(i) \/ cut[i] = "reset" THEN cut[i]
                   ELSE IF s.rx > 0 THEN "full" ELSE "whole"
      /\ data_in' = IF Answered(i) /\ app[i] = "gone"
                    THEN TrySend(data_in, TcpClose(i)) ELSE data_in
    BY <1>1 DEF service_tcp, remote, TypeOK, Present, Moves
<1>8. /\ up[i] \in BOOLEAN /\ up'[i] \in BOOLEAN
      /\ up'[i] <=> up[i] \/ (Answered(i) /\ app[i] = "dialing")
    BY DEF service_tcp, TypeOK
<1>3. /\ c \in Record /\ c.rx \in Nat /\ c.est \in BOOLEAN /\ to_app[i] \in Nat
      /\ taken[i] \in Nat /\ got[i] \in Nat /\ want[i] \in Nat /\ sent[i] \in Nat
      /\ s.rx = c.rx - k /\ k <= c.rx
    BY <1>1, RecordFields, NetstackAssumption DEF TypeOK, Moves
<1>4. Kept(Waiting, Waiting', i)
      /\ (~(Answered(i) /\ app[i] = "gone") => Benign(Waiting, Waiting', i))
  <2>1. TcpClose(i) \in Message /\ TcpClose(i).t # "tcp"
    BY MessageTypes DEF TcpClose
  <2>2. Kept(Waiting, Waiting', i)
    BY <1>2, <2>1, SendOther
  <2>3. ~(Answered(i) /\ app[i] = "gone") => Waiting' = Waiting
    BY <1>2 DEF Waiting
  <2> QED
    BY <2>2, <2>3, Unmoved
<1> USE DEF Present
<1>5. CASE c.st = "none"
  <2>1. ~Removed(i) /\ ~Answered(i) /\ ~DialFailed(i)
    BY <1>5 DEF Removed, Answered, DialFailed
  <2>2. c = Absent
    BY <1>5 DEF Flow, Answer
  <2>3. up'[i] = up[i]
    BY <1>8, <2>1
  <2>4. Same(i)
    BY <1>2, <1>5, <2>1, <2>2, <2>3 DEF Same
  <2> QED
    BY <1>4, <2>1, <2>4, Bystander
<1>6. CASE c.st # "none" /\ Removed(i)
  <2>0. c.st \in States /\ (c.est => c.st # "synsent")
    BY <1>3, RecordFields DEF Flow, Answer
  <2>1. /\ ~Answered(i) /\ c.st \in {"closed", "timewait", "synsent"}
        /\ (~DialFailed(i) => c.est /\ c.st # "synsent")
    <3>1. CASE DialFailed(i)
      BY <3>1 DEF DialFailed, Answered
    <3>2. CASE ~DialFailed(i)
      <4>1. (c.est \/ c.st = "established") /\ s.st \in {"closed", "timewait"}
        BY <1>1, <1>6, <3>2 DEF Removed, Shifts, Moves
      <4>2. c.st # "established" /\ c.st \in {"closed", "timewait", "synsent"}
        BY <1>1, <2>0, <4>1 DEF Shifts, States
      <4> QED
        BY <2>0, <4>1, <4>2 DEF Answered
    <3> QED
      BY <3>1, <3>2
  <2>2. /\ conn'[i] = Absent /\ up'[i] = up[i] /\ app[i] # "idle" /\ app'[i] # "idle"
        /\ (app'[i] = "open" => app[i] = "open")
        /\ (app'[i] = "dialing" => app[i] = "dialing")
    <3>1. up'[i] = up[i]
      BY <1>8, <2>1
    <3>2. app[i] # "idle"
      BY <1>6, AbsentType DEF Flow, Fresh
    <3> QED
      BY <1>2, <1>6, <2>1, <3>1, <3>2
  <2>3. up[i] => app'[i] = "open"
    BY <1>2, <2>1 DEF Flow, Fresh
  <2>4. Benign(Waiting, Waiting', i)
    BY <1>4, <2>1
  <2>5. Fresh(i)' /\ Answer(i)' /\ CloseLast(i)' /\ ClosedHalf(i)' /\ Upload(i)'
    BY <1>2, <2>2, <2>3, <2>4, AbsentType DEF
       Flow, Fresh, Answer, CloseLast, ClosedHalf, Upload, Benign, Calm
  <2>6. Download(i)'
    <3> SUFFICES ASSUME app'[i] = "open", cut'[i] = "whole"
                 PROVE  taken'[i] + to_app'[i] = want'[i]
      BY <1>2, <2>2, AbsentType DEF Flow, Download
    <3>1. app[i] = "open" /\ c.est
      BY <1>6, <2>2 DEF Flow, Answer
    <3>2. ~DialFailed(i)
      BY <3>1 DEF DialFailed
    <3>3. c.st \in {"closed", "timewait"} /\ to_app'[i] = to_app[i] + k
      BY <1>2, <1>6, <2>1, <3>2
    <3>4. cut[i] # "reset" /\ ~(s.rx > 0)
      BY <1>2, <1>6
    <3>5. got[i] = want[i] /\ got[i] = c.rx + to_app[i] + taken[i]
      BY <1>6, <3>1, <3>3, <3>4 DEF Flow, Download
    <3> QED
      BY <1>2, <1>3, <3>3, <3>4, <3>5
  <2> QED
    BY <2>5, <2>6 DEF Flow
<1>7. CASE c.st # "none" /\ ~Removed(i)
  <2>1. /\ conn'[i] = s /\ cut'[i] = cut[i] /\ ~DialFailed(i)
        /\ to_app'[i] = to_app[i] + k /\ s.half = c.half
        /\ (s.est <=> (c.est \/ c.st = "established"))
        /\ app[i] # "idle"
    <3>1. app[i] # "idle"
      BY <1>7, AbsentType DEF Flow, Fresh
    <3>2. s.half = c.half /\ s.est = (c.est \/ c.st = "established")
      BY <1>1 DEF Moves
    <3>3. ~DialFailed(i)
      BY <1>7 DEF Removed
    <3> QED
      BY <1>2, <1>7, <3>1, <3>2, <3>3
  <2>2. s.st # "timewait" /\ s.st # "none"
    <3>1. c.st \in States
      BY <1>3, RecordFields
    <3>2. s.st = "timewait" => c.st = "timewait"
      BY <1>1, <1>7, <3>1 DEF Shifts, States
    <3>3. s.st = "timewait" => Serviced(i).over
      BY <1>1, <2>1, <3>2 DEF Shifts, DialFailed
    <3> QED
      BY <1>1, <1>7, <3>3 DEF Shifts, Removed
  <2>3. Held(i)' = Held(i) /\ Len(Held(i)) \in Nat
    <3>1. Held(i)' = sunk[i] \o s.tx \o s.pend
      BY <1>2, <2>1 DEF Held
    <3> QED
      BY <1>1, <2>2, <3>1, VisitHeld, HeldType
  <2>4. \/ Answered(i) /\ app[i] = "dialing" /\ app'[i] = "open" /\ up'[i]
        \/ app'[i] = app[i] /\ (up'[i] <=> up[i]) /\ app[i] # "dialing"
        \/ app'[i] = app[i] /\ (up'[i] <=> up[i]) /\ ~Answered(i)
    BY <1>2, <1>8, <2>1
  <2>5. Fresh(i)' /\ CloseLast(i)'
    BY <1>2, <1>4, <2>1, <2>4 DEF Flow, Fresh, CloseLast, Benign, Calm, Kept
  <2>6. Answer(i)'
    BY <1>1, <2>1, <2>2, <2>4 DEF Flow, Answer, Answered, Shifts
  <2>7. ClosedHalf(i)'
    <3> SUFFICES ASSUME app'[i] = "open", cut[i] # "reset",
                        s.st \in {"finwait1", "finwait2", "closing"}
                 PROVE  s.half /\ s.pend = <<>>
      BY <2>1, <2>2 DEF ClosedHalf
    <3>1. CASE c.st = "established"
      BY <1>1, <2>1, <2>4, <3>1 DEF Shifts
    <3>2. CASE c.st # "established"
      <4>1. app[i] = "open" /\ c.st \in {"finwait1", "finwait2", "closing"}
        BY <1>1, <1>3, <2>4, <3>2, RecordFields DEF Shifts, States, Answered
      <4>2. c.half /\ c.pend = <<>>
        BY <4>1 DEF Flow, ClosedHalf
      <4>3. s.pend = SubSeq(c.pend, n + 1, Len(c.pend)) /\ n \in 0 .. Len(c.pend)
        BY <1>1, <2>2 DEF Moves
      <4> QED
        BY <2>1, <4>2, <4>3
    <3> QED
      BY <3>1, <3>2
  <2>8. Download(i)'
    <3>1. got[i] = s.rx + to_app'[i] + taken[i]
      BY <1>3, <1>7, <2>1 DEF Flow, Download
    <3>2. ASSUME app'[i] = "open", cut[i] # "reset",
                 s.st \in {"closewait", "lastack", "closing", "timewait", "closed"}
          PROVE  got[i] = want[i]
      <4>1. c.st # "established"
        BY <1>1, <2>4, <3>2 DEF Shifts
      <4>2. app[i] = "open" /\ c.st # "synsent"
        BY <1>7, <2>4, <3>2, <4>1 DEF Answered, Flow, Answer
      <4>3. c.st \in {"closewait", "lastack", "closing", "timewait", "closed"}
        BY <1>1, <1>3, <1>7, <3>2, <4>1, <4>2, RecordFields DEF Shifts, States
      <4> QED
        BY <3>2, <4>2, <4>3 DEF Flow, Download
    <3> QED
      BY <1>2, <2>1, <2>2, <3>1, <3>2 DEF Flow, Download
  <2>9. Upload(i)'
    BY <1>2, <1>3, <1>4, <1>7, <2>1, <2>3 DEF Flow, Upload, Kept
  <2> QED
    BY <2>5, <2>6, <2>7, <2>8, <2>9 DEF Flow
<1> QED
    BY <1>5, <1>6, <1>7

\* f units of a message go into pending, behind all that is held.
LEMMA AcceptFlow ==
    ASSUME TypeOK, Waiting # <<>>, data_in' = Tail(Waiting),
           NEW f \in Nat, Accepts(Waiting[1], f),
           UNCHANGED <<to_app, relay, remote, cut>>,
           NEW i \in Conns, Flow(i), IsData(Waiting[1], i)
    PROVE  Flow(i)'
<1> DEFINE W == Waiting
           m == Waiting[1]
           d == m.to - m.from
<1>1. /\ app' = app /\ up' = up /\ sent' = sent /\ to_app' = to_app /\ taken' = taken
      /\ want' = want /\ got' = got /\ sunk' = sunk /\ cut' = cut
    BY DEF relay, remote
<1>2. W \in Seq(Message) /\ m \in Message /\ Tail(W) \in Seq(Message)
    BY WaitingType, TailIndex
<1>3. /\ m.t = "tcp" /\ m.id = i /\ m.from \in Nat /\ m.to \in Nat /\ f <= d
      /\ conn[i].st # "none"
    BY <1>2, MessageFields DEF Accepts, IsData, Present
<1>4. HasData(W, i)
    BY <1>2, TailIndex DEF HasData
<1>5. app[i] \notin {"idle", "dialing"} /\ ~conn[i].half /\ CloseOrder(W, i)
    BY <1>4 DEF Flow, Fresh, CloseLast
<1>6. /\ conn'[i].st = conn[i].st /\ conn'[i].est = conn[i].est
      /\ conn'[i].half = conn[i].half /\ conn'[i].rx = conn[i].rx
      /\ conn'[i].tx = conn[i].tx /\ conn'[i].pend = conn[i].pend \o Taken(m, f)
  <2> DEFINE p == conn[i].pend \o Taken(m, f)
  <2>1. conn' = [conn EXCEPT ![i] = [conn[i] EXCEPT !.pend = p]]
    BY <1>3 DEF Accepts
  <2>2. conn \in [Conns -> Record] /\ conn[i] \in Record
    BY DEF TypeOK
  <2> HIDE DEF p
  <2>3. conn'[i] = [conn[i] EXCEPT !.pend = p]
    BY <2>1, <2>2
  <2>4. conn'[i].pend = p
    BY <2>2, <2>3 DEF Record
  <2>5. /\ conn'[i].st = conn[i].st /\ conn'[i].est = conn[i].est
        /\ conn'[i].half = conn[i].half /\ conn'[i].rx = conn[i].rx
        /\ conn'[i].tx = conn[i].tx
    BY <2>2, <2>3 DEF Record
  <2> QED
    BY <2>4, <2>5 DEF p
<1>7. /\ Taken(m, f) \in Seq(Nat) /\ Len(Taken(m, f)) = f
      /\ \A n \in 1 .. f : Taken(m, f)[n] = m.from + n
      /\ Rest(m, f) \in Message
      /\ Rest(m, f).t = m.t /\ Rest(m, f).id = m.id /\ Rest(m, f).to = m.to
      /\ Rest(m, f).from = m.from + f
    BY <1>2, <1>3, TakenType
<1>8. \/ f = d /\ Waiting' = Tail(W)
      \/ f < d /\ Waiting' = <<Rest(m, f)>> \o Tail(W)
    BY WaitingNext DEF Accepts
<1>9. Calm(W, Waiting', i)
    BY <1>2, <1>7, <1>8, TailCalm, CutCalm
<1>10. Fresh(i)' /\ Answer(i)' /\ CloseLast(i)' /\ ClosedHalf(i)' /\ Download(i)'
    BY <1>1, <1>3, <1>5, <1>6, <1>9, AbsentType DEF
        Flow, Fresh, Answer, CloseLast, ClosedHalf, Download, Calm
<1>11. Upload(i)'
  <2> SUFFICES ASSUME cut[i] # "reset"
               PROVE  /\ \A n \in 1 .. Len(Held(i)') : Held(i)'[n] = n
                      /\ Len(Held(i)') <= sent[i]
                      /\ Line(Waiting', i, Len(Held(i)'), sent[i])
    BY <1>1 DEF Upload
  <2> DEFINE h == Held(i)
             l == Len(h)
             x == Taken(m, f)
  <2>1. h \in Seq(Nat) /\ l \in Nat /\ sent[i] \in Nat
    BY HeldType DEF TypeOK
  <2>2. (\A n \in 1 .. l : h[n] = n) /\ l <= sent[i] /\ Line(W, i, l, sent[i])
    BY <1>3 DEF Flow, Upload
  <2>3. Held(i)' = h \o x
    <3>1. /\ sunk[i] \in Seq(Nat) /\ conn[i].tx \in Seq(Nat) /\ conn[i].pend \in Seq(Nat)
          /\ x \in Seq(Nat)
      BY <1>7, RecordFields DEF TypeOK
    <3>2. Held(i)' = Cat(Cat(sunk[i], conn[i].tx), Cat(conn[i].pend, x))
      BY <1>1, <1>6 DEF Held, Cat
    <3>3. h \o x = Cat(Cat(Cat(sunk[i], conn[i].tx), conn[i].pend), x)
      BY DEF Held, Cat
    <3> DEFINE y == Cat(sunk[i], conn[i].tx)
    <3>4. y \in Seq(Nat)
      BY <3>1, CatFacts
    <3> DEFINE p == conn[i].pend
    <3>5. p \in Seq(Nat) /\ x \in Seq(Nat)
      BY <3>1
    <3> HIDE DEF h, x, y, p
    <3>6. Cat(Cat(y, p), x) = Cat(y, Cat(p, x))
      BY <3>4, <3>5, CatFacts, Zenon
    <3>7. Cat(Cat(y, conn[i].pend), x) = Cat(y, Cat(conn[i].pend, x))
      BY <3>6, Zenon DEF p
    <3> QED
      BY <3>2, <3>3, <3>7, Zenon DEF y
  <2>4. m.from = l /\ l < m.to /\ m.to <= sent[i]
    BY <1>2, <2>1, <2>2, HeadFirst
  <2> HIDE DEF h, l, x
  <2>5. /\ Len(h \o x) = l + f
        /\ \A n \in 1 .. l + f : (h \o x)[n] = IF n <= l THEN h[n] ELSE x[n - l]
    <3>1. x \in Seq(Nat) /\ Len(x) = f /\ Len(h) = l
      BY <1>7 DEF l, x
    <3> QED
      BY <2>1, <3>1, ConcatProperties
  <2>6. \A n \in 1 .. l + f : (h \o x)[n] = n
    <3> SUFFICES ASSUME NEW n \in 1 .. l + f PROVE (h \o x)[n] = n
      OBVIOUS
    <3>1. CASE n <= l
      BY <2>1, <2>2, <2>5, <3>1
    <3>2. CASE n > l
      <4>1. n - l \in 1 .. f /\ l + (n - l) = n
        BY <2>1, <3>2
      <4>2. x[n - l] = m.from + (n - l)
        <5> DEFINE k == n - l
        <5>1. k \in 1 .. f
          BY <4>1
        <5> HIDE DEF k
        <5>2. Taken(m, f)[k] = m.from + k
          BY <1>7, <5>1, Zenon
        <5> QED
          BY <5>2, Zenon DEF x, k
      <4>3. (h \o x)[n] = x[n - l]
        BY <2>1, <2>5, <3>2
      <4> QED
        BY <2>4, <4>1, <4>2, <4>3
    <3>3. n <= l \/ n > l
      BY <2>1
    <3> QED
      BY <3>1, <3>2, <3>3
  <2>7. l + f <= sent[i]
    BY <1>3, <2>1, <2>4
  <2>8. Line(Waiting', i, l + f, sent[i])
    <3>1. CASE f = d /\ Waiting' = Tail(W)
      <4>1. Line(Tail(W), i, m.to, sent[i])
        BY <1>2, <2>1, <2>2, HeadWhole
      <4>2. m.to = l + f
        BY <1>3, <2>1, <2>4, <3>1
      <4> QED
        BY <3>1, <4>1, <4>2
    <3>2. CASE f < d /\ Waiting' = <<Rest(m, f)>> \o Tail(W)
      <4>1. Rest(m, f).from < Rest(m, f).to
        BY <1>3, <1>7, <3>2
      <4>2. Line(<<Rest(m, f)>> \o Tail(W), i, l + f, sent[i])
        BY <1>2, <1>7, <2>1, <2>2, <4>1, HeadCut
      <4> QED
        BY <3>2, <4>2
    <3> QED
      BY <1>8, <3>1, <3>2
  <2> QED
    BY <2>3, <2>5, <2>6, <2>7, <2>8
<1> QED
    BY <1>10, <1>11 DEF Flow

LEMMA HandleFlow ==
    ASSUME TypeOK, Waiting # <<>>, data_in' = Tail(Waiting), Handle(Waiting[1]),
           UNCHANGED <<to_app, relay, remote, cut>>,
           NEW i \in Conns, Flow(i)
    PROVE  Flow(i)'
<1> DEFINE W == Waiting
           m == Waiting[1]
<1>1. /\ app' = app /\ up' = up /\ sent' = sent /\ to_app' = to_app /\ taken' = taken
      /\ want' = want /\ got' = got /\ sunk' = sunk /\ cut' = cut
    BY DEF relay, remote
<1>2. W \in Seq(Message) /\ m \in Message
    BY WaitingType, TailIndex
<1>3. ASSUME NEW f \in Nat, Accepts(m, f) PROVE Flow(i)'
  <2>1. CASE m.id = i
    <3>1. IsData(m, i)
      BY <1>3, <2>1 DEF Accepts, IsData
    <3> QED
      BY <1>3, <3>1, AcceptFlow
  <2>2. CASE m.id # i
    <3>1. m.id \in Conns /\ m.t = "tcp" /\ f <= m.to - m.from /\ ~IsData(m, i)
      BY <1>2, <1>3, <2>2, MessageFields DEF Accepts, IsData
    <3>2. Same(i)
      BY <1>1, <1>3, <2>2, <3>1 DEF Accepts, Same, TypeOK
    <3>3. Rest(m, f) \in Message /\ Rest(m, f).t = m.t /\ Rest(m, f).id = m.id
      BY <1>2, <3>1, TakenType
    <3>4. Waiting' = Tail(W) \/ Waiting' = <<Rest(m, f)>> \o Tail(W)
      BY <1>3, WaitingNext DEF Accepts
    <3>5. Benign(W, Waiting', i)
      BY <1>2, <3>1, <3>3, <3>4, TailBenign, CutBenign
    <3> QED
      BY <3>2, <3>5, Bystander
  <2> QED
    BY <2>1, <2>2
<1>4. CASE Notes(m)
  <2>1. m.t = "close" /\ m.id \in Conns /\ ~IsData(m, i) /\ Waiting' = Tail(W)
    BY <1>2, <1>4, MessageFields, WaitingNext DEF Notes, IsData
  <2>2. Benign(W, Waiting', i)
    BY <1>2, <2>1, TailBenign
  <2>3. CASE m.id # i
    <3>1. Same(i)
      BY <1>1, <1>4, <2>1, <2>3 DEF Notes, Same, TypeOK
    <3> QED
      BY <2>2, <3>1, Bystander
  <2>4. CASE m.id = i
    <3>1. /\ conn'[i].st = conn[i].st /\ conn'[i].est = conn[i].est
          /\ conn'[i].half = TRUE /\ conn'[i].rx = conn[i].rx
          /\ conn'[i].tx = conn[i].tx /\ conn'[i].pend = conn[i].pend
          /\ conn[i].st # "none"
      BY <1>4, <2>1, <2>4 DEF Notes, TypeOK, Record, Present
    <3>2. HasClose(W, i) /\ ~HasData(Waiting', i)
      <4>1. Len(W) \in Nat /\ 1 \in 1 .. Len(W) /\ IsClose(m, i)
        BY <1>2, <2>1, <2>4, TailIndex DEF IsClose
      <4>2. ASSUME NEW n \in 1 .. Len(Tail(W)) PROVE ~IsData(Tail(W)[n], i)
        <5>1. n + 1 \in 1 .. Len(W) /\ 1 < n + 1 /\ Tail(W)[n] = W[n + 1]
          BY <1>2, TailIndex
        <5> QED
          BY <4>1, <5>1 DEF Flow, CloseLast, CloseOrder
      <4> QED
        BY <2>1, <4>1, <4>2 DEF HasClose, HasData
    <3>3. app[i] \notin {"idle", "dialing"} /\ ~up[i]
      BY <3>2 DEF Flow, Fresh, CloseLast
    <3>4. Held(i)' = Held(i) /\ Len(Held(i)) \in Nat /\ sent[i] \in Nat
      BY <1>1, <3>1, HeldType DEF Held, TypeOK
    <3>5. Fresh(i)' /\ Answer(i)' /\ CloseLast(i)' /\ ClosedHalf(i)' /\ Download(i)'
      BY <1>1, <2>2, <3>1, <3>2, <3>3 DEF
          Flow, Fresh, Answer, CloseLast, ClosedHalf, Download, Benign, Calm
    <3>6. Upload(i)'
      BY <1>1, <2>2, <3>1, <3>4 DEF Flow, Upload, Benign, Kept
    <3> QED
      BY <3>5, <3>6 DEF Flow
  <2> QED
    BY <2>3, <2>4
<1>5. CASE Drops(m)
  <2>1. Same(i) /\ Waiting' = Tail(W)
    BY <1>1, <1>5, WaitingNext DEF Drops, Same
  <2>2. CASE ~IsData(m, i)
    BY <1>2, <2>1, <2>2, TailBenign, Bystander
  <2>3. CASE IsData(m, i)
    <3>1. conn[i].st = "none"
      BY <1>5, <2>3 DEF Drops, IsData, Present
    <3>2. Calm(W, Waiting', i)
      BY <1>2, <2>1, TailCalm
    <3> QED
      BY <2>1, <3>1, <3>2 DEF
          Flow, Fresh, Answer, CloseLast, ClosedHalf, Download, Upload, Same, Calm
  <2> QED
    BY <2>2, <2>3
<1> QED
    BY <1>2, <1>3, <1>4, <1>5, HandleCases

\* A step of one connection leaves the flow of another one alone.
LEMMA OtherFlow ==
    ASSUME TypeOK, NEW i \in Conns, Flow(i), NEW j \in Conns, j # i,
           \/ service_tcp(j)
           \/ open_tcp(j) \/ give_up(j) \/ dial_dropped(j)
           \/ \E k \in 1 .. MaxChunk : relay_up(j, k)
           \/ relay_eof(j) \/ relay_down(j) \/ relay_end(j)
           \/ net_accept(j) \/ net_send(j) \/ net_fin(j)
           \/ net_read(j) \/ net_ack(j) \/ net_reset(j)
    PROVE  Flow(i)'
<1>0. TcpClose(j) \in Message /\ TcpClose(j).t # "tcp" /\ ~IsClose(TcpClose(j), i)
    BY MessageTypes DEF TcpClose, IsClose
<1>1. CASE service_tcp(j)
  <2>1. Same(i)
    BY <1>1 DEF service_tcp, Same, remote, TypeOK
  <2>2. Benign(Waiting, Waiting', i)
    BY <1>0, <1>1, SendOther DEF service_tcp
  <2> QED
    BY <2>1, <2>2, Bystander
<1>2. CASE open_tcp(j) \/ give_up(j) \/ dial_dropped(j) \/ relay_down(j)
  <2>1. Same(i)
    BY <1>2 DEF open_tcp, give_up, dial_dropped, relay_down, Same, remote, TypeOK
  <2>2. Waiting' = Waiting
    BY <1>2 DEF open_tcp, give_up, dial_dropped, relay_down, Waiting
  <2> QED
    BY <2>1, <2>2, Unmoved, Bystander
<1>3. ASSUME NEW k \in 1 .. MaxChunk, relay_up(j, k) PROVE Flow(i)'
  <2>1. Same(i)
    BY <1>3 DEF relay_up, Same, remote, TypeOK
  <2> DEFINE m == Data(j, sent[j], sent[j] + k)
  <2>2. m \in Message /\ ~IsData(m, i) /\ ~IsClose(m, i)
    <3>1. sent[j] \in Nat /\ k \in Nat
      BY NetstackAssumption DEF TypeOK
    <3>2. sent[j] + k \in Nat /\ sent[j] <= sent[j] + k
      BY <3>1
    <3> QED
      BY <3>1, <3>2, MessageTypes DEF Data, IsData, IsClose
  <2>3. data_in' = Append(data_in, m) /\ deferred' = deferred
    BY <1>3 DEF relay_up
  <2> HIDE DEF m
  <2>4. Waiting' = Append(Waiting, m)
    BY <2>2, <2>3, WaitingAppend DEF Waiting, TypeOK
  <2>5. Benign(Waiting, Waiting', i)
    BY <2>2, <2>4, WaitingType, KeptAppend
  <2> QED
    BY <2>1, <2>5, Bystander
<1>4. CASE relay_eof(j) \/ relay_end(j)
  <2>1. Same(i)
    BY <1>4 DEF relay_eof, relay_end, Same, remote, TypeOK
  <2>2. Benign(Waiting, Waiting', i)
    BY <1>0, <1>4, SendOther DEF relay_eof, relay_end
  <2> QED
    BY <2>1, <2>2, Bystander
<1>5. CASE \/ net_accept(j) \/ net_send(j) \/ net_fin(j)
           \/ net_read(j) \/ net_ack(j)
  <2>1. Same(i)
    BY <1>5 DEF net_accept, net_send, net_fin, net_read, net_ack, Poll, Same, relay, TypeOK
  <2>2. Waiting' = Waiting
    BY <1>5 DEF net_accept, net_send, net_fin, net_read, net_ack, Poll, Waiting
  <2> QED
    BY <2>1, <2>2, Unmoved, Bystander
<1>6. CASE net_reset(j)
  <2>1. Same(i)
    BY <1>6 DEF net_reset, Same, relay, remote, TypeOK
  <2>2. Waiting' = Waiting
    BY <1>6 DEF net_reset, Waiting
  <2> QED
    BY <2>1, <2>2, Unmoved, Bystander
<1> QED
    BY <1>1, <1>2, <1>3, <1>4, <1>5, <1>6

\* Nor does a step of an association.
LEMMA UdpFlow ==
    ASSUME TypeOK, NEW i \in Conns, Flow(i), NEW u \in Udps,
           open_udp(u) \/ udp_send(u) \/ udp_close(u) \/ udp_drop(u)
    PROVE  Flow(i)'
<1>1. i # u
    BY NetstackAssumption
<1>2. Same(i)
    BY <1>1 DEF open_udp, udp_send, udp_close, udp_drop, UdpGone, Same, relay, remote, TypeOK
<1>3. Benign(Waiting, Waiting', i)
  <2>1. CASE open_udp(u)
    <3>1. Waiting' = Waiting
      BY <2>1 DEF open_udp, Waiting
    <3> QED
      BY <3>1, Unmoved
  <2>2. CASE udp_send(u)
    <3> DEFINE m == [t |-> "udp", id |-> u, from |-> 0, to |-> 0]
    <3>1. m \in Message /\ m.t # "tcp" /\ ~IsClose(m, i)
      BY MessageTypes DEF IsClose
    <3>2. data_in' = Append(data_in, m) /\ deferred' = deferred
      BY <2>2 DEF udp_send
    <3> HIDE DEF m
    <3> QED
      BY <3>1, <3>2, SendOther
  <2>3. CASE udp_close(u) \/ udp_drop(u)
    <3>1. UdpClose(u) \in Message /\ UdpClose(u).t # "tcp" /\ ~IsClose(UdpClose(u), i)
      BY MessageTypes DEF UdpClose, IsClose
    <3> QED
      BY <2>3, <3>1, SendOther DEF udp_close, udp_drop, UdpGone
  <2> QED
    BY <2>1, <2>2, <2>3
<1> QED
    BY <1>2, <1>3, Bystander

LEMMA TaskFlow ==
    ASSUME TypeOK, NEW i \in Conns, Flow(i), retry_deferred \/ recv_data \/ wake
    PROVE  Flow(i)'
<1>1. CASE retry_deferred
  <2>1. CASE deferred = <<>>
    <3>1. Same(i) /\ Waiting' = Waiting
      BY <1>1, <2>1 DEF retry_deferred, Same, relay, remote, Waiting
    <3> QED
      BY <3>1, Unmoved, Bystander
  <2>2. CASE deferred # <<>>
    <3>1. /\ Handle(Head(deferred)) /\ data_in' = data_in
          /\ UNCHANGED <<to_app, relay, remote, cut>>
      BY <1>1, <2>2 DEF retry_deferred
    <3>2. Waiting # <<>> /\ Waiting[1] = Head(deferred) /\ data_in = Tail(Waiting)
      BY <2>2, TakeDeferred
    <3> QED
      BY <3>1, <3>2, HandleFlow
  <2> QED
    BY <2>1, <2>2
<1>2. CASE recv_data
  <2>1. /\ Handle(Head(data_in)) /\ data_in' = Tail(data_in) /\ data_in # <<>>
        /\ deferred = <<>> /\ UNCHANGED <<to_app, relay, remote, cut>>
    BY <1>2 DEF recv_data
  <2>2. Waiting = data_in /\ Waiting[1] = Head(data_in)
    BY <2>1, TakeData
  <2> QED
    BY <2>1, <2>2, HandleFlow
<1>3. CASE wake
  <2>1. Same(i) /\ Waiting' = Waiting
    BY <1>3 DEF wake, Same, relay, remote, Waiting
  <2> QED
    BY <2>1, Unmoved, Bystander
<1> QED
    BY <1>1, <1>2, <1>3

FlowInv == TypeOK /\ \A i \in Conns : Flow(i)

LEMMA FlowInit == Init => FlowInv
<1> SUFFICES ASSUME Init PROVE FlowInv
    OBVIOUS
<1>1. TypeOK
    BY TypeInit
<1> SUFFICES ASSUME NEW i \in Conns PROVE Flow(i)
    BY <1>1 DEF FlowInv
<1>2. /\ conn[i] = Absent /\ app[i] = "idle" /\ up[i] = FALSE /\ sent[i] = 0
      /\ sunk[i] = <<>> /\ got[i] = 0 /\ taken[i] = 0 /\ to_app[i] = 0
      /\ want[i] \in Nat /\ Waiting = <<>>
    BY <1>1 DEF Init, Waiting, TypeOK
<1>3. ~HasData(Waiting, i) /\ ~HasClose(Waiting, i) /\ CloseOrder(Waiting, i)
    BY <1>2 DEF HasData, HasClose, CloseOrder
<1> QED
    BY <1>2, <1>3, AbsentType DEF
        Flow, Fresh, Answer, CloseLast, ClosedHalf, Download, Upload

LEMMA FlowStep == FlowInv /\ [Next]_vars => FlowInv'
<1> SUFFICES ASSUME FlowInv, [Next]_vars PROVE FlowInv'
    OBVIOUS
<1>1. TypeOK /\ TypeOK'
    BY TypeStep DEF FlowInv
<1> SUFFICES ASSUME NEW i \in Conns PROVE Flow(i)'
    BY <1>1 DEF FlowInv
<1>2. Flow(i)
    BY DEF FlowInv
<1>3. CASE UNCHANGED vars
  <2>1. Same(i) /\ Waiting' = Waiting
    BY <1>3 DEF vars, Same, relay, remote, Waiting
  <2> QED
    BY <1>1, <1>2, <2>1, Unmoved, Bystander
<1>4. CASE retry_deferred \/ recv_data \/ wake
    BY <1>1, <1>2, <1>4, TaskFlow
<1>5. CASE run_end
    BY <1>1, <1>2, <1>5, EndFlow
<1>6. ASSUME NEW u \in Udps, open_udp(u) \/ udp_send(u) \/ udp_close(u) \/ udp_drop(u)
      PROVE  Flow(i)'
    BY <1>1, <1>2, <1>6, UdpFlow
<1>7. ASSUME NEW j \in Conns,
             \/ service_tcp(j)
             \/ open_tcp(j) \/ give_up(j) \/ dial_dropped(j)
             \/ \E k \in 1 .. MaxChunk : relay_up(j, k)
             \/ relay_eof(j) \/ relay_down(j) \/ relay_end(j)
             \/ net_accept(j) \/ net_send(j) \/ net_fin(j)
             \/ net_read(j) \/ net_ack(j) \/ net_reset(j)
      PROVE  Flow(i)'
  <2>1. CASE j # i
    BY <1>1, <1>2, <1>7, <2>1, OtherFlow
  <2>2. CASE j = i
    <3>1. CASE service_tcp(i)
      BY <1>1, <1>2, <3>1, ServiceFlow
    <3>2. CASE open_tcp(i) \/ give_up(i) \/ dial_dropped(i)
      BY <1>1, <1>2, <3>2, OpenFlow, GiveUpFlow
    <3>3. ASSUME NEW k \in 1 .. MaxChunk, relay_up(i, k) PROVE Flow(i)'
      BY <1>1, <1>2, <3>3, SendFlow
    <3>4. CASE relay_eof(i) \/ relay_down(i) \/ relay_end(i)
      BY <1>1, <1>2, <3>4, CloseFlow, DownFlow
    <3>5. CASE net_accept(i) \/ net_fin(i) \/ net_ack(i)
      BY <1>1, <1>2, <3>5, StateFlow
    <3>6. CASE net_send(i) \/ net_read(i) \/ net_reset(i)
      BY <1>1, <1>2, <3>6, ReceiveFlow, ReadFlow, ResetFlow
    <3> QED
      BY <1>7, <2>2, <3>1, <3>2, <3>3, <3>4, <3>5, <3>6
  <2> QED
    BY <2>1, <2>2
<1> QED
    BY <1>3, <1>4, <1>5, <1>6, <1>7 DEF Next, Turn

THEOREM FlowHolds == Spec => []FlowInv
BY FlowInit, FlowStep, PTL DEF Spec

\* What a relay sends is, as long as its connection lives and was not reset,
\* with the remote, in the socket, in pending or in the queue, each unit once and
\* in order: a message of which try_handle_data took a part goes back with the
\* rest, and the messages behind it wait.
THEOREM UploadKept == Spec => []UploadIntact
<1>1. FlowInv => UploadIntact
  <2> SUFFICES ASSUME FlowInv, NEW i \in Conns, Present(i), cut[i] # "reset"
               PROVE  LET W == Waiting
                          mine == {n \in DOMAIN W : IsData(W[n], i)}
                      IN  /\ Len(Held(i)) <= sent[i]
                          /\ \A n \in DOMAIN Held(i) : Held(i)[n] = n
                          /\ \A n \in mine : Len(Held(i)) <= W[n].from
                                /\ W[n].from < W[n].to /\ W[n].to <= sent[i]
                          /\ \A m, n \in mine : m < n => W[m].to <= W[n].from
                          /\ \A u \in Len(Held(i)) + 1 .. sent[i] :
                                \E n \in mine : W[n].from < u /\ u <= W[n].to
    BY DEF UploadIntact
  <2>1. TypeOK /\ Upload(i)
    BY DEF FlowInv, Flow
  <2>2. DOMAIN Waiting = 1 .. Len(Waiting) /\ DOMAIN Held(i) = 1 .. Len(Held(i))
    BY <2>1, WaitingType, HeldType, LenProperties
  <2> QED
    BY <2>1, <2>2 DEF Upload, Present, Line
<1> QED
    BY <1>1, FlowHolds, PTL

\* The stack closes the socket of a relay that is there, unless the remote closed
\* first, only after all the relay sent went into it: the close is queued behind
\* the data, and service_tcp waits until pending is empty.
THEOREM FinLast == Spec => []FinAfterAll
<1>1. FlowInv => FinAfterAll
  <2> SUFFICES ASSUME FlowInv, NEW i \in Conns, app[i] = "open", cut[i] # "reset",
                      conn[i].st \in {"finwait1", "finwait2", "closing", "timewait"}
               PROVE  /\ conn[i].pend = <<>>
                      /\ \A n \in DOMAIN Waiting : ~IsData(Waiting[n], i)
    BY DEF FinAfterAll
  <2>1. TypeOK /\ CloseLast(i) /\ ClosedHalf(i)
    BY DEF FlowInv, Flow
  <2>2. DOMAIN Waiting = 1 .. Len(Waiting)
    BY <2>1, WaitingType, LenProperties
  <2> QED
    BY <2>1, <2>2 DEF CloseLast, ClosedHalf, HasData
<1> QED
    BY <1>1, FlowHolds, PTL

\* A relay that sees the end of the stream has all the remote sent, unless the
\* connection was reset or service_tcp removed it with data in its socket.
THEOREM EofHonest == Spec => []EofMeansAll
<1>1. FlowInv => EofMeansAll
  <2> SUFFICES ASSUME FlowInv, NEW i \in Conns, app[i] = "open", conn[i].st = "none",
                      to_app[i] = 0, cut[i] = "whole"
               PROVE  taken[i] = want[i]
    BY DEF EofMeansAll, Present
  <2> QED
    BY DEF FlowInv, Flow, Download, TypeOK
<1> QED
    BY <1>1, FlowHolds, PTL

-----------------------------------------------------------------------------
(* The upload as Pipe promises it.  Besides the flow of a connection, a    *)
(* socket whose end of stream was acknowledged or that was reset does not  *)
(* come back to life.                                                      *)

Ended(i) ==
    /\ eof[i] => conn[i].st \in {"finwait2", "timewait", "closed", "none"}
    /\ cut[i] = "reset" => conn[i].st \in {"closed", "none"}
    /\ app[i] = "idle" => ~eof[i] /\ cut[i] # "reset"

EndInv == FlowInv /\ \A i \in Conns : Ended(i)

\* A step that leaves the socket's state alone.
LEMMA EndedSame ==
    ASSUME NEW i, Ended(i), conn'[i].st = conn[i].st, eof'[i] = eof[i],
           cut'[i] = cut[i], app'[i] = "idle" => app[i] = "idle"
    PROVE  Ended(i)'
BY DEF Ended

\* Handling a message leaves the socket's state alone.
LEMMA HandleState ==
    ASSUME TypeOK, NEW m \in Message, Handle(m), NEW i \in Conns
    PROVE  conn'[i].st = conn[i].st
<1>1. conn \in [Conns -> Record]
    BY DEF TypeOK
<1>2. ASSUME NEW f \in Nat, Accepts(m, f) PROVE conn'[i].st = conn[i].st
    BY <1>1, <1>2 DEF Accepts, Record
<1>3. CASE Notes(m)
    BY <1>1, <1>3 DEF Notes, Record
<1>4. CASE Drops(m)
    BY <1>4 DEF Drops
<1> QED
    BY <1>2, <1>3, <1>4, HandleCases

LEMMA TaskState ==
    ASSUME TypeOK, retry_deferred \/ recv_data \/ wake, NEW i \in Conns
    PROVE  conn'[i].st = conn[i].st /\ app' = app /\ cut' = cut
           /\ sent' = sent /\ sunk' = sunk /\ eof' = eof
<1>1. app' = app /\ cut' = cut /\ sent' = sent /\ sunk' = sunk /\ eof' = eof
    BY DEF retry_deferred, recv_data, wake, relay, remote
<1>2. conn'[i].st = conn[i].st
  <2>1. CASE retry_deferred /\ deferred # <<>>
    BY <2>1, HeadMessage, HandleState DEF retry_deferred, TypeOK
  <2>2. CASE recv_data
    BY <2>2, HeadMessage, HandleState DEF recv_data, TypeOK
  <2>3. CASE (retry_deferred /\ deferred = <<>>) \/ wake
    BY <2>3 DEF retry_deferred, wake
  <2> QED
    BY <2>1, <2>2, <2>3
<1> QED
    BY <1>1, <1>2

\* What a packet does to the socket of connection j, and to no other.
LEMMA PollState ==
    ASSUME TypeOK, NEW j \in Conns,
           net_accept(j) \/ net_send(j) \/ net_fin(j) \/ net_read(j) \/ net_ack(j)
    PROVE  /\ app' = app /\ cut' = cut /\ sent' = sent
           /\ \A i \in Conns : i # j => conn'[i] = conn[i]
           /\ ~net_read(j) => sunk' = sunk
           /\ net_send(j) \/ net_read(j) => conn'[j].st = conn[j].st
           /\ net_accept(j) => conn[j].st = "synsent" /\ conn'[j].st = "established"
           /\ net_fin(j) =>
                 \/ conn[j].st = "established" /\ conn'[j].st = "closewait"
                 \/ conn[j].st = "finwait1" /\ conn'[j].st = "closing"
                 \/ conn[j].st = "finwait2" /\ conn'[j].st = "timewait"
           /\ net_ack(j) =>
                 /\ eof' = [eof EXCEPT ![j] = TRUE] /\ conn[j].tx = <<>>
                 /\ \/ conn[j].st = "finwait1" /\ conn'[j].st = "finwait2"
                    \/ conn[j].st = "closing" /\ conn'[j].st = "timewait"
                    \/ conn[j].st = "lastack" /\ conn'[j].st = "closed"
           /\ ~net_ack(j) => eof' = eof
<1>1. conn \in [Conns -> Record] /\ conn[j] \in Record
    BY DEF TypeOK
<1>2. /\ app' = app /\ cut' = cut /\ sent' = sent
      /\ \A i \in Conns : i # j => conn'[i] = conn[i]
    BY <1>1 DEF net_accept, net_send, net_fin, net_read, net_ack, Poll, relay
<1>3. ~net_read(j) => sunk' = sunk
    BY DEF net_accept, net_send, net_fin, net_ack
<1>4. ~net_ack(j) => eof' = eof
    BY DEF net_accept, net_send, net_fin, net_read
<1>5. net_send(j) \/ net_read(j) => conn'[j].st = conn[j].st
    BY <1>1 DEF net_send, net_read, Poll, Record
<1>6. net_accept(j) => conn[j].st = "synsent" /\ conn'[j].st = "established"
    BY <1>1 DEF net_accept, Poll, Record
<1>7. net_fin(j) =>
         \/ conn[j].st = "established" /\ conn'[j].st = "closewait"
         \/ conn[j].st = "finwait1" /\ conn'[j].st = "closing"
         \/ conn[j].st = "finwait2" /\ conn'[j].st = "timewait"
    BY <1>1 DEF net_fin, Poll, Record
<1>8. net_ack(j) =>
         \/ conn[j].st = "finwait1" /\ conn'[j].st = "finwait2"
         \/ conn[j].st = "closing" /\ conn'[j].st = "timewait"
         \/ conn[j].st = "lastack" /\ conn'[j].st = "closed"
    BY <1>1 DEF net_ack, Poll, Record
<1>9. net_ack(j) => eof' = [eof EXCEPT ![j] = TRUE] /\ conn[j].tx = <<>>
    BY DEF net_ack
<1> QED
    BY <1>2, <1>3, <1>4, <1>5, <1>6, <1>7, <1>8, <1>9

\* What a visit of service_tcp does to it.
LEMMA VisitState ==
    ASSUME TypeOK, NEW j \in Conns, service_tcp(j)
    PROVE  /\ sent' = sent /\ sunk' = sunk /\ eof' = eof
           /\ \A i \in Conns : i # j =>
                 conn'[i] = conn[i] /\ app'[i] = app[i] /\ cut'[i] = cut[i]
           /\ Shifts(j)
           /\ conn'[j].st \in {"none", Serviced(j).next.st}
           /\ conn[j].st = "none" => conn'[j].st = "none"
           /\ cut'[j] = "reset" <=> cut[j] = "reset"
           /\ \/ app'[j] = app[j]
              \/ app[j] = "dialing" /\ app'[j] = "gone"
              \/ app[j] = "dialing" /\ app'[j] = "open" /\ conn[j].st = "established"
<1>1. Shifts(j)
    BY ServiceMoves
<1>2. sent' = sent /\ sunk' = sunk /\ eof' = eof
    BY DEF service_tcp, remote
<1>3. \A i \in Conns : i # j =>
         conn'[i] = conn[i] /\ app'[i] = app[i] /\ cut'[i] = cut[i]
    BY DEF service_tcp, TypeOK
<1>4. /\ conn'[j] = Absent \/ conn'[j] = Serviced(j).next
      /\ conn[j].st = "none" => conn'[j] = Absent
    BY DEF service_tcp, TypeOK, Present
<1>5. cut'[j] = "reset" <=> cut[j] = "reset"
    BY DEF service_tcp, TypeOK
<1>6. \/ app'[j] = app[j]
      \/ app[j] = "dialing" /\ app'[j] = "gone"
      \/ app[j] = "dialing" /\ app'[j] = "open" /\ conn[j].st = "established"
    BY DEF service_tcp, TypeOK, Answered
<1> QED
    BY <1>1, <1>2, <1>3, <1>4, <1>5, <1>6, AbsentType

\* What the relay of connection j and the commands do to it.
LEMMA RelayState ==
    ASSUME TypeOK, NEW j \in Conns,
           \/ open_tcp(j) \/ give_up(j) \/ dial_dropped(j)
           \/ relay_eof(j) \/ relay_down(j) \/ relay_end(j)
    PROVE  /\ sent' = sent /\ sunk' = sunk /\ eof' = eof /\ cut' = cut
           /\ \A i \in Conns : i # j => conn'[i] = conn[i] /\ app'[i] = app[i]
           /\ \/ conn' = conn /\ app'[j] \in {app[j], "gone"}
              \/ app[j] = "idle" /\ app'[j] = "dialing" /\ conn'[j].st = "synsent"
<1>1. sent' = sent /\ sunk' = sunk /\ eof' = eof /\ cut' = cut
    BY DEF open_tcp, give_up, dial_dropped, relay_eof, relay_down, relay_end, remote
<1>2. \A i \in Conns : i # j => conn'[i] = conn[i] /\ app'[i] = app[i]
    BY DEF open_tcp, give_up, dial_dropped, relay_eof, relay_down, relay_end, TypeOK
<1>3. CASE open_tcp(j)
  <2>1. app[j] = "idle" /\ app'[j] = "dialing" /\ conn'[j] = [Absent EXCEPT !.st = "synsent"]
    BY <1>3 DEF open_tcp, TypeOK
  <2>2. conn'[j].st = "synsent"
    BY <2>1 DEF Absent
  <2> QED
    BY <1>1, <1>2, <2>1, <2>2
<1>4. CASE ~open_tcp(j)
  <2>1. conn' = conn /\ app'[j] \in {app[j], "gone"}
    BY <1>4 DEF give_up, dial_dropped, relay_eof, relay_down, relay_end, TypeOK
  <2> QED
    BY <1>1, <1>2, <2>1
<1> QED
    BY <1>3, <1>4

LEMMA ResetState ==
    ASSUME TypeOK, NEW j \in Conns, net_reset(j)
    PROVE  /\ sent' = sent /\ sunk' = sunk /\ eof' = eof /\ app' = app
           /\ \A i \in Conns : i # j => conn'[i] = conn[i] /\ cut'[i] = cut[i]
           /\ conn[j].st # "none" /\ conn'[j].st = "closed" /\ cut'[j] = "reset"
BY DEF net_reset, TypeOK, Record, relay, remote

LEMMA UdpState ==
    ASSUME TypeOK, NEW u \in Udps,
           open_udp(u) \/ udp_send(u) \/ udp_close(u) \/ udp_drop(u)
    PROVE  /\ sent' = sent /\ sunk' = sunk /\ eof' = eof /\ cut' = cut /\ conn' = conn
           /\ \A i \in Conns : app'[i] = app[i]
<1>1. \A i \in Conns : i # u
    BY NetstackAssumption
<1> QED
    BY <1>1 DEF open_udp, udp_send, udp_close, udp_drop, UdpGone, TypeOK, relay, remote

LEMMA EndState ==
    ASSUME TypeOK, run_end, NEW i \in Conns
    PROVE  /\ sent' = sent /\ sunk' = sunk /\ eof' = eof /\ app' = app
           /\ conn'[i].st = "none" /\ cut'[i] \in {cut[i], "ended"}
BY AbsentType DEF run_end, DropRecords, relay, remote, TypeOK

LEMMA EndedStep ==
    ASSUME EndInv, [Next]_vars, NEW i \in Conns
    PROVE  Ended(i)'
<1>1. TypeOK /\ Flow(i) /\ Ended(i) /\ eof \in [Conns -> BOOLEAN]
    BY DEF EndInv, FlowInv, TypeOK
<1>2. app[i] = "idle" => conn[i].st = "none"
    BY <1>1, AbsentType DEF Flow, Fresh
<1>3. CASE UNCHANGED vars
    BY <1>1, <1>3, EndedSame DEF vars, relay, remote
<1>4. CASE retry_deferred \/ recv_data \/ wake
    BY <1>1, <1>4, TaskState, EndedSame
<1>5. CASE run_end
    BY <1>1, <1>5, EndState DEF Ended
<1>6. ASSUME NEW u \in Udps, open_udp(u) \/ udp_send(u) \/ udp_close(u) \/ udp_drop(u)
      PROVE  Ended(i)'
    BY <1>1, <1>6, UdpState, EndedSame
<1>7. ASSUME NEW j \in Conns, service_tcp(j) PROVE Ended(i)'
  <2>1. CASE i # j
    BY <1>1, <1>7, <2>1, VisitState, EndedSame
  <2>2. CASE i = j
    BY <1>1, <1>7, <2>2, VisitState DEF Ended, Shifts
  <2> QED
    BY <2>1, <2>2
<1>8. ASSUME NEW j \in Conns,
             \/ open_tcp(j) \/ give_up(j) \/ dial_dropped(j)
             \/ relay_eof(j) \/ relay_down(j) \/ relay_end(j)
      PROVE  Ended(i)'
    BY <1>1, <1>8, RelayState DEF Ended
<1>9. ASSUME NEW j \in Conns, NEW k \in 1 .. MaxChunk, relay_up(j, k) PROVE Ended(i)'
    BY <1>1, <1>9, EndedSame DEF relay_up, remote
<1>10. ASSUME NEW j \in Conns,
              net_accept(j) \/ net_send(j) \/ net_fin(j) \/ net_read(j) \/ net_ack(j)
       PROVE  Ended(i)'
  <2>1. CASE i # j
    <3>1. conn'[i] = conn[i] /\ app' = app /\ cut' = cut /\ eof'[i] = eof[i]
      BY <1>1, <1>10, <2>1, PollState
    <3> QED
      BY <1>1, <3>1, EndedSame
  <2>2. CASE i = j /\ ~net_ack(j)
    BY <1>1, <1>10, <2>2, PollState DEF Ended
  <2>3. CASE i = j /\ net_ack(j)
    BY <1>1, <1>2, <1>10, <2>3, PollState DEF Ended
  <2> QED
    BY <2>1, <2>2, <2>3
<1>11. ASSUME NEW j \in Conns, net_reset(j) PROVE Ended(i)'
  <2>1. CASE i # j
    BY <1>1, <1>11, <2>1, ResetState, EndedSame
  <2>2. CASE i = j
    BY <1>1, <1>2, <1>11, <2>2, ResetState DEF Ended
  <2> QED
    BY <2>1, <2>2
<1> QED
    BY <1>3, <1>4, <1>5, <1>6, <1>7, <1>8, <1>9, <1>10, <1>11 DEF Next, Turn

THEOREM EndsHold == Spec => []EndInv
<1>1. Init => EndInv
    BY FlowInit DEF EndInv, Ended, Init
<1>2. EndInv /\ [Next]_vars => EndInv'
    BY FlowStep, EndedStep DEF EndInv
<1> QED
    BY <1>1, <1>2, PTL DEF Spec

-----------------------------------------------------------------------------

LEMMA StageFacts ==
    ASSUME NEW i
    PROVE  /\ Stage(i) \in {"idle", "open", "shut", "over"}
           /\ Stage(i) = "idle" <=> app[i] \in {"idle", "dialing"}
           /\ Stage(i) = "open" <=>
                 app[i] = "open" /\ cut[i] # "reset" /\ conn[i].st = "established"
           /\ Stage(i) = "shut" <=>
                 /\ app[i] = "open" /\ cut[i] # "reset"
                 /\ conn[i].st \in {"finwait1", "finwait2", "closing", "timewait"}
BY DEF Stage

LEMMA StageFactsNext ==
    ASSUME NEW i
    PROVE  /\ Stage(i)' \in {"idle", "open", "shut", "over"}
           /\ Stage(i)' = "idle" <=> app'[i] \in {"idle", "dialing"}
           /\ Stage(i)' = "open" <=>
                 app'[i] = "open" /\ cut'[i] # "reset" /\ conn'[i].st = "established"
           /\ Stage(i)' = "shut" <=>
                 /\ app'[i] = "open" /\ cut'[i] # "reset"
                 /\ conn'[i].st \in {"finwait1", "finwait2", "closing", "timewait"}
BY DEF Stage

\* A step that leaves the relay and the socket's state alone.
LEMMA StageSame ==
    ASSUME NEW i, conn'[i].st = conn[i].st, app'[i] = app[i], cut'[i] = cut[i]
    PROVE  Stage(i)' = Stage(i)
BY DEF Stage

\* Connections that stay or lose an end make a step of the pipe.
LEMMA LeaveStep ==
    ASSUME sent' = sent, sunk' = sunk, eof' = eof,
           \A i \in Conns : Stage(i)' = Stage(i) \/ Stage(i)' = "over"
    PROVE  Stream!Next
<1> DEFINE S == {i \in Conns : Stage(i)' = "over"}
<1>1. [i \in Conns |-> Stage(i)]' =
         [i \in Conns |-> IF i \in S THEN "over" ELSE [j \in Conns |-> Stage(j)][i]]
    OBVIOUS
<1>2. Stream!Leave
    BY <1>1 DEF Stream!Leave
<1> QED
    BY <1>2 DEF Stream!Next

\* One connection that goes from one stage to another.
LEMMA EnterStep ==
    ASSUME sent' = sent, sunk' = sunk, eof' = eof, NEW j \in Conns,
           \/ Stage(j) = "idle" /\ Stage(j)' = "open"
           \/ Stage(j) = "open" /\ Stage(j)' = "shut",
           \A i \in Conns : i # j => Stage(i)' = Stage(i)
    PROVE  Stream!Next
<1>1. [i \in Conns |-> Stage(i)]' = [[i \in Conns |-> Stage(i)] EXCEPT ![j] = Stage(j)']
    OBVIOUS
<1>2. Stream!Open(j) \/ Stream!Shut(j)
    BY <1>1 DEF Stream!Open, Stream!Shut, Stream!Enter
<1> QED
    BY <1>2 DEF Stream!Next

\* service_tcp opens the pipe with the answer to the dial, shuts it with the
\* close of a relay, or removes the connection.
LEMMA VisitStream ==
    ASSUME EndInv, NEW j \in Conns, service_tcp(j)
    PROVE  Stream!Next
<1>1. TypeOK /\ Fresh(j) /\ Answer(j) /\ conn[j].st \in States
    BY RecordFields DEF EndInv, FlowInv, Flow, TypeOK
<1>2. sent' = sent /\ sunk' = sunk /\ eof' = eof
    BY <1>1, VisitState
<1>3. \A i \in Conns : i # j => Stage(i)' = Stage(i)
    BY <1>1, VisitState, StageSame
<1>4. /\ Shifts(j) /\ conn'[j].st \in {"none", Serviced(j).next.st}
      /\ cut'[j] = "reset" <=> cut[j] = "reset"
      /\ \/ app'[j] = app[j]
         \/ app[j] = "dialing" /\ app'[j] = "gone"
         \/ app[j] = "dialing" /\ app'[j] = "open" /\ conn[j].st = "established"
    BY <1>1, VisitState
<1>5. CASE Stage(j)' = "open"
  <2>1. app'[j] = "open" /\ cut[j] # "reset" /\ Serviced(j).next.st = "established"
    BY <1>4, <1>5, StageFactsNext
  <2>2. conn[j].st = "established"
    BY <1>1, <1>4, <2>1 DEF Shifts, States
  <2>3. Stage(j) \in {"idle", "open"}
    BY <1>4, <2>1, <2>2, StageFacts
  <2> QED
    BY <1>2, <1>3, <1>5, <2>3, LeaveStep, EnterStep
<1>6. CASE Stage(j)' = "shut"
  <2>1. /\ app'[j] = "open" /\ cut[j] # "reset"
        /\ Serviced(j).next.st \in {"finwait1", "finwait2", "closing", "timewait"}
    BY <1>4, <1>6, StageFactsNext
  <2>2. conn[j].st \in {"established", "finwait1", "finwait2", "closing", "timewait"}
    BY <1>1, <1>4, <2>1 DEF Shifts, States
  <2>3. app[j] = "open"
    <3>1. app[j] = "dialing" => ~conn[j].half
      BY <1>1 DEF Fresh
    <3>2. app[j] = "dialing" /\ conn[j].st = "established" =>
             Serviced(j).next.st = "established"
      BY <1>4, <2>1, <3>1 DEF Shifts
    <3> QED
      BY <1>4, <2>1, <3>2
  <2>4. Stage(j) \in {"open", "shut"}
    BY <2>1, <2>2, <2>3, StageFacts
  <2> QED
    BY <1>2, <1>3, <1>6, <2>4, LeaveStep, EnterStep
<1>7. CASE Stage(j)' = "idle"
  <2>1. Stage(j) = "idle"
    BY <1>4, <1>7, StageFacts, StageFactsNext
  <2> QED
    BY <1>2, <1>3, <1>7, <2>1, LeaveStep
<1>8. CASE Stage(j)' = "over"
    BY <1>2, <1>3, <1>8, LeaveStep
<1> QED
    BY <1>5, <1>6, <1>7, <1>8, StageFactsNext

\* A relay whose upload half has its sender has not shut the stream down.
LEMMA SendStream ==
    ASSUME EndInv, NEW j \in Conns, NEW k \in 1 .. MaxChunk, relay_up(j, k)
    PROVE  Stream!Next
<1>1. Fresh(j) /\ CloseLast(j) /\ ClosedHalf(j) /\ sent[j] \in Nat /\ k \in Nat
    BY NetstackAssumption DEF EndInv, FlowInv, Flow, TypeOK
<1>2. /\ conn' = conn /\ app' = app /\ cut' = cut /\ sunk' = sunk /\ eof' = eof
      /\ up[j] /\ sent' = [sent EXCEPT ![j] = sent[j] + k]
    BY DEF relay_up, remote
<1>3. Stage(j) \in {"open", "over"}
    BY <1>1, <1>2, StageFacts DEF Fresh, CloseLast, ClosedHalf
<1>4. [i \in Conns |-> Stage(i)]' = [i \in Conns |-> Stage(i)]
    BY <1>2 DEF Stage
<1>5. /\ sent'[j] = sent[j] + k /\ sent'[j] \in Nat /\ sent'[j] >= sent[j]
      /\ sent' = [sent EXCEPT ![j] = sent'[j]]
    BY <1>1, <1>2 DEF EndInv, FlowInv, TypeOK
<1>6. Stream!Send(j)
    BY <1>2, <1>3, <1>4, <1>5 DEF Stream!Send
<1> QED
    BY <1>6 DEF Stream!Next

\* The elements of a concatenation that the proof looks at.
LEMMA ConcatPrefix ==
    ASSUME NEW s \in Seq(Nat), NEW x \in Seq(Nat)
    PROVE  Len(s \o x) = Len(s) + Len(x) /\ \A n \in 1 .. Len(s) : (s \o x)[n] = s[n]
<1>1. Len(s) \in Nat /\ Len(x) \in Nat
    BY LenProperties
<1>2. /\ Len(s \o x) = Len(s) + Len(x)
      /\ \A n \in 1 .. Len(s) + Len(x) :
            (s \o x)[n] = IF n <= Len(s) THEN s[n] ELSE x[n - Len(s)]
    BY ConcatProperties, Zenon
<1> QED
    BY <1>1, <1>2

LEMMA ConcatNext ==
    ASSUME NEW s \in Seq(Nat), NEW x \in Seq(Nat), Len(x) > 0
    PROVE  (s \o x)[Len(s) + 1] = x[1]
<1>1. Len(s) \in Nat /\ Len(x) \in Nat
    BY LenProperties
<1>2. \A n \in 1 .. Len(s) + Len(x) :
         (s \o x)[n] = IF n <= Len(s) THEN s[n] ELSE x[n - Len(s)]
    BY ConcatProperties, Zenon
<1> DEFINE n == Len(s) + 1
<1>3. n \in 1 .. Len(s) + Len(x) /\ ~(n <= Len(s)) /\ n - Len(s) = 1
    BY <1>1
<1> HIDE DEF n
<1>4. (s \o x)[n] = x[n - Len(s)]
    BY <1>2, <1>3
<1> QED
    BY <1>3, <1>4 DEF n

\* The next unit in the socket is the one the remote has not received yet.
LEMMA ReadStream ==
    ASSUME EndInv, NEW j \in Conns, net_read(j)
    PROVE  Stream!Next
<1> DEFINE s == sunk[j]
           x == conn[j].tx
           p == conn[j].pend
<1>1. TypeOK /\ Upload(j) /\ Ended(j) /\ s \in Seq(Nat) /\ x \in Seq(Nat) /\ p \in Seq(Nat)
    BY RecordFields DEF EndInv, FlowInv, Flow, TypeOK
<1>2. /\ conn[j].st \in {"established", "closewait", "lastack", "finwait1", "closing"}
      /\ x # <<>> /\ sunk' = [sunk EXCEPT ![j] = Append(s, Head(x))]
    BY DEF net_read
<1>3. ~eof[j] /\ cut[j] # "reset"
    BY <1>1, <1>2 DEF Ended
<1>4. /\ \A n \in 1 .. Len(Held(j)) : Held(j)[n] = n
      /\ Len(Held(j)) <= sent[j] /\ sent[j] \in Nat
    BY <1>1, <1>2, <1>3 DEF Upload, TypeOK
<1>5. /\ Len(s) \in Nat /\ Len(x) \in Nat /\ Len(p) \in Nat /\ Len(x) > 0
      /\ Head(x) = x[1] /\ s \o x \in Seq(Nat) /\ Len(s \o x) = Len(s) + Len(x)
      /\ (s \o x)[Len(s) + 1] = x[1]
  <2>1. Len(s) \in Nat /\ Len(x) \in Nat /\ Len(p) \in Nat
    BY <1>1, LenProperties
  <2>2. Len(x) > 0 /\ Head(x) = x[1]
    BY <1>1, <1>2, <2>1, EmptySeq, HeadTailProperties
  <2>3. s \o x \in Seq(Nat) /\ Len(s \o x) = Len(s) + Len(x)
    BY <1>1, ConcatProperties
  <2> HIDE DEF s, x
  <2>4. (s \o x)[Len(s) + 1] = x[1]
    BY <1>1, <2>1, <2>2, ConcatNext
  <2> QED
    BY <2>1, <2>2, <2>3, <2>4
<1>6. Len(Held(j)) = Len(s) + Len(x) + Len(p) /\ Held(j)[Len(s) + 1] = x[1]
  <2>1. Held(j) = (s \o x) \o p
    BY DEF Held
  <2> DEFINE h == s \o x
  <2>2. h \in Seq(Nat) /\ Len(h) = Len(s) + Len(x) /\ h[Len(s) + 1] = x[1]
    BY <1>5
  <2> HIDE DEF h, s, x, p
  <2>3. Len(h \o p) = Len(h) + Len(p) /\ \A n \in 1 .. Len(h) : (h \o p)[n] = h[n]
    BY <1>1, <2>2, ConcatPrefix
  <2> QED
    BY <1>5, <2>1, <2>2, <2>3 DEF h
<1>7. Head(x) = Len(s) + 1 /\ Len(s) < sent[j]
  <2> HIDE DEF s, x, p
  <2>1. Len(s) + 1 \in 1 .. Len(Held(j)) /\ Len(s) + 1 <= Len(Held(j))
    BY <1>5, <1>6
  <2> QED
    BY <1>4, <1>5, <1>6, <2>1
<1>8. [i \in Conns |-> Stage(i)]' = [i \in Conns |-> Stage(i)] /\ sent' = sent /\ eof' = eof
  <2>1. /\ app' = app /\ cut' = cut /\ sent' = sent /\ eof' = eof
        /\ \A i \in Conns : conn'[i].st = conn[i].st
    <3>1. ~net_ack(j)
      BY <1>2 DEF net_ack
    <3> QED
      BY <1>1, <3>1, PollState
  <2> QED
    BY <2>1, StageSame
<1>9. Stream!Deliver(j)
    BY <1>2, <1>3, <1>7, <1>8 DEF Stream!Deliver, EndInv, FlowInv, TypeOK
<1> QED
    BY <1>9 DEF Stream!Next

LEMMA NoneLeft ==
    /\ \A a, b \in Nat : a + b <= 0 => a = 0
    /\ \A a, b \in Nat : a <= b /\ (\A u \in a + 1 .. b : FALSE) => a = b
<1>1. ASSUME NEW a \in Nat, NEW b \in Nat, a <= b, \A u \in a + 1 .. b : FALSE
      PROVE  a = b
    BY <1>1, ~(b \in a + 1 .. b)
<1> QED
    BY <1>1

\* The end of the stream of a relay that is there comes after its last unit.
LEMMA AckStream ==
    ASSUME EndInv, NEW j \in Conns, net_ack(j)
    PROVE  Stream!Next
<1>1. TypeOK /\ Flow(j) /\ Ended(j) /\ sunk[j] \in Seq(Nat) /\ conn[j].pend \in Seq(Nat)
    BY RecordFields DEF EndInv, FlowInv, TypeOK
<1>2. /\ app' = app /\ cut' = cut /\ sent' = sent /\ sunk' = sunk
      /\ eof' = [eof EXCEPT ![j] = TRUE] /\ conn[j].tx = <<>>
      /\ \A i \in Conns : i # j => conn'[i] = conn[i]
      /\ \/ conn[j].st = "finwait1" /\ conn'[j].st = "finwait2"
         \/ conn[j].st = "closing" /\ conn'[j].st = "timewait"
         \/ conn[j].st = "lastack" /\ conn'[j].st = "closed"
  <2>1. ~net_read(j)
    BY DEF net_ack, net_read
  <2> QED
    BY <1>1, <2>1, PollState
<1>3. ~eof[j] /\ cut[j] # "reset"
    BY <1>1, <1>2 DEF Ended
<1>4. Stage(j)' = Stage(j)
    BY <1>2 DEF Stage
<1>5. [i \in Conns |-> Stage(i)]' = [i \in Conns |-> Stage(i)]
    BY <1>2, <1>4, StageSame
<1>6. /\ Len(sunk[j]) \in Nat /\ Len(conn[j].pend) \in Nat /\ sent[j] \in Nat
      /\ sunk[j] \o <<>> = sunk[j] /\ Held(j) = sunk[j] \o conn[j].pend
      /\ Len(Held(j)) = Len(sunk[j]) + Len(conn[j].pend)
  <2>1. sunk[j] \o <<>> = sunk[j] /\ Len(sunk[j]) \in Nat /\ Len(conn[j].pend) \in Nat
    BY <1>1, ConcatEmptySeq, LenProperties
  <2>2. Held(j) = sunk[j] \o conn[j].pend
    BY <1>2, <2>1 DEF Held
  <2> QED
    BY <1>1, <2>1, <2>2, ConcatProperties DEF TypeOK
<1>7. Len(Held(j)) <= sent[j] /\ Line(Waiting, j, Len(Held(j)), sent[j])
    BY <1>1, <1>2, <1>3 DEF Flow, Upload
<1>8. Stage(j) # "over" => Len(sunk[j]) = sent[j]
  <2>1. CASE Stage(j) = "idle"
    <3>1. sent[j] = 0
      BY <1>1, <2>1, StageFacts DEF Flow, Fresh
    <3> QED
      BY <1>6, <1>7, <3>1, NoneLeft
  <2>2. CASE Stage(j) = "shut"
    <3>1. conn[j].half /\ conn[j].pend = <<>> /\ ~HasData(Waiting, j)
      BY <1>1, <2>2, StageFacts DEF Flow, ClosedHalf, CloseLast
    <3>2. Held(j) = sunk[j]
      BY <1>6, <3>1
    <3>3. Len(sunk[j]) <= sent[j] /\ \A u \in Len(sunk[j]) + 1 .. sent[j] : FALSE
      BY <1>7, <3>1, <3>2 DEF Line, HasData
    <3> QED
      BY <1>6, <3>3, NoneLeft
  <2>3. Stage(j) # "open"
    BY <1>2, StageFacts
  <2> QED
    BY <2>1, <2>2, <2>3, StageFacts
<1>9. Stream!End(j)
    BY <1>2, <1>3, <1>5, <1>8 DEF Stream!End
<1> QED
    BY <1>9 DEF Stream!Next

\* Every other step leaves the connections where they are or takes an end away.
LEMMA QuietStream ==
    ASSUME EndInv,
           \/ UNCHANGED vars
           \/ retry_deferred \/ recv_data \/ wake \/ run_end
           \/ \E u \in Udps : open_udp(u) \/ udp_send(u) \/ udp_close(u) \/ udp_drop(u)
           \/ \E j \in Conns :
                 \/ open_tcp(j) \/ give_up(j) \/ dial_dropped(j)
                 \/ relay_eof(j) \/ relay_down(j) \/ relay_end(j)
                 \/ net_accept(j) \/ net_send(j) \/ net_fin(j) \/ net_reset(j)
    PROVE  Stream!Next
<1>1. TypeOK
    BY DEF EndInv, FlowInv
<1>2. CASE UNCHANGED vars
    BY <1>2, StageSame, LeaveStep DEF vars, relay, remote
<1>3. CASE retry_deferred \/ recv_data \/ wake
  <2>1. sent' = sent /\ sunk' = sunk /\ eof' = eof
    BY <1>3 DEF retry_deferred, recv_data, wake, relay, remote
  <2>2. \A i \in Conns : Stage(i)' = Stage(i)
    BY <1>1, <1>3, TaskState, StageSame
  <2> QED
    BY <2>1, <2>2, LeaveStep
<1>4. CASE run_end
  <2>1. sent' = sent /\ sunk' = sunk /\ eof' = eof
    BY <1>4 DEF run_end, relay, remote
  <2>2. ASSUME NEW i \in Conns PROVE Stage(i)' = Stage(i) \/ Stage(i)' = "over"
    BY <1>1, <1>4, EndState, StageFacts, StageFactsNext
  <2> QED
    BY <2>1, <2>2, LeaveStep
<1>5. ASSUME NEW u \in Udps, open_udp(u) \/ udp_send(u) \/ udp_close(u) \/ udp_drop(u)
      PROVE  Stream!Next
    BY <1>1, <1>5, UdpState, StageSame, LeaveStep
<1>6. ASSUME NEW j \in Conns,
             \/ open_tcp(j) \/ give_up(j) \/ dial_dropped(j)
             \/ relay_eof(j) \/ relay_down(j) \/ relay_end(j)
      PROVE  Stream!Next
  <2>1. sent' = sent /\ sunk' = sunk /\ eof' = eof /\ cut' = cut
    BY <1>1, <1>6, RelayState
  <2>2. \A i \in Conns : i # j => Stage(i)' = Stage(i)
    BY <1>1, <1>6, RelayState, StageSame
  <2>3. Stage(j)' = Stage(j) \/ Stage(j)' = "over"
    <3>1. CASE conn' = conn /\ app'[j] = app[j]
      BY <2>1, <3>1, StageSame
    <3>2. CASE app'[j] = "gone"
      BY <3>2, StageFactsNext
    <3>3. CASE app[j] = "idle" /\ app'[j] = "dialing"
      BY <3>3, StageFacts, StageFactsNext
    <3> QED
      BY <1>1, <1>6, <3>1, <3>2, <3>3, RelayState
  <2> QED
    BY <2>1, <2>2, <2>3, LeaveStep
<1>7. ASSUME NEW j \in Conns, net_accept(j) \/ net_send(j) \/ net_fin(j)
      PROVE  Stream!Next
  <2>1. app' = app /\ cut' = cut /\ sent' = sent /\ sunk' = sunk /\ eof' = eof
    BY <1>7 DEF net_accept, net_send, net_fin, Poll, relay
  <2>2. \A i \in Conns : i # j => Stage(i)' = Stage(i)
    BY <1>1, <1>7, <2>1, PollState, StageSame
  <2>3. Answer(j)
    BY DEF EndInv, FlowInv, Flow
  <2>4. CASE net_accept(j)
    <3>1. conn[j].st = "synsent" /\ app[j] # "open"
      BY <1>1, <2>3, <2>4, PollState DEF Answer
    <3>2. Stage(j)' = Stage(j)
      BY <2>1, <3>1, StageFacts, StageFactsNext
    <3> QED
      BY <2>1, <2>2, <3>2, LeaveStep
  <2>5. CASE net_send(j)
    <3>1. Stage(j)' = Stage(j)
      BY <1>1, <2>1, <2>5, PollState, StageSame
    <3> QED
      BY <2>1, <2>2, <3>1, LeaveStep
  <2>6. CASE net_fin(j)
    <3>1. Stage(j)' = Stage(j) \/ Stage(j)' = "over"
      BY <1>1, <2>1, <2>6, PollState, StageFacts, StageFactsNext
    <3> QED
      BY <2>1, <2>2, <3>1, LeaveStep
  <2> QED
    BY <1>7, <2>4, <2>5, <2>6
<1>8. ASSUME NEW j \in Conns, net_reset(j) PROVE Stream!Next
  <2>1. sent' = sent /\ sunk' = sunk /\ eof' = eof /\ app' = app /\ cut'[j] = "reset"
    BY <1>1, <1>8, ResetState
  <2>2. \A i \in Conns : i # j => Stage(i)' = Stage(i)
    BY <1>1, <1>8, ResetState, StageSame
  <2>3. Stage(j)' = Stage(j) \/ Stage(j)' = "over"
    BY <2>1, StageFacts, StageFactsNext
  <2> QED
    BY <2>1, <2>2, <2>3, LeaveStep
<1> QED
    BY <1>2, <1>3, <1>4, <1>5, <1>6, <1>7, <1>8

LEMMA StreamInit == Init => Stream!Init
<1> SUFFICES ASSUME Init PROVE Stream!Init
    OBVIOUS
<1>1. \A i \in Conns : app[i] = "idle"
    BY DEF Init
<1>2. [i \in Conns |-> Stage(i)] = [i \in Conns |-> "idle"]
    BY <1>1, StageFacts
<1> QED
    BY <1>2 DEF Init, Stream!Init

LEMMA StreamStep == EndInv /\ [Next]_vars => Stream!Next
<1> SUFFICES ASSUME EndInv, [Next]_vars PROVE Stream!Next
    OBVIOUS
<1>1. ASSUME NEW j \in Conns, NEW k \in 1 .. MaxChunk, relay_up(j, k) PROVE Stream!Next
    BY <1>1, SendStream
<1>2. ASSUME NEW j \in Conns, service_tcp(j) \/ net_read(j) \/ net_ack(j) PROVE Stream!Next
    BY <1>2, VisitStream, ReadStream, AckStream
<1> QED
    BY <1>1, <1>2, QuietStream DEF Next, Turn

\* The upload of every connection is the pipe that Pipe specifies, whatever the
\* queue of messages, the deferred one, pending and the socket's buffer do: the
\* remote gets what the relay sends once and in order, the end of the stream of a
\* relay that is there comes after its last unit, and nothing comes after it.
THEOREM UploadImplemented == Spec => UploadSpec
<1>1. EndInv /\ [Next]_vars =>
         [Stream!Next]_<<[i \in Conns |-> Stage(i)], sent, sunk, eof>>
    BY StreamStep
<1> QED
    BY <1>1, StreamInit, EndsHold, PTL DEF Spec, UploadSpec, Stream!Spec

=============================================================================
