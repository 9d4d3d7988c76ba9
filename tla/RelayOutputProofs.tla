-------------------------- MODULE RelayOutputProofs --------------------------
(***************************************************************************)
(* Proofs about the output of a process of the archived relay, for every   *)
(* bound: it arrives at the terminals that show it.                        *)
(*                                                                         *)
(* There is a past of each relay, all it ever sent, of which its buffer is *)
(* the end and what a terminal was sent is a stretch.  What the process    *)
(* wrote itself and what came from the other relay are each in order in it *)
(* (PastOf).                                                               *)
(***************************************************************************)
EXTENDS RelayProofs

\* s is what h says from a, which is not part of it, to b.
Cut(s, h, a, b) ==
  /\ s \in Seq(Nat) /\ a \in Nat /\ b \in Nat /\ b = a + Len(s)
  /\ \A i \in 1..Len(s) : s[i] = h[a + i]

LEMMA CutEmpty ==
  ASSUME NEW h, NEW a \in Nat
  PROVE  Cut(<<>>, h, a, a)
BY DEF Cut

LEMMA CutAdded ==
  ASSUME NEW s, NEW h, NEW a, NEW b, Cut(s, h, a, b), NEW c \in Nat, h[b + 1] = c
  PROVE  Cut(Append(s, c), h, a, b + 1)
<1>1. s \in Seq(Nat) /\ Append(s, c) \in Seq(Nat) /\ Len(Append(s, c)) = Len(s) + 1 /\ Len(s) \in Nat
  BY DEF Cut
<1>2. \A i \in 1..Len(s) : Append(s, c)[i] = s[i]
  BY <1>1
<1>3. Append(s, c)[Len(s) + 1] = c /\ b + 1 = a + (Len(s) + 1)
  BY <1>1 DEF Cut
<1>4. \A i \in 1..(Len(s) + 1) : i \in 1..Len(s) \/ i = Len(s) + 1
  BY <1>1
<1> QED
  BY <1>1, <1>2, <1>3, <1>4 DEF Cut

LEMMA CutTail ==
  ASSUME NEW s, NEW h, NEW a, NEW b, Cut(s, h, a, b), s # <<>>
  PROVE  Cut(Tail(s), h, a + 1, b)
<1>1. s \in Seq(Nat) /\ Tail(s) \in Seq(Nat) /\ Len(Tail(s)) = Len(s) - 1 /\ Len(s) \in Nat \ {0}
  BY EmptySeq, HeadTailProperties DEF Cut
<1>2. ASSUME NEW i \in 1..(Len(s) - 1) PROVE Tail(s)[i] = h[(a + 1) + i]
  <2>1. Tail(s)[i] = s[i + 1] /\ i + 1 \in 1..Len(s)
    BY <1>1, HeadTailProperties
  <2>2. s[i + 1] = h[a + (i + 1)]
    BY <2>1 DEF Cut
  <2>3. a + (i + 1) = (a + 1) + i
    BY <1>1 DEF Cut
  <2> QED
    BY <2>1, <2>2, <2>3
<1> QED
  BY <1>1, <1>2 DEF Cut

LEMMA CutJoined ==
  ASSUME NEW s, NEW t, NEW h, NEW a, NEW b, NEW c, Cut(s, h, a, b), Cut(t, h, b, c)
  PROVE  Cut(s \o t, h, a, c)
<1>1. s \in Seq(Nat) /\ t \in Seq(Nat) /\ Len(s) \in Nat /\ Len(t) \in Nat
  BY DEF Cut
<1>2. s \o t \in Seq(Nat) /\ Len(s \o t) = Len(s) + Len(t)
  BY <1>1, ConcatProperties
<1>3. ASSUME NEW i \in 1..(Len(s) + Len(t)) PROVE (s \o t)[i] = h[a + i]
  <2>1. CASE i \in 1..Len(s)
    <3>1. (s \o t)[i] = s[i]
      BY <1>1, <2>1, ConcatProperties
    <3> QED
      BY <3>1, <2>1 DEF Cut
  <2>2. CASE i \notin 1..Len(s)
    <3>1. (s \o t)[i] = t[i - Len(s)] /\ i - Len(s) \in 1..Len(t)
      BY <1>1, <2>2, ConcatProperties
    <3>2. t[i - Len(s)] = h[b + (i - Len(s))]
      BY <3>1 DEF Cut
    <3>3. b + (i - Len(s)) = a + i
      BY <1>1 DEF Cut
    <3> QED
      BY <3>1, <3>2, <3>3
  <2> QED
    BY <2>1, <2>2
<1> QED
  BY <1>1, <1>2, <1>3 DEF Cut

\* What is said later does not change it.
LEMMA CutStays ==
  ASSUME NEW s, NEW h, NEW g, NEW a, NEW b, Cut(s, h, a, b), \A i \in 1..b : g[i] = h[i]
  PROVE  Cut(s, g, a, b)
<1>1. \A i \in 1..Len(s) : a + i \in 1..b
  BY DEF Cut
<1> QED
  BY <1>1 DEF Cut

LEMMA CutIsSuffix ==
  ASSUME NEW s, NEW t, NEW h, NEW a, NEW b, NEW c, Cut(s, h, a, c), Cut(t, h, b, c), a <= b
  PROVE  Surfs!IsSuffix(t, s)
<1> DEFINE R(u) == [i \in 1..Len(u) |-> u[(Len(u) - i) + 1]]
<1>1. s \in Seq(Nat) /\ t \in Seq(Nat) /\ Len(s) \in Nat /\ Len(t) \in Nat /\ Len(t) <= Len(s)
  BY DEF Cut
<1>2. ASSUME NEW u \in Seq(Nat) PROVE R(u) \in Seq(Nat) /\ Len(R(u)) = Len(u)
  <2>1. Len(u) \in Nat
    OBVIOUS
  <2>2. \A i \in 1..Len(u) : (Len(u) - i) + 1 \in 1..Len(u)
    BY <2>1
  <2>3. R(u) \in [1..Len(u) -> Nat]
    BY <2>2
  <2> QED
    BY <2>1, <2>3
<1>3. ASSUME NEW i \in 1..Len(t) PROVE R(t)[i] = R(s)[i]
  <2>1. (Len(t) - i) + 1 \in 1..Len(t) /\ (Len(s) - i) + 1 \in 1..Len(s) /\ i \in 1..Len(s)
    BY <1>1
  <2>2. t[(Len(t) - i) + 1] = h[b + ((Len(t) - i) + 1)] /\ s[(Len(s) - i) + 1] = h[a + ((Len(s) - i) + 1)]
    BY <2>1 DEF Cut
  <2>3. b + ((Len(t) - i) + 1) = a + ((Len(s) - i) + 1)
    <3>1. a \in Nat /\ b \in Nat /\ a + Len(s) = b + Len(t) /\ i \in Nat
      BY DEF Cut
    <3>2. \A u, w \in Nat : a + u = b + w => b + ((w - i) + 1) = a + ((u - i) + 1)
      BY <3>1
    <3> QED
      BY <1>1, <3>1, <3>2
  <2>4. R(t)[i] = t[(Len(t) - i) + 1] /\ R(s)[i] = s[(Len(s) - i) + 1]
    BY <2>1
  <2> HIDE DEF R
  <2> QED
    BY <2>2, <2>3, <2>4
<1>4. SubSeq(R(t), 1, Len(t)) = SubSeq(R(s), 1, Len(t))
  <2>1. R(t) \in Seq(Nat) /\ R(s) \in Seq(Nat) /\ Len(R(t)) = Len(t) /\ Len(R(s)) = Len(s)
    BY <1>1, <1>2
  <2>2. ASSUME NEW u, u \in Seq(Nat), Len(t) <= Len(u)
        PROVE  /\ SubSeq(u, 1, Len(t)) \in Seq(Nat) /\ Len(SubSeq(u, 1, Len(t))) = Len(t)
               /\ \A i \in 1..Len(t) : SubSeq(u, 1, Len(t))[i] = u[i]
    <3>1. \A i \in 1..Len(t) : u[i] \in Nat
      <4>1. Len(u) \in Nat /\ \A i \in 1..Len(u) : u[i] \in Nat
        BY <2>2
      <4> QED
        BY <1>1, <2>2, <4>1
    <3>2. (Len(t) - 1) + 1 = Len(t) /\ \A i \in 1..Len(t) : (1 + i) - 1 = i
      BY <1>1
    <3> QED
      BY <1>1, <2>2, <3>1, <3>2, SubSeqProperties
  <2> HIDE DEF R
  <2> QED
    BY <1>1, <1>3, <2>1, <2>2, SeqEqual
<1>5. R(t) = Surfs!Reverse(t) /\ R(s) = Surfs!Reverse(s)
  BY DEF Surfs!Reverse
<1>6. Len(R(t)) = Len(t) /\ Len(R(s)) = Len(s)
  BY <1>1, <1>2
<1> HIDE DEF R
<1> QED
  BY <1>1, <1>4, <1>5, <1>6 DEF Surfs!IsSuffix, Surfs!IsPrefix

-----------------------------------------------------------------------------
Ends == {"leaf", "hub"}

\* All a relay sent of the process, and where the process wrote it there
Past == [len : Nat, at : [Nat -> Nat], own : SUBSET Nat]
Wrote(x) == {x.at[i] : i \in x.own}
WasSent(x) == {x.at[i] : i \in (1..x.len) \ x.own}
Ordered(x) ==
  /\ x.own \subseteq 1..x.len
  /\ \A i, j \in 1..x.len : i < j /\ (i \in x.own <=> j \in x.own) => x.at[i] < x.at[j]

WroteMore(x, y, c) ==
  /\ y.len = x.len + 1 /\ y.own = x.own \cup {x.len + 1} /\ y.at = [x.at EXCEPT ![x.len + 1] = c]
HeardMore(x, y, c) ==
  /\ y.len = x.len + 1 /\ y.own = x.own /\ y.at = [x.at EXCEPT ![x.len + 1] = c]

Before(A, B) == \A a \in A, b \in B : a < b

LEMMA MoreIs ==
  ASSUME NEW x \in Past, NEW y, NEW c \in Nat, WroteMore(x, y, c) \/ HeardMore(x, y, c), Ordered(x)
  PROVE  /\ y.len = x.len + 1 /\ y.at[y.len] = c /\ \A i \in 1..x.len : y.at[i] = x.at[i]
         /\ 1..y.len = (1..x.len) \cup {y.len} /\ y.len \notin 1..x.len /\ y.len \notin x.own
         /\ x.own \subseteq 1..x.len
<1>1. x.len \in Nat /\ x.at \in [Nat -> Nat] /\ x.len + 1 \in Nat
  BY DEF Past
<1>2. y.len = x.len + 1 /\ y.at = [x.at EXCEPT ![x.len + 1] = c]
  BY DEF WroteMore, HeardMore
<1>3. \A i \in 1..x.len : i \in Nat /\ i # x.len + 1
  BY <1>1
<1>4. y.at[y.len] = c /\ \A i \in 1..x.len : y.at[i] = x.at[i]
  BY <1>1, <1>2, <1>3
<1>5. 1..y.len = (1..x.len) \cup {y.len} /\ y.len \notin 1..x.len
  BY <1>1, <1>2
<1> QED
  BY <1>2, <1>4, <1>5 DEF Ordered

LEMMA WroteMoreIs ==
  ASSUME NEW x \in Past, NEW y \in Past, NEW c \in Nat, WroteMore(x, y, c), Ordered(x),
         Before(Wrote(x), {c})
  PROVE  Wrote(y) = Wrote(x) \cup {c} /\ WasSent(y) = WasSent(x) /\ Ordered(y)
<1>1. /\ y.len = x.len + 1 /\ y.at[y.len] = c /\ \A i \in 1..x.len : y.at[i] = x.at[i]
      /\ 1..y.len = (1..x.len) \cup {y.len} /\ y.len \notin 1..x.len /\ y.len \notin x.own
      /\ x.own \subseteq 1..x.len
  BY MoreIs
<1>2. y.own = x.own \cup {y.len}
  BY <1>1 DEF WroteMore
<1>3. Wrote(y) = Wrote(x) \cup {c}
  BY <1>1, <1>2 DEF Wrote
<1>4. WasSent(y) = WasSent(x)
  <2>1. (1..y.len) \ y.own = (1..x.len) \ x.own
    BY <1>1, <1>2
  <2> QED
    BY <1>1, <2>1 DEF WasSent
<1>5. ASSUME NEW i \in 1..y.len, NEW j \in 1..y.len, i < j, i \in y.own <=> j \in y.own
      PROVE  y.at[i] < y.at[j]
  <2>1. CASE i = y.len
    <3>1. y.len \in Nat
      BY DEF Past
    <3> QED
      BY <1>5, <2>1, <3>1
  <2>2. CASE i # y.len /\ j = y.len
    <3>1. i \in x.own /\ i \in 1..x.len
      BY <1>1, <1>2, <1>5, <2>2
    <3>2. x.at[i] \in Wrote(x)
      BY <3>1 DEF Wrote
    <3> QED
      BY <1>1, <2>2, <3>1, <3>2 DEF Before
  <2>3. CASE i # y.len /\ j # y.len
    <3>1. i \in 1..x.len /\ j \in 1..x.len /\ (i \in x.own <=> j \in x.own)
      BY <1>1, <1>2, <1>5, <2>3
    <3> QED
      BY <1>1, <1>5, <3>1 DEF Ordered
  <2> QED
    BY <2>1, <2>2, <2>3
<1> QED
  BY <1>1, <1>2, <1>3, <1>4, <1>5 DEF Ordered

LEMMA HeardMoreIs ==
  ASSUME NEW x \in Past, NEW y \in Past, NEW c \in Nat, HeardMore(x, y, c), Ordered(x),
         Before(WasSent(x), {c})
  PROVE  WasSent(y) = WasSent(x) \cup {c} /\ Wrote(y) = Wrote(x) /\ Ordered(y)
<1>1. /\ y.len = x.len + 1 /\ y.at[y.len] = c /\ \A i \in 1..x.len : y.at[i] = x.at[i]
      /\ 1..y.len = (1..x.len) \cup {y.len} /\ y.len \notin 1..x.len /\ y.len \notin x.own
      /\ x.own \subseteq 1..x.len
  BY MoreIs
<1>2. y.own = x.own
  BY DEF HeardMore
<1>3. Wrote(y) = Wrote(x)
  BY <1>1, <1>2 DEF Wrote
<1>4. WasSent(y) = WasSent(x) \cup {c}
  <2>1. (1..y.len) \ y.own = ((1..x.len) \ x.own) \cup {y.len}
    BY <1>1, <1>2
  <2> QED
    BY <1>1, <2>1 DEF WasSent
<1>5. ASSUME NEW i \in 1..y.len, NEW j \in 1..y.len, i < j, i \in y.own <=> j \in y.own
      PROVE  y.at[i] < y.at[j]
  <2>1. CASE i = y.len
    <3>1. y.len \in Nat
      BY DEF Past
    <3> QED
      BY <1>5, <2>1, <3>1
  <2>2. CASE i # y.len /\ j = y.len
    <3>1. i \in (1..x.len) \ x.own
      BY <1>1, <1>2, <1>5, <2>2
    <3>2. x.at[i] \in WasSent(x)
      BY <3>1 DEF WasSent
    <3> QED
      BY <1>1, <2>2, <3>1, <3>2 DEF Before
  <2>3. CASE i # y.len /\ j # y.len
    <3>1. i \in 1..x.len /\ j \in 1..x.len /\ (i \in x.own <=> j \in x.own)
      BY <1>1, <1>2, <1>5, <2>3
    <3> QED
      BY <1>1, <1>5, <3>1 DEF Ordered
  <2> QED
    BY <2>1, <2>2, <2>3
<1> QED
  BY <1>1, <1>2, <1>3, <1>4, <1>5 DEF Ordered

LEMMA NoPast ==
  ASSUME NEW x \in Past, x.len = 0, x.own = {}
  PROVE  Ordered(x) /\ Wrote(x) = {} /\ WasSent(x) = {}
BY DEF Ordered, Wrote, WasSent

-----------------------------------------------------------------------------
OutMessages == {Surfs!PublishOut, Surfs!Subscribe, Surfs!Subscribed} \cup {Surfs!Output(c) : c \in Nat}

\* The output in queue q, which is in order
Outputs(q) == {i \in 1..Len(q) : q[i].type = "output"}
Carried(q) == {q[i].chunk : i \in Outputs(q)}
Rising(q) == \A i, j \in Outputs(q) : i < j => q[i].chunk < q[j].chunk

LEMMA OutMessageIs ==
  /\ \A c \in Nat : /\ Surfs!Output(c) \in OutMessages
                    /\ Surfs!Output(c).type = "output" /\ Surfs!Output(c).chunk = c
  /\ \A m \in {Surfs!PublishOut, Surfs!Subscribe, Surfs!Subscribed} : m \in OutMessages /\ m.type # "output"
  /\ \A m \in OutMessages : m.type = "output" => m.chunk \in Nat /\ m = Surfs!Output(m.chunk)
  /\ \A m \in OutMessages : m.type \in {"publish", "subscribe", "subscribed", "output"}
  /\ Surfs!PublishOut.type = "publish"
<1>1. ASSUME NEW c \in Nat
      PROVE  /\ Surfs!Output(c) \in OutMessages
             /\ Surfs!Output(c).type = "output" /\ Surfs!Output(c).chunk = c
  <2>1. Surfs!Output(c).type = "output" /\ Surfs!Output(c).chunk = c
    BY DEF Surfs!Output
  <2> QED
    BY <2>1 DEF OutMessages
<1>2. /\ Surfs!PublishOut.type = "publish" /\ Surfs!Subscribe.type = "subscribe"
      /\ Surfs!Subscribed.type = "subscribed"
  BY DEF Surfs!PublishOut, Surfs!Subscribe, Surfs!Subscribed
<1>3. ASSUME NEW m \in OutMessages
      PROVE  \/ m = Surfs!PublishOut \/ m = Surfs!Subscribe \/ m = Surfs!Subscribed
             \/ \E c \in Nat : m = Surfs!Output(c)
  BY DEF OutMessages
<1>4. \A m \in {Surfs!PublishOut, Surfs!Subscribe, Surfs!Subscribed} : m \in OutMessages /\ m.type # "output"
  BY <1>2 DEF OutMessages
<1> QED
  BY <1>1, <1>2, <1>3, <1>4

LEMMA QueueGrows ==
  ASSUME NEW q \in Seq(OutMessages), NEW m \in OutMessages
  PROVE  /\ Append(q, m) \in Seq(OutMessages) /\ Append(q, m) # <<>>
         /\ Len(Append(q, m)) = Len(q) + 1 /\ Append(q, m)[Len(q) + 1] = m
         /\ \A j \in 1..Len(q) : Append(q, m)[j] = q[j] /\ j < Len(q) + 1
         /\ 1..(Len(q) + 1) = (1..Len(q)) \cup {Len(q) + 1} /\ Len(q) \in Nat
         /\ q # <<>> => Head(Append(q, m)) = Head(q)
         /\ q = <<>> => Head(Append(q, m)) = m
OBVIOUS

LEMMA OtherSent ==
  ASSUME NEW q \in Seq(OutMessages), NEW m \in OutMessages, m.type # "output", Rising(q)
  PROVE  Carried(Append(q, m)) = Carried(q) /\ Rising(Append(q, m))
<1> DEFINE p == Append(q, m)
<1>1. /\ Len(p) = Len(q) + 1 /\ p[Len(q) + 1] = m /\ \A j \in 1..Len(q) : p[j] = q[j]
      /\ 1..(Len(q) + 1) = (1..Len(q)) \cup {Len(q) + 1}
  BY QueueGrows
<1> HIDE DEF p
<1>2. Outputs(p) = Outputs(q) /\ Outputs(q) \subseteq 1..Len(q)
  BY <1>1 DEF Outputs
<1>3. Carried(p) = Carried(q)
  BY <1>1, <1>2 DEF Carried
<1>4. Rising(p)
  BY <1>1, <1>2 DEF Rising
<1> QED
  BY <1>3, <1>4 DEF p

LEMMA OutputSent ==
  ASSUME NEW q \in Seq(OutMessages), NEW c \in Nat, Rising(q), Before(Carried(q), {c})
  PROVE  /\ Carried(Append(q, Surfs!Output(c))) = Carried(q) \cup {c}
         /\ Rising(Append(q, Surfs!Output(c)))
<1> DEFINE p == Append(q, Surfs!Output(c))
<1>0. Surfs!Output(c) \in OutMessages /\ Surfs!Output(c).type = "output" /\ Surfs!Output(c).chunk = c
  BY OutMessageIs
<1>1. /\ Len(p) = Len(q) + 1 /\ p[Len(q) + 1] = Surfs!Output(c)
      /\ \A j \in 1..Len(q) : p[j] = q[j] /\ j < Len(q) + 1
      /\ 1..(Len(q) + 1) = (1..Len(q)) \cup {Len(q) + 1} /\ Len(q) \in Nat
  BY <1>0, QueueGrows
<1> HIDE DEF p
<1>2. Outputs(p) = Outputs(q) \cup {Len(q) + 1} /\ Outputs(q) \subseteq 1..Len(q)
  BY <1>0, <1>1 DEF Outputs
<1>3. Carried(p) = Carried(q) \cup {c}
  BY <1>0, <1>1, <1>2 DEF Carried
<1>4. ASSUME NEW i \in Outputs(p), NEW j \in Outputs(p), i < j PROVE p[i].chunk < p[j].chunk
  <2>1. i \in 1..Len(q) /\ i \in Outputs(q)
    BY <1>1, <1>2, <1>4
  <2>2. CASE j \in Outputs(q)
    BY <1>1, <1>2, <1>4, <2>1, <2>2 DEF Rising
  <2>3. CASE j = Len(q) + 1
    <3>1. q[i].chunk \in Carried(q)
      BY <2>1 DEF Carried
    <3> QED
      BY <1>0, <1>1, <2>1, <2>3, <3>1 DEF Before
  <2> QED
    BY <1>2, <2>2, <2>3
<1>5. Rising(p)
  BY <1>4 DEF Rising
<1> QED
  BY <1>3, <1>5 DEF p

LEMMA QueueTaken ==
  ASSUME NEW q \in Seq(OutMessages), q # <<>>, Rising(q)
  PROVE  /\ Head(q) \in OutMessages /\ Tail(q) \in Seq(OutMessages) /\ Rising(Tail(q))
         /\ Head(q).type # "output" => Carried(Tail(q)) = Carried(q)
         /\ Head(q).type = "output" => /\ Carried(q) = Carried(Tail(q)) \cup {Head(q).chunk}
                                       /\ Before({Head(q).chunk}, Carried(Tail(q)))
<1> DEFINE p == Tail(q)
<1>0. Head(q) \in OutMessages /\ Tail(q) \in Seq(OutMessages)
  BY HeadTailProperties
<1>1. /\ Len(p) = Len(q) - 1 /\ Len(q) \in Nat \ {0} /\ q[1] = Head(q)
      /\ \A j \in 1..Len(p) : p[j] = q[j + 1] /\ j + 1 \in 1..Len(q) /\ 1 < j + 1
      /\ \A j \in 1..Len(q) : j = 1 \/ j - 1 \in 1..Len(p)
      /\ \A j \in 1..Len(q) : (j - 1) + 1 = j
      /\ \A i, j \in 1..Len(p) : i < j => i + 1 < j + 1
  <2>1. Len(q) \in Nat \ {0} /\ Len(p) = Len(q) - 1 /\ q[1] = Head(q)
    BY EmptySeq, HeadTailProperties
  <2>2. \A j \in 1..Len(p) : p[j] = q[j + 1]
    BY HeadTailProperties
  <2> HIDE DEF p
  <2> QED
    BY <2>1, <2>2
<1> HIDE DEF p
<1>2. Outputs(p) \subseteq 1..Len(p) /\ Outputs(q) \subseteq 1..Len(q)
  BY DEF Outputs
<1>3. \A j \in Outputs(p) : j + 1 \in Outputs(q)
  BY <1>1, <1>2 DEF Outputs
<1>4. \A j \in Outputs(q) : j = 1 \/ j - 1 \in Outputs(p)
  <2> SUFFICES ASSUME NEW j \in Outputs(q), j # 1 PROVE j - 1 \in Outputs(p)
    OBVIOUS
  <2>1. j \in 1..Len(q) /\ j - 1 \in 1..Len(p) /\ (j - 1) + 1 = j /\ q[j].type = "output"
    BY <1>1, <1>2 DEF Outputs
  <2>2. p[j - 1] = q[j]
    BY <1>1, <2>1
  <2> QED
    BY <2>1, <2>2 DEF Outputs
<1>5. Rising(p)
  BY <1>1, <1>2, <1>3 DEF Rising
<1>6. Carried(p) \subseteq Carried(q)
  BY <1>1, <1>2, <1>3 DEF Carried
<1>7. ASSUME NEW c \in Carried(q) PROVE c \in Carried(p) \/ (Head(q).type = "output" /\ c = Head(q).chunk)
  <2>1. PICK j \in Outputs(q) : c = q[j].chunk
    BY DEF Carried
  <2>2. CASE j = 1
    BY <1>1, <2>1, <2>2 DEF Outputs
  <2>3. CASE j # 1
    <3>1. j - 1 \in Outputs(p) /\ p[j - 1] = q[j]
      BY <1>1, <1>2, <1>4, <2>3
    <3> QED
      BY <2>1, <3>1 DEF Carried
  <2> QED
    BY <2>2, <2>3
<1>8. ASSUME Head(q).type = "output" PROVE Head(q).chunk \in Carried(q) /\ Before({Head(q).chunk}, Carried(p))
  <2>1. 1 \in Outputs(q)
    BY <1>1, <1>8 DEF Outputs
  <2>2. \A j \in Outputs(p) : Head(q).chunk < p[j].chunk
    BY <1>1, <1>2, <1>3, <2>1 DEF Rising
  <2> QED
    BY <1>1, <2>1, <2>2 DEF Carried, Before
<1> QED
  BY <1>0, <1>5, <1>6, <1>7, <1>8 DEF p

LEMMA NothingCarried == Carried(<<>>) = {} /\ Rising(<<>>)
<1>1. Outputs(<<>>) = {}
  BY DEF Outputs
<1> QED
  BY <1>1 DEF Carried, Rising

-----------------------------------------------------------------------------
OutTypes ==
  /\ home \in Ends /\ written \in Nat /\ known \subseteq Ends /\ home \in known
  /\ waiting \subseteq LeafViewers /\ asks \subseteq Surfs!Viewers
  /\ buffer \in [Ends -> Seq(Nat)]
  /\ subscribed \in [Ends -> SUBSET (Surfs!Viewers \cup {"leaf"})]
  /\ toHub \in Seq(OutMessages) /\ toLeaf \in Seq(OutMessages)
  /\ linked \in BOOLEAN /\ broken \in BOOLEAN
  /\ sock \in [Surfs!Viewers -> {"connecting", "open", "backoff", "gone"}]
  /\ lines \in [Surfs!Viewers -> Seq([type : {"lines"}, chunks : Seq(Nat)])]
  /\ shown \in [Surfs!Viewers -> Seq(Nat)]

\* A terminal that has asked, or waits, has been sent nothing since it
\* connected; one that is not connected is sent nothing.
Attends(v) ==
  /\ v \in asks \/ v \in waiting =>
       shown[v] = <<>> /\ lines[v] = <<>> /\ v \notin subscribed[Surfs!At(v)]
  /\ sock[v] # "open" =>
       lines[v] = <<>> /\ v \notin subscribed[Surfs!At(v)] /\ v \notin asks /\ v \notin waiting
  /\ v \notin asks \/ v \notin waiting
  /\ \A r \in Ends : v \in subscribed[r] => r = Surfs!At(v)

\* What comes from the other relay is later than what came, and what is still
\* to go up is later than what comes down.
InTurn(p) ==
  /\ Rising(toHub) /\ Rising(toLeaf)
  /\ Before(WasSent(p["hub"]), Carried(toHub)) /\ Before(WasSent(p["leaf"]), Carried(toLeaf))
  /\ Before(Carried(toLeaf), Carried(toHub)) /\ Before(WasSent(p["leaf"]), Carried(toHub))

\* The process wrote at its home what it wrote; the rest came from there.
FromHome(p) ==
  /\ Wrote(p[home]) = 1..written
  /\ \A r \in Ends : WasSent(p[r]) \subseteq 1..written /\ (r # home => p[r].own = {})
  /\ Carried(toHub) \subseteq 1..written /\ Carried(toLeaf) \subseteq 1..written
  /\ home = "hub" => Carried(toHub) = {} /\ WasSent(p["hub"]) = {}

\* The output of a leaf goes up from the first, and comes down again; that of
\* the hub comes down from when the leaf has subscribed.
WentUp(p) ==
  /\ 1..written \subseteq WasSent(p["hub"]) \cup Carried(toHub)
  /\ WasSent(p["hub"]) \subseteq WasSent(p["leaf"]) \cup Carried(toLeaf)
  /\ "hub" \in known => "leaf" \in subscribed["hub"]
  /\ "hub" \notin known => toHub # <<>> /\ Head(toHub).type = "publish"

CameDown(p) ==
  \A c \in WasSent(p["leaf"]) \cup Carried(toLeaf) :
    /\ "leaf" \in subscribed["hub"]
    /\ \A d \in 1..written : c <= d => d \in WasSent(p["leaf"]) \cup Carried(toLeaf)

NoneLost(p) ==
  ~broken => linked /\ (home = "leaf" => WentUp(p)) /\ (home = "hub" => CameDown(p))

\* What is replayed is the end of the past.
Kept(r, x) == Cut(buffer[r], x.at, x.len - Len(buffer[r]), x.len)

\* What terminal v was sent, from a on, of which it has shown what is before
\* k[0]: the i-th that is on its way ends at k[i].
SentFrom(v, x, a, k) ==
  /\ a \in Nat /\ k \in [Nat -> Nat] /\ Cut(shown[v], x.at, a, k[0])
  /\ \A i \in 0..Len(lines[v]) : k[i] <= x.len
  /\ \A i \in 1..Len(lines[v]) : Cut(lines[v][i].chunks, x.at, k[i - 1], k[i])
  /\ v \in subscribed[Surfs!At(v)] =>
       k[Len(lines[v])] = x.len /\ a + Len(buffer[Surfs!At(v)]) <= x.len

Streamed(v, x) == \E a, k : SentFrom(v, x, a, k)

PastOf(p) ==
  /\ p \in [Ends -> Past] /\ \A r \in Ends : Ordered(p[r]) /\ Kept(r, p[r])
  /\ \A v \in Surfs!Viewers : Streamed(v, p[Surfs!At(v)])
  /\ InTurn(p) /\ FromHome(p) /\ NoneLost(p)

OutputInv == OutTypes /\ (\A v \in Surfs!Viewers : Attends(v)) /\ \E p : PastOf(p)

LEMMA AtIs == \A v \in Surfs!Viewers : Surfs!At(v) \in Ends /\ v # "leaf"
BY RelayBounds DEF Surfs!At, Ends, Surfs!Viewers

LEMMA OutputStarts == Surfs!OutputInit => OutputInv
<1> SUFFICES ASSUME Surfs!OutputInit PROVE OutputInv
  OBVIOUS
<1> DEFINE N == [len |-> 0, at |-> [i \in Nat |-> 0], own |-> {}]
           P == [r \in Ends |-> N]
<1>1. N \in Past /\ N.len = 0 /\ N.own = {}
  BY DEF Past
<1>2. P \in [Ends -> Past] /\ \A r \in Ends : P[r] = N
  BY <1>1
<1> HIDE DEF N, P
<1>3. Ordered(N) /\ Wrote(N) = {} /\ WasSent(N) = {}
  BY <1>1, NoPast
<1>4. Surfs!PublishOut \in OutMessages /\ Surfs!PublishOut.type = "publish"
  BY OutMessageIs
<1>5. /\ home \in Ends /\ known = {home} /\ linked = TRUE /\ written = 0
      /\ buffer = [r \in {"leaf", "hub"} |-> <<>>] /\ waiting = {} /\ asks = {}
      /\ subscribed = [r \in {"leaf", "hub"} |-> {}]
      /\ sock = [v \in Surfs!Viewers |-> "connecting"]
      /\ lines = [v \in Surfs!Viewers |-> <<>>] /\ shown = [v \in Surfs!Viewers |-> <<>>]
      /\ broken = FALSE
  BY DEF Surfs!OutputInit, Ends
<1>6. /\ toHub = IF home = "leaf" THEN <<Surfs!PublishOut>> ELSE <<>>
      /\ toLeaf = IF home = "hub" THEN <<Surfs!PublishOut>> ELSE <<>>
  BY DEF Surfs!OutputInit
<1>7. /\ \A q \in {toHub, toLeaf} : q \in Seq(OutMessages) /\ Carried(q) = {} /\ Rising(q)
      /\ home = "leaf" => toHub # <<>> /\ Head(toHub) = Surfs!PublishOut
  <2>1. \A q \in {toHub, toLeaf} : q = <<>> \/ q = Append(<<>>, Surfs!PublishOut)
    BY <1>6
  <2>2. <<>> \in Seq(OutMessages) /\ Carried(<<>>) = {} /\ Rising(<<>>)
    BY NothingCarried
  <2>3. LET q == Append(<<>>, Surfs!PublishOut) IN q \in Seq(OutMessages) /\ Carried(q) = {} /\ Rising(q)
    BY <1>4, <2>2, OtherSent, QueueGrows
  <2> QED
    BY <1>6, <2>1, <2>2, <2>3
<1>8. OutTypes
  <2>1. \A S : <<>> \in Seq(S)
    OBVIOUS
  <2>2. /\ buffer \in [Ends -> Seq(Nat)] /\ shown \in [Surfs!Viewers -> Seq(Nat)]
        /\ lines \in [Surfs!Viewers -> Seq([type : {"lines"}, chunks : Seq(Nat)])]
    BY <1>5, <2>1 DEF Ends
  <2>3. /\ subscribed \in [Ends -> SUBSET (Surfs!Viewers \cup {"leaf"})]
        /\ sock \in [Surfs!Viewers -> {"connecting", "open", "backoff", "gone"}]
    BY <1>5 DEF Ends
  <2>4. toHub \in Seq(OutMessages) /\ toLeaf \in Seq(OutMessages)
    BY <1>7
  <2> QED
    BY <1>5, <2>2, <2>3, <2>4 DEF OutTypes
<1>9. \A v \in Surfs!Viewers : Attends(v)
  BY <1>5, AtIs DEF Attends, Ends
<1>10. PastOf(P)
  <2>1. \A r \in Ends : Ordered(P[r]) /\ Kept(r, P[r])
    <3>1. \A r \in Ends : buffer[r] = <<>> /\ Len(<<>>) = 0 /\ N.len - 0 = 0
      BY <1>1, <1>5 DEF Ends
    <3> QED
      BY <1>1, <1>2, <1>3, <3>1, CutEmpty DEF Kept
  <2>2. ASSUME NEW v \in Surfs!Viewers PROVE Streamed(v, P[Surfs!At(v)])
    <3>1. P[Surfs!At(v)] = N /\ Surfs!At(v) \in Ends
      BY <1>2, AtIs
    <3>2. shown[v] = <<>> /\ lines[v] = <<>> /\ v \notin subscribed[Surfs!At(v)] /\ Len(<<>>) = 0
      BY <1>5, <3>1 DEF Ends
    <3>3. SentFrom(v, N, 0, [i \in Nat |-> 0])
      BY <1>1, <3>2, CutEmpty DEF SentFrom
    <3> QED
      BY <3>1, <3>3 DEF Streamed
  <2>3. InTurn(P) /\ FromHome(P) /\ NoneLost(P)
    <3>1. P["hub"] = N /\ P["leaf"] = N /\ P[home] = N /\ 1..written = {}
      BY <1>2, <1>5 DEF Ends
    <3>2. InTurn(P)
      BY <1>3, <1>7, <3>1 DEF InTurn, Before
    <3>3. FromHome(P)
      BY <1>1, <1>2, <1>3, <1>7, <3>1 DEF FromHome
    <3>4. NoneLost(P)
      BY <1>3, <1>4, <1>5, <1>7, <3>1 DEF NoneLost, WentUp, CameDown, Ends
    <3> QED
      BY <3>2, <3>3, <3>4
  <2> QED
    BY <1>2, <2>1, <2>2, <2>3 DEF PastOf
<1> QED
  BY <1>8, <1>9, <1>10 DEF OutputInv

-----------------------------------------------------------------------------
LEMMA OnceIs ==
  ASSUME NEW S, IsFiniteSet(S)
  PROVE  /\ Cardinality(S) \in Nat /\ (S # {} => Cardinality(S) > 0)
         /\ (\A i, j \in S : i = j) => Cardinality(S) <= 1
<1>1. Cardinality(S) \in Nat /\ (Cardinality(S) = 0 <=> S = {})
  BY FS_CardinalityType, FS_EmptySet
<1>2. ASSUME \A i, j \in S : i = j, S # {} PROVE Cardinality(S) = 1
  <2>1. \E i : S = {i}
    BY <1>2
  <2> QED
    BY <2>1, FS_Singleton
<1> QED
  BY <1>1, <1>2

\* At most one of them is in D, and at most one is not.
LEMMA TwiceIs ==
  ASSUME NEW S, NEW D, IsFiniteSet(S), \A i, j \in S : (i \in D <=> j \in D) => i = j
  PROVE  Cardinality(S) <= 2
<1>1. CASE \A i, j \in S : i = j
  BY <1>1, OnceIs
<1>2. CASE \E i, j \in S : i # j
  <2>1. PICK i \in S, j \in S : i # j
    BY <1>2
  <2>2. S = {i} \cup {j}
    BY <2>1
  <2>3. IsFiniteSet({i}) /\ Cardinality({i}) = 1
    BY FS_Singleton
  <2>4. Cardinality(S) = Cardinality({i}) + 1
    BY <2>1, <2>2, <2>3, FS_AddElement
  <2> QED
    BY <2>3, <2>4
<1> QED
  BY <1>1, <1>2

LEMMA TimesAre ==
  ASSUME NEW s \in Seq(Nat), NEW c
  PROVE  /\ IsFiniteSet({i \in DOMAIN s : s[i] = c})
         /\ Surfs!Times(s, c) = Cardinality({i \in DOMAIN s : s[i] = c})
         /\ {i \in DOMAIN s : s[i] = c} \subseteq 1..Len(s)
<1>1. Len(s) \in Nat /\ DOMAIN s = 1..Len(s)
  OBVIOUS
<1>2. IsFiniteSet(1..Len(s))
  BY <1>1, FS_Interval
<1>3. {i \in DOMAIN s : s[i] = c} \in SUBSET (1..Len(s))
  BY <1>1
<1> QED
  BY <1>2, <1>3, FS_Subset DEF Surfs!Times, Surfs!Cardinality, Cardinality

\* s is a stretch of past x.
Within(s, x, a, b) ==
  /\ s \in Seq(Nat) /\ a \in Nat /\ b \in Nat /\ b = a + Len(s) /\ Len(s) \in Nat
  /\ x.len \in Nat /\ x.at \in [Nat -> Nat]
  /\ \A i \in 1..Len(s) : a + i \in 1..x.len /\ s[i] = x.at[a + i]

LEMMA CutWithin ==
  ASSUME NEW x \in Past, NEW s, NEW a, NEW b, Cut(s, x.at, a, b), b <= x.len
  PROVE  Within(s, x, a, b)
<1>1. x.len \in Nat /\ x.at \in [Nat -> Nat]
  BY DEF Past
<1>2. s \in Seq(Nat) /\ a \in Nat /\ b \in Nat /\ b = a + Len(s)
  BY DEF Cut
<1>3. Len(s) \in Nat
  BY <1>2
<1>4. \A n, m \in Nat : a + n <= m => \A i \in 1..n : a + i \in 1..m
  BY <1>2
<1>5. \A i \in 1..Len(s) : a + i \in 1..x.len
  BY <1>1, <1>2, <1>3, <1>4
<1> QED
  BY <1>1, <1>2, <1>3, <1>5 DEF Cut, Within

\* Where a stretch of the past says c twice, one of the two was written there
\* and the other came from the other relay.
LEMMA CutOnce ==
  ASSUME NEW x \in Past, Ordered(x), NEW s, NEW a, NEW b, Cut(s, x.at, a, b), b <= x.len,
         NEW i \in 1..Len(s), NEW j \in 1..Len(s), s[i] = s[j], a + i \in x.own <=> a + j \in x.own
  PROVE  i = j
<1>0. Within(s, x, a, b)
  BY CutWithin
<1>1. a \in Nat /\ x.at \in [Nat -> Nat] /\ i \in Nat /\ j \in Nat
  <2>1. a \in Nat /\ x.at \in [Nat -> Nat]
    BY <1>0 DEF Within
  <2>2. i \in Nat /\ j \in Nat
    OBVIOUS
  <2> QED
    BY <2>1, <2>2
<1>2. a + i \in 1..x.len /\ a + j \in 1..x.len /\ a + i \in Nat /\ a + j \in Nat
  BY <1>0, <1>1 DEF Within
<1>3. x.at[a + i] = x.at[a + j] /\ x.at[a + i] \in Nat
  <2>1. s[i] = x.at[a + i] /\ s[j] = x.at[a + j]
    BY <1>0 DEF Within
  <2> QED
    BY <1>1, <1>2, <2>1
<1>4. ~(a + i < a + j) /\ ~(a + j < a + i)
  BY <1>2, <1>3 DEF Ordered
<1> QED
  BY <1>1, <1>4

LEMMA SaidAtMost ==
  ASSUME NEW x \in Past, Ordered(x), NEW s, NEW a, NEW b, Cut(s, x.at, a, b), b <= x.len, NEW c
  PROVE  /\ Surfs!Times(s, c) <= 2
         /\ x.own = {} \/ WasSent(x) = {} => Surfs!Times(s, c) <= 1
<1> DEFINE S == {i \in DOMAIN s : s[i] = c}
           D == {i \in 1..Len(s) : a + i \in x.own}
<1>1. s \in Seq(Nat) /\ a \in Nat /\ b = a + Len(s) /\ Len(s) \in Nat /\ x.len \in Nat
  BY DEF Cut, Past
<1>2. IsFiniteSet(S) /\ Surfs!Times(s, c) = Cardinality(S) /\ S \subseteq 1..Len(s)
  BY <1>1, TimesAre
<1>3. ASSUME NEW i \in S, NEW j \in S, i \in D <=> j \in D PROVE i = j
  <2>1. i \in 1..Len(s) /\ j \in 1..Len(s) /\ s[i] = s[j]
    BY <1>2
  <2>2. a + i \in x.own <=> a + j \in x.own
    BY <1>3, <2>1
  <2> QED
    BY <2>1, <2>2, CutOnce
<1>4. x.own = {} => D = {}
  OBVIOUS
<1>5. WasSent(x) = {} => D = 1..Len(s)
  <2>1. WasSent(x) = {} => 1..x.len \subseteq x.own
    BY DEF WasSent
  <2>2. \A i \in 1..Len(s) : a + i \in 1..x.len
    BY <1>1
  <2> QED
    BY <2>1, <2>2
<1> HIDE DEF S, D
<1>6. Cardinality(S) <= 2
  BY <1>2, <1>3, TwiceIs
<1>7. x.own = {} \/ WasSent(x) = {} => \A i, j \in S : i = j
  BY <1>2, <1>3, <1>4, <1>5
<1> QED
  BY <1>2, <1>6, <1>7, OnceIs

\* What is said from a on is said in what a stretch from a to the end says.
LEMMA SaidAfter ==
  ASSUME NEW x \in Past, Ordered(x), NEW s, NEW a, Cut(s, x.at, a, x.len), s # <<>>, NEW c,
         \E j \in 1..x.len : x.at[j] = c /\ (j \in x.own <=> a + 1 \in x.own) /\ s[1] <= c
  PROVE  Surfs!Times(s, c) > 0
<1>0. x.len \in Nat /\ x.len <= x.len
  BY DEF Past
<1>9. Within(s, x, a, x.len)
  BY <1>0, CutWithin
<1>1. s \in Seq(Nat) /\ a \in Nat /\ x.len = a + Len(s) /\ Len(s) \in Nat /\ x.len \in Nat /\ x.at \in [Nat -> Nat]
  BY <1>9 DEF Within
<1>2. 1 \in 1..Len(s)
  BY <1>1, EmptySeq
<1>3. s[1] = x.at[a + 1] /\ a + 1 \in 1..x.len
  BY <1>2, <1>9 DEF Within
<1>4. PICK j \in 1..x.len : x.at[j] = c /\ (j \in x.own <=> a + 1 \in x.own) /\ s[1] <= c
  OBVIOUS
<1>5. ~(j < a + 1)
  <2>1. j < a + 1 => x.at[j] < x.at[a + 1]
    BY <1>3, <1>4 DEF Ordered
  <2>2. x.at[j] \in Nat /\ x.at[a + 1] \in Nat
    <3>1. j \in Nat /\ a + 1 \in Nat
      BY <1>1, <1>4
    <3> QED
      BY <1>1, <3>1
  <2>3. x.at[a + 1] <= x.at[j]
    BY <1>3, <1>4
  <2>4. \A u, w \in Nat : w <= u => ~(u < w)
    OBVIOUS
  <2> QED
    BY <2>1, <2>2, <2>3, <2>4
<1>6. j - a \in 1..Len(s) /\ a + (j - a) = j
  <2>1. \A n \in Nat : \A i \in 1..(a + n) : ~(i < a + 1) => i - a \in 1..n /\ a + (i - a) = i
    BY <1>1
  <2> QED
    BY <1>1, <1>5, <2>1
<1>7. s[j - a] = c
  BY <1>4, <1>6 DEF Cut
<1>8. j - a \in {i \in DOMAIN s : s[i] = c}
  BY <1>1, <1>6, <1>7
<1> QED
  BY <1>1, <1>8, OnceIs, TimesAre

LEMMA EmptyLines ==
  ASSUME NEW v \in Surfs!Viewers, NEW x \in Past, NEW a, NEW k, SentFrom(v, x, a, k), OutTypes,
         Surfs!Watches(v)
  PROVE  Cut(shown[v], x.at, a, x.len) /\ a + Len(buffer[Surfs!At(v)]) <= x.len
<1>1. lines[v] = <<>> /\ v \in subscribed[Surfs!At(v)] /\ Len(<<>>) = 0
  BY DEF Surfs!Watches
<1> QED
  BY <1>1 DEF SentFrom

\* While the link holds and nothing is on its way, a relay that was told of c
\* in one of two ways was told of everything later in the same way.
LEMMA SaidAll ==
  ASSUME OutTypes, NEW p, p \in [Ends -> Past], InTurn(p), FromHome(p), NoneLost(p),
         ~broken, Surfs!OutQuiet, NEW r \in Ends, NEW i \in 1..p[r].len, Ordered(p[r]),
         NEW d \in 1..written, p[r].at[i] <= d
  PROVE  \E j \in 1..p[r].len : p[r].at[j] = d /\ (j \in p[r].own <=> i \in p[r].own)
<1>1. Carried(toHub) = {} /\ Carried(toLeaf) = {}
  BY NothingCarried DEF Surfs!OutQuiet
<1>2. p[r].own \subseteq 1..p[r].len
  BY DEF Ordered
<1>3. CASE i \in p[r].own
  <2>1. r = home
    BY <1>3 DEF FromHome
  <2>2. d \in Wrote(p[r])
    BY <2>1 DEF FromHome
  <2> QED
    BY <1>2, <1>3, <2>2 DEF Wrote
<1>4. CASE i \notin p[r].own
  <2>1. p[r].at[i] \in WasSent(p[r])
    BY <1>4 DEF WasSent
  <2>2. d \in WasSent(p[r])
    <3>1. CASE home = "leaf"
      <4>1. WentUp(p)
        BY <3>1 DEF NoneLost
      <4> QED
        BY <1>1, <4>1 DEF WentUp, Ends
    <3>2. CASE home = "hub"
      <4>1. CameDown(p) /\ r = "leaf"
        BY <2>1, <3>2 DEF NoneLost, FromHome, Ends
      <4> QED
        BY <1>1, <2>1, <4>1 DEF CameDown
    <3> QED
      BY <3>1, <3>2 DEF OutTypes, Ends
  <2> QED
    BY <1>4, <2>2 DEF WasSent
<1> QED
  BY <1>3, <1>4

LEMMA OutputInvArrives == OutputInv => Surfs!OutputArrives
<1> SUFFICES ASSUME OutputInv, NEW v \in Surfs!Viewers
    PROVE  /\ Surfs!Watches(v) => Surfs!IsSuffix(buffer[Surfs!At(v)], shown[v])
           /\ \A c \in 1..written : Surfs!Times(shown[v], c) <= (IF home = "leaf" /\ Surfs!At(v) = "leaf" THEN 2 ELSE 1)
           /\ Surfs!Watches(v) /\ Surfs!OutQuiet /\ ~broken /\ shown[v] # <<>> =>
                \A c \in (shown[v][1])..written : Surfs!Times(shown[v], c) > 0
  BY DEF Surfs!OutputArrives
<1>1. PICK p : PastOf(p)
  BY DEF OutputInv
<1>2. OutTypes
  BY DEF OutputInv
<1> DEFINE r == Surfs!At(v)
           x == p[r]
           s == shown[v]
<1>3. r \in Ends /\ p \in [Ends -> Past] /\ x \in Past /\ Ordered(x) /\ Kept(r, x) /\ Streamed(v, x)
  BY <1>1, AtIs DEF PastOf
<1>4. PICK a, k : SentFrom(v, x, a, k)
  BY <1>3 DEF Streamed
<1>5. x.len \in Nat /\ x.at \in [Nat -> Nat]
  BY <1>3 DEF Past
<1>6. Cut(s, x.at, a, k[0]) /\ k[0] <= x.len
  <2>1. Len(lines[v]) \in Nat
    BY <1>2 DEF OutTypes
  <2> QED
    BY <1>4, <2>1 DEF SentFrom
<1>7. ASSUME Surfs!Watches(v)
      PROVE  Cut(s, x.at, a, x.len) /\ a + Len(buffer[r]) <= x.len
  BY <1>2, <1>3, <1>4, <1>7, EmptyLines
<1>8. ASSUME Surfs!Watches(v) PROVE Surfs!IsSuffix(buffer[r], s)
  <2>1. Cut(buffer[r], x.at, x.len - Len(buffer[r]), x.len)
    BY <1>3 DEF Kept
  <2>2. a <= x.len - Len(buffer[r])
    <3>1. Len(buffer[r]) \in Nat /\ a \in Nat
      BY <1>2, <1>3, <1>6 DEF OutTypes, Cut
    <3>2. a + Len(buffer[r]) <= x.len
      BY <1>7, <1>8
    <3>3. \A u, w, z \in Nat : u + w <= z => u <= z - w
      OBVIOUS
    <3> QED
      BY <1>5, <3>1, <3>2, <3>3
  <2> QED
    BY <1>7, <1>8, <2>1, <2>2, CutIsSuffix
<1>9. ASSUME NEW c \in 1..written PROVE Surfs!Times(s, c) <= (IF home = "leaf" /\ r = "leaf" THEN 2 ELSE 1)
  <2>1. Surfs!Times(s, c) <= 2 /\ (x.own = {} \/ WasSent(x) = {} => Surfs!Times(s, c) <= 1)
    BY <1>3, <1>6, SaidAtMost
  <2>2. ~(home = "leaf" /\ r = "leaf") => x.own = {} \/ WasSent(x) = {}
    BY <1>1, <1>2, <1>3 DEF PastOf, FromHome, OutTypes, Ends
  <2> QED
    BY <2>1, <2>2
<1>10. ASSUME Surfs!Watches(v), Surfs!OutQuiet, ~broken, s # <<>>, NEW c \in (s[1])..written
       PROVE  Surfs!Times(s, c) > 0
  <2>1. Cut(s, x.at, a, x.len) /\ x.len <= x.len
    BY <1>5, <1>7, <1>10
  <2>2. Within(s, x, a, x.len)
    BY <1>3, <2>1, CutWithin
  <2>3. s \in Seq(Nat) /\ 1 \in 1..Len(s)
    BY <1>10, <2>2, EmptySeq DEF Within
  <2>4. s[1] = x.at[a + 1] /\ a + 1 \in 1..x.len
    BY <2>2, <2>3 DEF Within
  <2>5. x.at[a + 1] \in 1..written
    <3>1. CASE a + 1 \in x.own
      <4>1. x.at[a + 1] \in Wrote(x)
        BY <3>1 DEF Wrote
      <4>2. r = home
        BY <1>1, <1>3, <3>1 DEF PastOf, FromHome
      <4> QED
        BY <1>1, <4>1, <4>2 DEF PastOf, FromHome
    <3>2. CASE a + 1 \notin x.own
      <4>1. x.at[a + 1] \in WasSent(x)
        BY <2>4, <3>2 DEF WasSent
      <4> QED
        BY <1>1, <1>3, <4>1 DEF PastOf, FromHome
    <3> QED
      BY <3>1, <3>2
  <2>6. c \in 1..written /\ x.at[a + 1] <= c
    <3>1. written \in Nat
      BY <1>2 DEF OutTypes
    <3>2. \A u \in 1..written : \A w \in u..written : w \in 1..written /\ u <= w
      BY <3>1
    <3> QED
      BY <1>10, <2>4, <2>5, <3>2
  <2>7. InTurn(p) /\ FromHome(p) /\ NoneLost(p)
    BY <1>1 DEF PastOf
  <2>8. \E j \in 1..x.len : x.at[j] = c /\ (j \in x.own <=> a + 1 \in x.own)
    BY <1>2, <1>3, <1>10, <2>4, <2>6, <2>7, SaidAll
  <2>9. \E j \in 1..x.len : x.at[j] = c /\ (j \in x.own <=> a + 1 \in x.own) /\ s[1] <= c
    BY <2>4, <2>6, <2>8
  <2> HIDE DEF s, x
  <2> QED
    BY <1>3, <1>10, <2>1, <2>9, SaidAfter
<1> QED
  BY <1>8, <1>9, <1>10

-----------------------------------------------------------------------------
(* What a terminal was sent                                                *)
GoesOn(x, y) == x.len <= y.len /\ \A i \in 1..x.len : y.at[i] = x.at[i]

LEMMA MoreGoesOn ==
  ASSUME NEW x \in Past, NEW y, NEW c \in Nat, WroteMore(x, y, c) \/ HeardMore(x, y, c), Ordered(x)
  PROVE  GoesOn(x, y) /\ y.len = x.len + 1 /\ y.at[y.len] = c
<1>1. x.len \in Nat
  BY DEF Past
<1> QED
  BY <1>1, MoreIs DEF GoesOn

LEMMA CutGoesOn ==
  ASSUME NEW x \in Past, NEW y \in Past, GoesOn(x, y), NEW s, NEW a, NEW b, Cut(s, x.at, a, b), b <= x.len
  PROVE  Cut(s, y.at, a, b) /\ b <= y.len
<1>1. x.len \in Nat /\ y.len \in Nat /\ b \in Nat /\ x.len <= y.len
  BY DEF Past, Cut, GoesOn
<1>2. \A i \in 1..b : i \in 1..x.len
  BY <1>1
<1>3. \A i \in 1..b : y.at[i] = x.at[i]
  BY <1>2 DEF GoesOn
<1> QED
  BY <1>1, <1>3, CutStays

\* Nothing new is sent to v.
LEMMA StreamStays ==
  ASSUME OutTypes, NEW v \in Surfs!Viewers, NEW x \in Past, NEW y \in Past, GoesOn(x, y),
         Streamed(v, x), shown'[v] = shown[v], lines'[v] = lines[v],
         v \in subscribed'[Surfs!At(v)] =>
           v \in subscribed[Surfs!At(v)] /\ y = x /\ buffer'[Surfs!At(v)] = buffer[Surfs!At(v)]
  PROVE  Streamed(v, y)'
<1>1. PICK a, k : SentFrom(v, x, a, k)
  BY DEF Streamed
<1>2. Len(lines[v]) \in Nat
  BY DEF OutTypes
<1>3. /\ a \in Nat /\ k \in [Nat -> Nat] /\ Cut(shown[v], x.at, a, k[0])
      /\ \A i \in 0..Len(lines[v]) : k[i] <= x.len
      /\ \A i \in 1..Len(lines[v]) : Cut(lines[v][i].chunks, x.at, k[i - 1], k[i])
  BY <1>1 DEF SentFrom
<1>4. 0 \in 0..Len(lines[v]) /\ \A i \in 1..Len(lines[v]) : i \in 0..Len(lines[v])
  BY <1>2
<1>5. Cut(shown[v], y.at, a, k[0])
  BY <1>3, <1>4, CutGoesOn
<1>6. ASSUME NEW i \in 1..Len(lines[v]) PROVE Cut(lines[v][i].chunks, y.at, k[i - 1], k[i])
  <2>1. Cut(lines[v][i].chunks, x.at, k[i - 1], k[i]) /\ k[i] <= x.len
    BY <1>3, <1>4
  <2> QED
    BY <2>1, CutGoesOn
<1>7. ASSUME NEW i \in 0..Len(lines[v]) PROVE k[i] <= y.len
  <2>1. x.len \in Nat /\ y.len \in Nat /\ x.len <= y.len
    BY DEF Past, GoesOn
  <2>2. i \in Nat
    BY <1>2
  <2>3. k[i] \in Nat /\ k[i] <= x.len
    BY <1>3, <2>2
  <2> QED
    BY <2>1, <2>3
<1>8. SentFrom(v, y, a, k)'
  BY <1>1, <1>3, <1>5, <1>6, <1>7 DEF SentFrom, Surfs!At
<1> QED
  BY <1>8 DEF Streamed

\* What is sent to v is what the relay sends.
LEMMA StreamMore ==
  ASSUME OutTypes, NEW v \in Surfs!Viewers, NEW x \in Past, NEW y \in Past, NEW c \in Nat,
         GoesOn(x, y), y.len = x.len + 1, y.at[y.len] = c,
         Streamed(v, x), v \in subscribed[Surfs!At(v)],
         shown'[v] = shown[v], lines'[v] = Append(lines[v], Surfs!Lines(<<c>>)),
         Len(buffer[Surfs!At(v)]) \in Nat, Len(buffer'[Surfs!At(v)]) \in Nat,
         Len(buffer'[Surfs!At(v)]) <= Len(buffer[Surfs!At(v)]) + 1
  PROVE  Streamed(v, y)'
<1>1. PICK a, k : SentFrom(v, x, a, k)
  BY DEF Streamed
<1> DEFINE n == Len(lines[v])
<1>0. PICK g : g = [k EXCEPT ![n + 1] = y.len]
  OBVIOUS
<1>2. n \in Nat /\ x.len \in Nat /\ y.len \in Nat /\ n + 1 \in Nat
  <2>1. lines[v] \in Seq([type : {"lines"}, chunks : Seq(Nat)])
    BY DEF OutTypes
  <2>2. x.len \in Nat /\ y.len \in Nat
    BY DEF Past
  <2>3. n \in Nat
    BY <2>1
  <2> QED
    BY <2>2, <2>3
<1>3. /\ a \in Nat /\ k \in [Nat -> Nat] /\ Cut(shown[v], x.at, a, k[0])
      /\ \A i \in 0..n : k[i] <= x.len
      /\ \A i \in 1..n : Cut(lines[v][i].chunks, x.at, k[i - 1], k[i])
      /\ k[n] = x.len /\ a + Len(buffer[Surfs!At(v)]) <= x.len
  BY <1>1 DEF SentFrom
<1>4. g \in [Nat -> Nat] /\ g[n + 1] = y.len /\ \A i \in 0..n : g[i] = k[i]
  <2>1. \A i \in 0..n : i \in Nat /\ i # n + 1
    BY <1>2
  <2> QED
    BY <1>0, <1>2, <1>3, <2>1
<1>5. /\ Len(lines'[v]) = n + 1 /\ lines'[v][n + 1] = Surfs!Lines(<<c>>)
      /\ \A i \in 1..n : lines'[v][i] = lines[v][i]
  <2>1. lines[v] \in Seq([type : {"lines"}, chunks : Seq(Nat)])
    BY DEF OutTypes
  <2>2. Surfs!Lines(<<c>>) \in [type : {"lines"}, chunks : Seq(Nat)]
    BY DEF Surfs!Lines
  <2> QED
    BY <2>1, <2>2
<1> HIDE DEF n
<1>6. Cut(shown[v], y.at, a, g[0])
  <2>1. 0 \in 0..n
    BY <1>2
  <2> QED
    BY <1>3, <1>4, <2>1, CutGoesOn
<1>7. ASSUME NEW i \in 1..n PROVE Cut(lines'[v][i].chunks, y.at, g[i - 1], g[i])
  <2>1. i \in 0..n /\ i - 1 \in 0..n
    BY <1>2
  <2>2. Cut(lines[v][i].chunks, x.at, k[i - 1], k[i]) /\ k[i] <= x.len
    BY <1>3, <2>1
  <2>3. Cut(lines[v][i].chunks, y.at, k[i - 1], k[i])
    <3>1. PICK t, d, e : t = lines[v][i].chunks /\ d = k[i - 1] /\ e = k[i]
      OBVIOUS
    <3>2. Cut(t, x.at, d, e) /\ e <= x.len
      BY <2>2, <3>1
    <3>3. Cut(t, y.at, d, e)
      BY <3>2, CutGoesOn
    <3> QED
      BY <3>1, <3>3
  <2> QED
    BY <1>4, <1>5, <2>1, <2>3
<1>8. Cut(lines'[v][n + 1].chunks, y.at, g[n], g[n + 1])
  <2>1. n \in 0..n /\ g[n] = x.len
    <3>1. n \in 0..n /\ k[n] = x.len
      BY <1>2, <1>3
    <3> QED
      BY <1>4, <3>1
  <2>2. Cut(<<>>, y.at, x.len, x.len) /\ y.at[x.len + 1] = c
    BY <1>2, CutEmpty
  <2>3. Cut(Append(<<>>, c), y.at, x.len, x.len + 1)
    BY <2>2, CutAdded
  <2>4. Surfs!Lines(<<c>>).chunks = <<c>> /\ Append(<<>>, c) = <<c>>
    BY DEF Surfs!Lines
  <2> QED
    BY <1>4, <1>5, <2>1, <2>3, <2>4
<1>9. ASSUME NEW i \in 1..(n + 1) PROVE Cut(lines'[v][i].chunks, y.at, g[i - 1], g[i])
  <2>1. i \in 1..n \/ (i = n + 1 /\ i - 1 = n)
    BY <1>2
  <2> QED
    BY <1>7, <1>8, <2>1
<1>10. ASSUME NEW i \in 0..(n + 1) PROVE g[i] <= y.len
  <2>1. CASE i = n + 1
    BY <1>2, <1>4, <2>1
  <2>2. CASE i # n + 1
    <3>1. i \in 0..n /\ i \in Nat
      BY <1>2, <2>2
    <3>2. k[i] \in Nat /\ k[i] <= x.len /\ g[i] = k[i]
      BY <1>3, <1>4, <3>1
    <3> QED
      BY <1>2, <3>2
  <2> QED
    BY <2>1, <2>2
<1>11. a + Len(buffer'[Surfs!At(v)]) <= y.len
  <2>1. \A u, w, z, m \in Nat : u + w <= m /\ z <= w + 1 => u + z <= m + 1
    OBVIOUS
  <2> QED
    BY <1>2, <1>3, <2>1
<1>12. SentFrom(v, y, a, g)'
  BY <1>3, <1>4, <1>5, <1>6, <1>9, <1>10, <1>11 DEF SentFrom, Surfs!At
<1> QED
  BY <1>12 DEF Streamed

\* v is sent what its relay keeps.
LEMMA StreamJoined ==
  ASSUME OutTypes, NEW v \in Surfs!Viewers, NEW x \in Past, Kept(Surfs!At(v), x),
         shown[v] = <<>>, shown'[v] = <<>>, buffer' = buffer,
         lines'[v] = IF buffer[Surfs!At(v)] # <<>> THEN <<Surfs!Lines(buffer[Surfs!At(v)])>> ELSE <<>>
  PROVE  Streamed(v, x)'
<1> DEFINE r == Surfs!At(v)
<1>1. PICK b : b = buffer[r]
  OBVIOUS
<1>2. PICK a : a = x.len - Len(b)
  OBVIOUS
<1>3. PICK k : k = [i \in Nat |-> IF i = 0 THEN a ELSE x.len]
  OBVIOUS
<1>4. Cut(b, x.at, a, x.len)
  BY <1>1, <1>2 DEF Kept
<1>5. a \in Nat /\ x.len \in Nat /\ Len(b) \in Nat /\ x.len = a + Len(b) /\ b \in Seq(Nat)
  BY <1>4 DEF Cut
<1>6. k \in [Nat -> Nat] /\ k[0] = a /\ k[1] = x.len
  BY <1>3, <1>5
<1>7. Cut(shown'[v], x.at, a, k[0])
  BY <1>5, <1>6, CutEmpty
<1>8. a + Len(buffer'[r]) <= x.len
  BY <1>1, <1>5
<1>9. CASE b = <<>>
  <2>1. Len(b) = 0 /\ lines'[v] = <<>> /\ Len(lines'[v]) = 0
    BY <1>1, <1>9
  <2>2. k[0] = x.len
    BY <1>5, <1>6, <2>1
  <2>3. SentFrom(v, x, a, k)'
    BY <1>5, <1>6, <1>7, <1>8, <2>1, <2>2 DEF SentFrom, Surfs!At
  <2> QED
    BY <2>3 DEF Streamed
<1>10. CASE b # <<>>
  <2>1. lines'[v] = <<Surfs!Lines(b)>>
    BY <1>1, <1>10
  <2>2. Len(lines'[v]) = 1 /\ lines'[v][1].chunks = b
    BY <2>1 DEF Surfs!Lines
  <2>3. \A i \in 0..Len(lines'[v]) : i = 0 \/ i = 1
    BY <2>2
  <2>4. \A i \in 0..Len(lines'[v]) : k[i] <= x.len
    <3>1. a <= x.len /\ x.len <= x.len
      BY <1>5
    <3> QED
      BY <1>6, <2>3, <3>1
  <2>5. \A i \in 1..Len(lines'[v]) : i = 1
    BY <2>2
  <2>6. Cut(lines'[v][1].chunks, x.at, k[1 - 1], k[1])
    BY <1>4, <1>6, <2>2
  <2>7. SentFrom(v, x, a, k)'
    BY <1>5, <1>6, <1>7, <1>8, <2>2, <2>4, <2>5, <2>6 DEF SentFrom, Surfs!At
  <2> QED
    BY <2>7 DEF Streamed
<1> QED
  BY <1>9, <1>10

\* v shows the first of what is on its way.
LEMMA StreamShown ==
  ASSUME OutTypes, NEW v \in Surfs!Viewers, NEW x \in Past, Streamed(v, x), lines[v] # <<>>,
         shown'[v] = shown[v] \o Head(lines[v]).chunks, lines'[v] = Tail(lines[v]),
         subscribed' = subscribed, buffer' = buffer
  PROVE  Streamed(v, x)'
<1>1. PICK a, k : SentFrom(v, x, a, k)
  BY DEF Streamed
<1>2. PICK g : g = [i \in Nat |-> k[i + 1]]
  OBVIOUS
<1> DEFINE n == Len(lines[v])
           S == [type : {"lines"}, chunks : Seq(Nat)]
<1>3. /\ n \in Nat \ {0} /\ Len(lines'[v]) = n - 1 /\ Head(lines[v]) = lines[v][1]
      /\ \A i \in 1..(n - 1) : lines'[v][i] = lines[v][i + 1]
  <2>1. lines[v] \in Seq(S) /\ n \in Nat
    BY DEF OutTypes
  <2>2. n # 0 /\ Len(Tail(lines[v])) = n - 1 /\ Head(lines[v]) = lines[v][1]
    BY <2>1, EmptySeq, HeadTailProperties
  <2>3. \A i \in 1..(n - 1) : Tail(lines[v])[i] = lines[v][i + 1]
    BY <2>1, <2>2, HeadTailProperties
  <2> QED
    BY <2>1, <2>2, <2>3
<1>4. /\ a \in Nat /\ k \in [Nat -> Nat] /\ Cut(shown[v], x.at, a, k[0])
      /\ \A i \in 0..n : k[i] <= x.len
      /\ \A i \in 1..n : Cut(lines[v][i].chunks, x.at, k[i - 1], k[i])
  BY <1>1 DEF SentFrom
<1> HIDE DEF n
<1>5. g \in [Nat -> Nat] /\ \A i \in Nat : g[i] = k[i + 1]
  <2>1. \A i \in Nat : i + 1 \in Nat
    OBVIOUS
  <2>2. \A i \in Nat : k[i + 1] \in Nat
    BY <1>4, <2>1
  <2> QED
    BY <1>2, <2>2
<1>6. Cut(shown'[v], x.at, a, g[0])
  <2>1. 1 \in 1..n /\ 1 - 1 = 0 /\ 0 + 1 = 1
    BY <1>3
  <2>2. Cut(lines[v][1].chunks, x.at, k[1 - 1], k[1])
    BY <1>4, <2>1
  <2>3. Cut(lines[v][1].chunks, x.at, k[0], k[1])
    BY <2>1, <2>2
  <2>4. g[0] = k[1]
    BY <1>5, <2>1
  <2>5. Cut(shown[v] \o lines[v][1].chunks, x.at, a, k[1])
    BY <1>4, <2>3, CutJoined
  <2> QED
    BY <1>3, <2>4, <2>5
<1>7. ASSUME NEW i \in 0..(n - 1) PROVE g[i] <= x.len
  <2>1. i + 1 \in 0..n /\ i \in Nat
    BY <1>3
  <2> QED
    BY <1>4, <1>5, <2>1
<1>8. ASSUME NEW i \in 1..(n - 1) PROVE Cut(lines'[v][i].chunks, x.at, g[i - 1], g[i])
  <2>1. i + 1 \in 1..n /\ i \in Nat /\ i - 1 \in Nat /\ (i - 1) + 1 = i /\ (i + 1) - 1 = i
    BY <1>3
  <2>2. Cut(lines[v][i + 1].chunks, x.at, k[(i + 1) - 1], k[i + 1])
    BY <1>4, <2>1
  <2>3. g[i - 1] = k[i] /\ g[i] = k[i + 1]
    <3>1. g[i - 1] = k[(i - 1) + 1] /\ g[i] = k[i + 1]
      BY <1>5, <2>1
    <3> QED
      BY <2>1, <3>1
  <2> QED
    BY <1>3, <2>1, <2>2, <2>3
<1>9. g[n - 1] = k[n]
  <2>1. n - 1 \in Nat /\ (n - 1) + 1 = n
    BY <1>3
  <2>2. g[n - 1] = k[(n - 1) + 1]
    BY <1>5, <2>1
  <2> QED
    BY <2>1, <2>2
<1>10. v \in subscribed'[Surfs!At(v)] => g[n - 1] = x.len /\ a + Len(buffer'[Surfs!At(v)]) <= x.len
  BY <1>1, <1>9 DEF SentFrom, n
<1>11. SentFrom(v, x, a, g)'
  BY <1>3, <1>4, <1>5, <1>6, <1>7, <1>8, <1>10 DEF SentFrom, Surfs!At
<1> QED
  BY <1>11 DEF Streamed

\* What is on its way to v is lost, and it gets no more.
LEMMA StreamCut ==
  ASSUME OutTypes, NEW v \in Surfs!Viewers, NEW x \in Past, Streamed(v, x),
         shown'[v] = shown[v] \/ shown'[v] = <<>>, lines'[v] = <<>>, v \notin subscribed'[Surfs!At(v)]
  PROVE  Streamed(v, x)'
<1>1. PICK a, k : SentFrom(v, x, a, k)
  BY DEF Streamed
<1>2. Len(lines[v]) \in Nat /\ Len(lines'[v]) = 0 /\ x.len \in Nat
  BY DEF OutTypes, Past
<1>3. /\ a \in Nat /\ k \in [Nat -> Nat] /\ Cut(shown[v], x.at, a, k[0])
      /\ k[0] <= x.len
  <2>1. /\ a \in Nat /\ k \in [Nat -> Nat] /\ Cut(shown[v], x.at, a, k[0])
        /\ \A i \in 0..Len(lines[v]) : k[i] <= x.len
    BY <1>1, Zenon DEF SentFrom
  <2>2. 0 \in 0..Len(lines[v])
    BY <1>2
  <2> QED
    BY <2>1, <2>2, Zenon
<1>4. CASE shown'[v] = shown[v]
  <2>1. \A i \in 0..Len(lines'[v]) : i = 0
    BY <1>2
  <2>2. 1..Len(lines'[v]) = {}
    BY <1>2
  <2>3. SentFrom(v, x, a, k)'
    BY <1>3, <1>4, <2>1, <2>2 DEF SentFrom, Surfs!At
  <2> QED
    BY <2>3 DEF Streamed
<1>5. CASE shown'[v] = <<>>
  <2>1. PICK g : g = [i \in Nat |-> 0]
    OBVIOUS
  <2>2. g \in [Nat -> Nat] /\ g[0] = 0 /\ Cut(<<>>, x.at, 0, 0)
    BY <2>1, CutEmpty
  <2>3. Cut(shown'[v], x.at, 0, g[0])
    BY <1>5, <2>2, Zenon
  <2>4. 1..Len(lines'[v]) = {} /\ \A i \in 0..Len(lines'[v]) : i = 0
    BY <1>2
  <2>5. 0 \in Nat /\ g[0] <= x.len
    BY <1>2, <2>2
  <2>6. SentFrom(v, x, 0, g)'
    BY <2>2, <2>3, <2>4, <2>5 DEF SentFrom, Surfs!At
  <2> QED
    BY <2>6 DEF Streamed
<1> QED
  BY <1>4, <1>5

\* A relay keeps what it sends.
LEMMA KeptMore ==
  ASSUME OutTypes, NEW r \in Ends, NEW x \in Past, NEW y \in Past, NEW c \in Nat,
         GoesOn(x, y), y.len = x.len + 1, y.at[y.len] = c,
         Kept(r, x), buffer'[r] = Surfs!Trimmed(Append(buffer[r], c))
  PROVE  /\ Kept(r, y)' /\ buffer'[r] \in Seq(Nat) /\ Len(buffer[r]) \in Nat /\ Len(buffer'[r]) \in Nat
         /\ Len(buffer'[r]) <= Len(buffer[r]) + 1
<1> DEFINE s == Append(buffer[r], c)
<1>1. PICK a : a = x.len - Len(buffer[r])
  OBVIOUS
<1>2. Cut(buffer[r], x.at, a, x.len)
  BY <1>1 DEF Kept
<1>3. x.len \in Nat /\ y.len \in Nat /\ x.len <= x.len /\ a \in Nat /\ buffer[r] \in Seq(Nat) /\ Len(buffer[r]) \in Nat
  <2>1. x.len \in Nat /\ y.len \in Nat
    BY DEF Past
  <2>2. a \in Nat /\ buffer[r] \in Seq(Nat)
    BY <1>2 DEF Cut
  <2> QED
    BY <2>1, <2>2
<1>4. Cut(buffer[r], y.at, a, x.len)
  BY <1>2, <1>3, CutGoesOn
<1>5. Cut(s, y.at, a, y.len)
  BY <1>4, CutAdded
<1>6. s \in Seq(Nat) /\ Len(s) = Len(buffer[r]) + 1 /\ s # <<>>
  BY <1>3
<1>7. Cut(Tail(s), y.at, a + 1, y.len)
  BY <1>5, <1>6, CutTail
<1>8. buffer'[r] = s \/ buffer'[r] = Tail(s)
  BY DEF Surfs!Trimmed
<1>9. Tail(s) \in Seq(Nat) /\ Len(Tail(s)) = Len(s) - 1
  BY <1>6, HeadTailProperties
<1> HIDE DEF s
<1>10. Len(buffer'[r]) \in Nat /\ Len(buffer'[r]) <= Len(buffer[r]) + 1 /\ buffer'[r] \in Seq(Nat)
  <2>1. CASE buffer'[r] = s
    BY <1>3, <1>6, <2>1
  <2>2. CASE buffer'[r] = Tail(s)
    BY <1>3, <1>6, <1>9, <2>2
  <2> QED
    BY <1>8, <2>1, <2>2
<1>11. \E d : Cut(buffer'[r], y.at, d, y.len)
  BY <1>5, <1>7, <1>8
<1>12. Kept(r, y)'
  <2>1. PICK d : Cut(buffer'[r], y.at, d, y.len)
    BY <1>11
  <2>2. d = y.len - Len(buffer'[r])
    <3>1. d \in Nat /\ y.len = d + Len(buffer'[r])
      BY <2>1 DEF Cut
    <3> QED
      BY <1>3, <1>10, <3>1
  <2> QED
    BY <2>1, <2>2 DEF Kept
<1> QED
  BY <1>3, <1>10, <1>12

-----------------------------------------------------------------------------
(* What a relay sends, and who joins                                       *)
LEMMA PastGrows ==
  ASSUME NEW p \in [Ends -> Past], NEW r \in Ends, NEW c \in Nat
  PROVE  /\ \E q \in [Ends -> Past] :
              WroteMore(p[r], q[r], c) /\ \A o \in Ends : o # r => q[o] = p[o]
         /\ \E q \in [Ends -> Past] :
              HeardMore(p[r], q[r], c) /\ \A o \in Ends : o # r => q[o] = p[o]
<1> DEFINE x == p[r]
           Y(o) == [len |-> x.len + 1, at |-> [x.at EXCEPT ![x.len + 1] = c], own |-> o]
           Q(o) == [p EXCEPT ![r] = Y(o)]
<1>1. x \in Past /\ x.len \in Nat /\ x.at \in [Nat -> Nat] /\ x.own \in SUBSET Nat /\ x.len + 1 \in Nat
  BY DEF Past
<1>2. [x.at EXCEPT ![x.len + 1] = c] \in [Nat -> Nat] /\ x.own \cup {x.len + 1} \in SUBSET Nat
  BY <1>1
<1>3. Y(x.own) \in Past /\ Y(x.own \cup {x.len + 1}) \in Past
  BY <1>1, <1>2 DEF Past
<1>4. WroteMore(x, Y(x.own \cup {x.len + 1}), c) /\ HeardMore(x, Y(x.own), c)
  BY DEF WroteMore, HeardMore
<1> HIDE DEF Y
<1>5. \A o : Y(o) \in Past => Q(o) \in [Ends -> Past] /\ Q(o)[r] = Y(o) /\ \A e \in Ends : e # r => Q(o)[e] = p[e]
  OBVIOUS
<1> HIDE DEF Q
<1> QED
  BY <1>3, <1>4, <1>5

\* Relay r sends c.
LEMMA EmitStreams ==
  ASSUME OutTypes, NEW p, PastOf(p), NEW q \in [Ends -> Past], NEW r \in Ends, NEW c \in Nat,
         \A v \in Surfs!Viewers : Attends(v),
         WroteMore(p[r], q[r], c) \/ HeardMore(p[r], q[r], c), \A o \in Ends : o # r => q[o] = p[o],
         Surfs!Emit(r, c), subscribed' = subscribed, shown' = shown
  PROVE  /\ \A e \in Ends : Kept(e, q[e])'
         /\ \A v \in Surfs!Viewers : Streamed(v, q[Surfs!At(v)])'
         /\ buffer' \in [Ends -> Seq(Nat)]
         /\ lines' \in [Surfs!Viewers -> Seq([type : {"lines"}, chunks : Seq(Nat)])]
         /\ \A v \in Surfs!Viewers : v \notin subscribed[Surfs!At(v)] => lines'[v] = lines[v]
<1>1. p \in [Ends -> Past] /\ \A e \in Ends : p[e] \in Past /\ q[e] \in Past /\ Ordered(p[e]) /\ Kept(e, p[e])
  BY DEF PastOf
<1>2. GoesOn(p[r], q[r]) /\ q[r].len = p[r].len + 1 /\ q[r].at[q[r].len] = c
  BY <1>1, MoreGoesOn
<1>3. buffer' = [buffer EXCEPT ![r] = Surfs!Trimmed(Append(@, c))] /\ buffer \in [Ends -> Seq(Nat)]
  BY DEF Surfs!Emit, Surfs!Keep, OutTypes
<1>4. buffer'[r] = Surfs!Trimmed(Append(buffer[r], c)) /\ \A e \in Ends : e # r => buffer'[e] = buffer[e]
  BY <1>3
<1>5. /\ Kept(r, q[r])' /\ buffer'[r] \in Seq(Nat) /\ Len(buffer[r]) \in Nat /\ Len(buffer'[r]) \in Nat
      /\ Len(buffer'[r]) <= Len(buffer[r]) + 1
  BY <1>1, <1>2, <1>4, KeptMore
<1>6. ASSUME NEW e \in Ends PROVE Kept(e, q[e])'
  <2>1. CASE e = r
    BY <1>5, <2>1
  <2>2. CASE e # r
    <3>1. q[e] = p[e] /\ buffer'[e] = buffer[e] /\ Kept(e, p[e])
      BY <1>1, <1>4, <2>2
    <3> QED
      BY <3>1 DEF Kept
  <2> QED
    BY <2>1, <2>2
<1>7. buffer' \in [Ends -> Seq(Nat)]
  <2>1. buffer' \in [Ends -> Seq(Nat) \cup {buffer'[r]}]
    BY <1>3, <1>4
  <2> QED
    BY <1>5, <2>1
<1>8. ASSUME NEW v \in Surfs!Viewers
      PROVE  lines'[v] = IF v \in subscribed[r] THEN Append(lines[v], Surfs!Lines(<<c>>)) ELSE lines[v]
  BY DEF Surfs!Emit
<1>9. lines' \in [Surfs!Viewers -> Seq([type : {"lines"}, chunks : Seq(Nat)])]
  <2> DEFINE S == [type : {"lines"}, chunks : Seq(Nat)]
  <2>1. Surfs!Lines(<<c>>) \in S
    BY DEF Surfs!Lines
  <2>2. \A v \in Surfs!Viewers : lines[v] \in Seq(S)
    BY DEF OutTypes
  <2> HIDE DEF S
  <2>3. \A v \in Surfs!Viewers : Append(lines[v], Surfs!Lines(<<c>>)) \in Seq(S)
    BY <2>1, <2>2
  <2>4. lines' = [v \in Surfs!Viewers |-> IF v \in subscribed[r] THEN Append(lines[v], Surfs!Lines(<<c>>)) ELSE lines[v]]
    BY DEF Surfs!Emit
  <2>5. lines' \in [Surfs!Viewers -> Seq(S)]
    BY <2>2, <2>3, <2>4
  <2> QED
    BY <2>5 DEF S
<1>10. ASSUME NEW v \in Surfs!Viewers, v \notin subscribed[Surfs!At(v)] PROVE v \notin subscribed[r]
  BY <1>10 DEF Attends
<1>11. ASSUME NEW v \in Surfs!Viewers PROVE Streamed(v, q[Surfs!At(v)])'
  <2>1. Surfs!At(v) \in Ends /\ Streamed(v, p[Surfs!At(v)])
    BY AtIs DEF PastOf
  <2>2. shown'[v] = shown[v] /\ subscribed'[Surfs!At(v)] = subscribed[Surfs!At(v)]
    OBVIOUS
  <2>3. CASE v \in subscribed[r]
    <3>1. Surfs!At(v) = r
      BY <2>3 DEF Attends
    <3>2. lines'[v] = Append(lines[v], Surfs!Lines(<<c>>))
      BY <1>8, <2>3
    <3>3. Streamed(v, p[r])
      BY <2>1, <3>1
    <3>4. Streamed(v, q[r])'
      BY <1>1, <1>2, <1>5, <2>2, <2>3, <3>1, <3>2, <3>3, StreamMore
    <3> QED
      BY <3>1, <3>4
  <2>4. CASE v \notin subscribed[r]
    <3>1. lines'[v] = lines[v]
      BY <1>8, <2>4
    <3>2. PICK e \in Ends : e = Surfs!At(v)
      BY <2>1
    <3>3. GoesOn(p[e], q[e])
      <4>1. CASE e = r
        BY <1>2, <4>1
      <4>2. CASE e # r
        <5>1. q[e] = p[e] /\ p[e].len \in Nat
          BY <1>1, <4>2 DEF Past
        <5> QED
          BY <5>1 DEF GoesOn
      <4> QED
        BY <4>1, <4>2
    <3>4. v \in subscribed'[e] => v \in subscribed[e] /\ q[e] = p[e] /\ buffer'[e] = buffer[e]
      BY <1>4, <2>4
    <3>5. Streamed(v, q[e])'
      BY <1>1, <2>1, <2>2, <3>1, <3>2, <3>3, <3>4, StreamStays
    <3> QED
      BY <3>2, <3>5
  <2> QED
    BY <2>3, <2>4
<1> QED
  BY <1>6, <1>7, <1>8, <1>9, <1>10, <1>11

\* vs join at r, and have been sent nothing.
LEMMA JoinStreams ==
  ASSUME OutTypes, NEW p, PastOf(p), NEW r \in Ends, NEW vs, vs \subseteq Surfs!Viewers \cup {"leaf"},
         \A v \in vs : v \in Surfs!Viewers => Surfs!At(v) = r /\ shown[v] = <<>> /\ lines[v] = <<>>,
         Surfs!Join(r, vs), shown' = shown, buffer' = buffer
  PROVE  /\ \A v \in Surfs!Viewers : Streamed(v, p[Surfs!At(v)])'
         /\ subscribed' \in [Ends -> SUBSET (Surfs!Viewers \cup {"leaf"})]
         /\ lines' \in [Surfs!Viewers -> Seq([type : {"lines"}, chunks : Seq(Nat)])]
         /\ \A v \in Surfs!Viewers : v \notin vs => lines'[v] = lines[v]
         /\ subscribed'[r] = subscribed[r] \cup vs /\ \A e \in Ends : e # r => subscribed'[e] = subscribed[e]
<1>1. p \in [Ends -> Past] /\ \A e \in Ends : p[e] \in Past /\ Kept(e, p[e])
  BY DEF PastOf
<1>2. subscribed' = [subscribed EXCEPT ![r] = @ \cup vs]
  BY DEF Surfs!Join
<1>3. subscribed \in [Ends -> SUBSET (Surfs!Viewers \cup {"leaf"})]
  BY DEF OutTypes
<1>4. subscribed'[r] = subscribed[r] \cup vs /\ \A e \in Ends : e # r => subscribed'[e] = subscribed[e]
  BY <1>2, <1>3
<1>5. subscribed' \in [Ends -> SUBSET (Surfs!Viewers \cup {"leaf"})]
  BY <1>2, <1>3
<1>6. lines' = [v \in Surfs!Viewers |-> IF v \in vs /\ buffer[r] # <<>> THEN Append(lines[v], Surfs!Lines(buffer[r]))
                                        ELSE lines[v]]
  BY DEF Surfs!Join
<1>7. \A v \in Surfs!Viewers : v \notin vs => lines'[v] = lines[v]
  BY <1>6
<1>8. lines' \in [Surfs!Viewers -> Seq([type : {"lines"}, chunks : Seq(Nat)])]
  <2> DEFINE S == [type : {"lines"}, chunks : Seq(Nat)]
  <2>1. Surfs!Lines(buffer[r]) \in S
    BY DEF Surfs!Lines, OutTypes
  <2>2. \A v \in Surfs!Viewers : lines[v] \in Seq(S)
    BY DEF OutTypes
  <2> HIDE DEF S
  <2>3. \A v \in Surfs!Viewers : Append(lines[v], Surfs!Lines(buffer[r])) \in Seq(S)
    BY <2>1, <2>2
  <2>4. lines' \in [Surfs!Viewers -> Seq(S)]
    BY <1>6, <2>2, <2>3
  <2> QED
    BY <2>4 DEF S
<1>9. ASSUME NEW v \in Surfs!Viewers PROVE Streamed(v, p[Surfs!At(v)])'
  <2>1. PICK e \in Ends : e = Surfs!At(v)
    BY AtIs
  <2>2. Streamed(v, p[e]) /\ shown'[v] = shown[v] /\ p[e] \in Past
    BY <1>1, <2>1 DEF PastOf
  <2>3. CASE v \in vs
    <3>1. e = r /\ shown[v] = <<>> /\ lines[v] = <<>>
      BY <2>1, <2>3
    <3>2. lines'[v] = IF buffer[r] # <<>> THEN Append(<<>>, Surfs!Lines(buffer[r])) ELSE <<>>
      BY <1>6, <2>3, <3>1
    <3>3. Append(<<>>, Surfs!Lines(buffer[r])) = <<Surfs!Lines(buffer[r])>>
      OBVIOUS
    <3>4. Streamed(v, p[e])'
      BY <1>1, <2>1, <2>2, <3>1, <3>2, <3>3, StreamJoined
    <3> QED
      BY <2>1, <3>4
  <2>4. CASE v \notin vs
    <3>1. lines'[v] = lines[v]
      BY <1>7, <2>4
    <3>2. v \in subscribed'[e] => v \in subscribed[e]
      BY <1>4, <2>4
    <3>3. GoesOn(p[e], p[e])
      BY <2>2 DEF GoesOn, Past
    <3>4. Streamed(v, p[e])'
      BY <2>1, <2>2, <3>1, <3>2, <3>3, StreamStays
    <3> QED
      BY <2>1, <3>4
  <2> QED
    BY <2>3, <2>4
<1> QED
  BY <1>4, <1>5, <1>7, <1>8, <1>9

-----------------------------------------------------------------------------
(* The steps of the terminals and of the connection                        *)
\* Nothing is written or sent on.
LEMMA WayHolds ==
  ASSUME OutTypes, NEW p, InTurn(p), FromHome(p), NoneLost(p),
         home' = home, written' = written, known' = known, linked' = linked, broken' = broken,
         toLeaf' = toLeaf, toHub' = toHub \/ toHub' = Append(toHub, Surfs!Subscribe),
         "leaf" \in subscribed["hub"] => "leaf" \in subscribed'["hub"]
  PROVE  toHub' \in Seq(OutMessages) /\ InTurn(p)' /\ FromHome(p)' /\ NoneLost(p)'
<1>1. /\ toHub' \in Seq(OutMessages) /\ Carried(toHub') = Carried(toHub) /\ Rising(toHub')
      /\ toHub # <<>> => toHub' # <<>> /\ Head(toHub') = Head(toHub)
  <2>1. CASE toHub' = toHub
    BY <2>1 DEF OutTypes, InTurn
  <2>2. CASE toHub' = Append(toHub, Surfs!Subscribe)
    <3>1. Surfs!Subscribe \in OutMessages /\ Surfs!Subscribe.type # "output"
      BY OutMessageIs
    <3>2. toHub \in Seq(OutMessages) /\ Rising(toHub)
      BY DEF OutTypes, InTurn
    <3> QED
      BY <2>2, <3>1, <3>2, OtherSent, QueueGrows
  <2> QED
    BY <2>1, <2>2
<1>2. InTurn(p)'
  BY <1>1 DEF InTurn
<1>3. FromHome(p)'
  BY <1>1 DEF FromHome
<1>4. WentUp(p) => WentUp(p)'
  BY <1>1 DEF WentUp
<1>5. CameDown(p) => CameDown(p)'
  BY DEF CameDown
<1>6. NoneLost(p)'
  BY <1>4, <1>5 DEF NoneLost
<1> QED
  BY <1>1, <1>2, <1>3, <1>6

LEMMA PastKept ==
  ASSUME OutTypes, NEW p, PastOf(p), buffer' = buffer,
         \A v \in Surfs!Viewers : Streamed(v, p[Surfs!At(v)])',
         InTurn(p)', FromHome(p)', NoneLost(p)'
  PROVE  PastOf(p)'
<1>1. \A r \in Ends : Kept(r, p[r])'
  BY DEF PastOf, Kept
<1> QED
  BY <1>1 DEF PastOf

LEMMA SameStreams ==
  ASSUME OutTypes, NEW p, PastOf(p), buffer' = buffer, NEW v \in Surfs!Viewers,
         shown'[v] = shown[v], lines'[v] = lines[v],
         v \in subscribed'[Surfs!At(v)] => v \in subscribed[Surfs!At(v)]
  PROVE  Streamed(v, p[Surfs!At(v)])'
<1>1. PICK r \in Ends : r = Surfs!At(v)
  BY AtIs
<1>2. p[r] \in Past /\ Streamed(v, p[r])
  BY <1>1 DEF PastOf
<1>3. GoesOn(p[r], p[r])
  BY <1>2 DEF GoesOn, Past
<1>4. Streamed(v, p[r])'
  BY <1>1, <1>2, <1>3, StreamStays
<1> QED
  BY <1>1, <1>4

LEMMA TakesSubscribeKeeps ==
  ASSUME OutputInv, NEW v \in Surfs!Viewers, Surfs!TakesSubscribe(v)
  PROVE  OutputInv'
<1>1. PICK p : PastOf(p)
  BY DEF OutputInv
<1>2. OutTypes /\ \A w \in Surfs!Viewers : Attends(w)
  BY DEF OutputInv
<1>3. /\ v \in asks /\ asks' = asks \ {v} /\ home' = home /\ written' = written /\ buffer' = buffer
      /\ known' = known /\ linked' = linked /\ toLeaf' = toLeaf /\ sock' = sock /\ shown' = shown
      /\ broken' = broken
  BY DEF Surfs!TakesSubscribe
<1>4. toHub' = toHub \/ toHub' = Append(toHub, Surfs!Subscribe)
  BY DEF Surfs!TakesSubscribe, Surfs!HubGoes
<1>5. PICK r \in Ends : r = Surfs!At(v)
  BY AtIs
<1>6. shown[v] = <<>> /\ lines[v] = <<>> /\ v \notin waiting /\ sock[v] = "open" /\ v # "leaf"
  BY <1>2, <1>3, AtIs DEF Attends, OutTypes
<1>7. CASE Surfs!Join(r, {v}) /\ waiting' = waiting
  <2>1. {v} \subseteq Surfs!Viewers \cup {"leaf"}
    OBVIOUS
  <2>2. \A w \in {v} : w \in Surfs!Viewers => Surfs!At(w) = r /\ shown[w] = <<>> /\ lines[w] = <<>>
    BY <1>5, <1>6
  <2>3. /\ \A w \in Surfs!Viewers : Streamed(w, p[Surfs!At(w)])'
        /\ subscribed' \in [Ends -> SUBSET (Surfs!Viewers \cup {"leaf"})]
        /\ lines' \in [Surfs!Viewers -> Seq([type : {"lines"}, chunks : Seq(Nat)])]
        /\ \A w \in Surfs!Viewers : w \notin {v} => lines'[w] = lines[w]
        /\ subscribed'[r] = subscribed[r] \cup {v} /\ \A e \in Ends : e # r => subscribed'[e] = subscribed[e]
    BY <1>1, <1>2, <1>3, <1>7, <2>1, <2>2, JoinStreams
  <2>4. "leaf" \in subscribed["hub"] => "leaf" \in subscribed'["hub"]
    BY <2>3 DEF Ends
  <2>5. toHub' \in Seq(OutMessages) /\ InTurn(p)' /\ FromHome(p)' /\ NoneLost(p)'
    BY <1>1, <1>2, <1>3, <1>4, <2>4, WayHolds DEF PastOf
  <2>6. PastOf(p)'
    BY <1>1, <1>2, <1>3, <2>3, <2>5, PastKept
  <2>7. OutTypes'
    BY <1>2, <1>3, <1>7, <2>3, <2>5 DEF OutTypes
  <2>8. ASSUME NEW w \in Surfs!Viewers PROVE Attends(w)'
    <3>1. CASE w = v
      <4>1. \A e \in Ends : v \in subscribed'[e] => e = r
        BY <1>2, <1>5, <2>3 DEF Attends
      <4> QED
        BY <1>3, <1>5, <1>6, <1>7, <3>1, <4>1 DEF Attends, Surfs!At
    <3>2. CASE w # v
      <4>1. \A e \in Ends : w \in subscribed'[e] <=> w \in subscribed[e]
        BY <2>3, <3>2
      <4>2. lines'[w] = lines[w] /\ (w \in asks' <=> w \in asks) /\ Surfs!At(w) \in Ends
        BY <1>3, <2>3, <3>2, AtIs
      <4> QED
        BY <1>2, <1>3, <1>7, <4>1, <4>2 DEF Attends, Surfs!At
    <3> QED
      BY <3>1, <3>2
  <2> QED
    BY <2>6, <2>7, <2>8 DEF OutputInv
<1>8. CASE subscribed' = subscribed /\ lines' = lines /\ waiting' \in {waiting, waiting \cup {v}}
           /\ (waiting' = waiting \/ v \in LeafViewers)
  <2>1. \A w \in Surfs!Viewers : Streamed(w, p[Surfs!At(w)])'
    BY <1>1, <1>2, <1>3, <1>8, SameStreams
  <2>2. toHub' \in Seq(OutMessages) /\ InTurn(p)' /\ FromHome(p)' /\ NoneLost(p)'
    BY <1>1, <1>2, <1>3, <1>4, <1>8, WayHolds DEF PastOf
  <2>3. PastOf(p)'
    BY <1>1, <1>2, <1>3, <2>1, <2>2, PastKept
  <2>4. OutTypes'
    BY <1>2, <1>3, <1>8, <2>2 DEF OutTypes
  <2>5. ASSUME NEW w \in Surfs!Viewers PROVE Attends(w)'
    <3>1. CASE w = v
      BY <1>2, <1>3, <1>6, <1>8, <3>1 DEF Attends, Surfs!At
    <3>2. CASE w # v
      BY <1>2, <1>3, <1>8, <3>2 DEF Attends, Surfs!At
    <3> QED
      BY <3>1, <3>2
  <2> QED
    BY <2>3, <2>4, <2>5 DEF OutputInv
<1>9. \/ Surfs!Join(r, {v}) /\ waiting' = waiting
      \/ /\ subscribed' = subscribed /\ lines' = lines /\ waiting' \in {waiting, waiting \cup {v}}
         /\ (waiting' = waiting \/ v \in LeafViewers)
  <2>1. r = "leaf" => v \in LeafViewers
    BY <1>5 DEF Surfs!At
  <2> QED
    BY <1>5, <2>1 DEF Surfs!TakesSubscribe
<1> QED
  BY <1>7, <1>8, <1>9

LEMMA WaitEndsKeeps ==
  ASSUME OutputInv, NEW v \in Surfs!Viewers, Surfs!WaitEnds(v)
  PROVE  OutputInv'
<1>1. PICK p : PastOf(p)
  BY DEF OutputInv
<1>2. OutTypes /\ \A w \in Surfs!Viewers : Attends(w)
  BY DEF OutputInv
<1>3. /\ waiting' = waiting \ {v} /\ home' = home /\ written' = written /\ buffer' = buffer
      /\ known' = known /\ subscribed' = subscribed /\ linked' = linked /\ toHub' = toHub /\ toLeaf' = toLeaf
      /\ sock' = sock /\ asks' = asks /\ shown' = shown /\ lines' = lines /\ broken' = broken
  BY DEF Surfs!WaitEnds, Surfs!viewerVars
<1>4. \A w \in Surfs!Viewers : Streamed(w, p[Surfs!At(w)])'
  BY <1>1, <1>2, <1>3, SameStreams
<1>5. InTurn(p)' /\ FromHome(p)' /\ NoneLost(p)'
  BY <1>1, <1>2, <1>3, WayHolds DEF PastOf
<1>6. PastOf(p)'
  BY <1>1, <1>2, <1>3, <1>4, <1>5, PastKept
<1>7. OutTypes'
  BY <1>2, <1>3 DEF OutTypes
<1>8. \A w \in Surfs!Viewers : Attends(w)'
  BY <1>2, <1>3 DEF Attends, Surfs!At
<1> QED
  BY <1>6, <1>7, <1>8 DEF OutputInv

\* What a step of terminal v alone leaves as it is
TerminalStep(v) ==
  /\ home' = home /\ written' = written /\ buffer' = buffer /\ known' = known /\ linked' = linked
  /\ toHub' = toHub /\ toLeaf' = toLeaf /\ broken' = broken
  /\ asks' \subseteq asks \cup {v} /\ waiting' \subseteq waiting
  /\ subscribed' \in [Ends -> SUBSET (Surfs!Viewers \cup {"leaf"})]
  /\ \A r \in Ends : subscribed'[r] = subscribed[r] \/ subscribed'[r] = subscribed[r] \ {v}
  /\ sock' \in [Surfs!Viewers -> {"connecting", "open", "backoff", "gone"}]
  /\ lines' \in [Surfs!Viewers -> Seq([type : {"lines"}, chunks : Seq(Nat)])]
  /\ shown' \in [Surfs!Viewers -> Seq(Nat)]
  /\ \A w \in Surfs!Viewers : w # v =>
       shown'[w] = shown[w] /\ lines'[w] = lines[w] /\ sock'[w] = sock[w]

LEMMA TerminalKeeps ==
  ASSUME OutputInv, NEW v \in Surfs!Viewers, TerminalStep(v), Attends(v)',
         \A p : PastOf(p) => Streamed(v, p[Surfs!At(v)])'
  PROVE  OutputInv'
<1>1. PICK p : PastOf(p)
  BY DEF OutputInv
<1>2. OutTypes /\ \A w \in Surfs!Viewers : Attends(w)
  BY DEF OutputInv
<1>3. ASSUME NEW w \in Surfs!Viewers, w # v
      PROVE  Streamed(w, p[Surfs!At(w)])' /\ Attends(w)'
  <2>1. \A r \in Ends : w \in subscribed'[r] <=> w \in subscribed[r]
    BY <1>3 DEF TerminalStep
  <2>2. Surfs!At(w) \in Ends /\ shown'[w] = shown[w] /\ lines'[w] = lines[w] /\ sock'[w] = sock[w] /\ buffer' = buffer
    BY <1>3, AtIs DEF TerminalStep
  <2>3. Streamed(w, p[Surfs!At(w)])'
    BY <1>1, <1>2, <2>1, <2>2, SameStreams
  <2>4. (w \in asks' => w \in asks) /\ (w \in waiting' => w \in waiting)
    BY <1>3 DEF TerminalStep
  <2>5. Attends(w)'
    BY <1>2, <2>1, <2>2, <2>4 DEF Attends, Surfs!At
  <2> QED
    BY <2>3, <2>5
<1>4. \A w \in Surfs!Viewers : Streamed(w, p[Surfs!At(w)])' /\ Attends(w)'
  BY <1>1, <1>3
<1>5. "leaf" \in subscribed["hub"] => "leaf" \in subscribed'["hub"]
  BY AtIs DEF TerminalStep, Ends
<1>6. InTurn(p)' /\ FromHome(p)' /\ NoneLost(p)'
  BY <1>1, <1>2, <1>5, WayHolds DEF PastOf, TerminalStep
<1>7. PastOf(p)'
  BY <1>1, <1>2, <1>4, <1>6, PastKept DEF TerminalStep
<1>8. OutTypes'
  BY <1>2 DEF OutTypes, TerminalStep
<1> QED
  BY <1>4, <1>7, <1>8 DEF OutputInv

LEMMA OpensKeeps ==
  ASSUME OutputInv, NEW v \in Surfs!Viewers, Surfs!Opens(v)
  PROVE  OutputInv'
<1>1. OutTypes /\ Attends(v)
  BY DEF OutputInv
<1>2. /\ sock[v] = "connecting" /\ sock' = [sock EXCEPT ![v] = "open"] /\ asks' = asks \cup {v}
      /\ shown' = [shown EXCEPT ![v] = <<>>] /\ subscribed' = subscribed /\ waiting' = waiting /\ lines' = lines
      /\ home' = home /\ written' = written /\ buffer' = buffer /\ known' = known /\ linked' = linked
      /\ toHub' = toHub /\ toLeaf' = toLeaf /\ broken' = broken
  BY DEF Surfs!Opens, Surfs!TerminalOnly
<1>3. lines[v] = <<>> /\ v \notin subscribed[Surfs!At(v)] /\ v \notin asks /\ v \notin waiting
  BY <1>1, <1>2 DEF Attends
<1>4. sock'[v] = "open" /\ shown'[v] = <<>>
  BY <1>1, <1>2 DEF OutTypes
<1>5. TerminalStep(v)
  <2>1. <<>> \in Seq(Nat)
    OBVIOUS
  <2>2. shown' \in [Surfs!Viewers -> Seq(Nat)] /\ \A w \in Surfs!Viewers : w # v => shown'[w] = shown[w]
    BY <1>1, <1>2, <2>1 DEF OutTypes
  <2>3. /\ sock' \in [Surfs!Viewers -> {"connecting", "open", "backoff", "gone"}]
        /\ \A w \in Surfs!Viewers : w # v => sock'[w] = sock[w]
    BY <1>1, <1>2 DEF OutTypes
  <2> QED
    BY <1>1, <1>2, <2>2, <2>3 DEF TerminalStep, OutTypes
<1>6. Attends(v)'
  BY <1>1, <1>2, <1>3, <1>4 DEF Attends, Surfs!At
<1>7. ASSUME NEW p, PastOf(p) PROVE Streamed(v, p[Surfs!At(v)])'
  <2>1. PICK r \in Ends : r = Surfs!At(v)
    BY AtIs
  <2>2. p[r] \in Past /\ Streamed(v, p[r])
    BY <1>7, <2>1 DEF PastOf
  <2>3. Streamed(v, p[r])'
    BY <1>1, <1>2, <1>3, <1>4, <2>1, <2>2, StreamCut
  <2> QED
    BY <2>1, <2>3
<1> QED
  BY <1>5, <1>6, <1>7, TerminalKeeps

LEMMA ShowsKeeps ==
  ASSUME OutputInv, NEW v \in Surfs!Viewers, Surfs!Shows(v)
  PROVE  OutputInv'
<1> DEFINE S == [type : {"lines"}, chunks : Seq(Nat)]
<1>1. OutTypes /\ Attends(v)
  BY DEF OutputInv
<1>2. /\ lines[v] # <<>> /\ lines' = [lines EXCEPT ![v] = Tail(@)]
      /\ shown' = [shown EXCEPT ![v] = @ \o Head(lines[v]).chunks]
      /\ subscribed' = subscribed /\ waiting' = waiting /\ sock' = sock /\ asks' = asks
      /\ home' = home /\ written' = written /\ buffer' = buffer /\ known' = known /\ linked' = linked
      /\ toHub' = toHub /\ toLeaf' = toLeaf /\ broken' = broken
  BY DEF Surfs!Shows, Surfs!TerminalOnly
<1>3. lines \in [Surfs!Viewers -> Seq(S)] /\ shown \in [Surfs!Viewers -> Seq(Nat)]
  BY <1>1 DEF OutTypes
<1>4. Head(lines[v]) \in S /\ Tail(lines[v]) \in Seq(S)
  BY <1>2, <1>3, HeadTailProperties
<1>5. Head(lines[v]).chunks \in Seq(Nat) /\ shown[v] \o Head(lines[v]).chunks \in Seq(Nat)
  BY <1>3, <1>4
<1> HIDE DEF S
<1>6. /\ lines' \in [Surfs!Viewers -> Seq(S)] /\ lines'[v] = Tail(lines[v])
      /\ \A w \in Surfs!Viewers : w # v => lines'[w] = lines[w]
  BY <1>2, <1>3, <1>4
<1>7. /\ shown' \in [Surfs!Viewers -> Seq(Nat)] /\ shown'[v] = shown[v] \o Head(lines[v]).chunks
      /\ \A w \in Surfs!Viewers : w # v => shown'[w] = shown[w]
  BY <1>2, <1>3, <1>5
<1>8. TerminalStep(v)
  BY <1>1, <1>2, <1>6, <1>7 DEF TerminalStep, OutTypes, S
<1>9. Attends(v)'
  BY <1>1, <1>2 DEF Attends, Surfs!At
<1>10. ASSUME NEW p, PastOf(p) PROVE Streamed(v, p[Surfs!At(v)])'
  <2>1. PICK r \in Ends : r = Surfs!At(v)
    BY AtIs
  <2>2. p[r] \in Past /\ Streamed(v, p[r])
    BY <1>10, <2>1 DEF PastOf
  <2>3. Streamed(v, p[r])'
    BY <1>1, <1>2, <1>6, <1>7, <2>2, StreamShown
  <2> QED
    BY <2>1, <2>3
<1> QED
  BY <1>8, <1>9, <1>10, TerminalKeeps

LEMMA ClosesTerminalKeeps ==
  ASSUME OutputInv, NEW v \in Surfs!Viewers, Surfs!Closes(v)
  PROVE  OutputInv'
<1>1. OutTypes /\ Attends(v)
  BY DEF OutputInv
<1>2. /\ sock' = [sock EXCEPT ![v] = "backoff"] \/ sock' = [sock EXCEPT ![v] = "gone"]
      /\ asks' = asks \ {v} /\ lines' = [lines EXCEPT ![v] = <<>>] /\ waiting' = waiting \ {v}
      /\ subscribed' = [r \in {"leaf", "hub"} |-> subscribed[r] \ {v}] /\ shown' = shown
      /\ home' = home /\ written' = written /\ buffer' = buffer /\ known' = known /\ linked' = linked
      /\ toHub' = toHub /\ toLeaf' = toLeaf /\ broken' = broken
  BY DEF Surfs!Closes, Surfs!TerminalOnly
<1>3. /\ subscribed' \in [Ends -> SUBSET (Surfs!Viewers \cup {"leaf"})]
      /\ \A r \in Ends : subscribed'[r] = subscribed[r] \ {v}
  BY <1>1, <1>2 DEF OutTypes, Ends
<1>4. /\ sock' \in [Surfs!Viewers -> {"connecting", "open", "backoff", "gone"}]
      /\ \A w \in Surfs!Viewers : w # v => sock'[w] = sock[w]
  BY <1>1, <1>2 DEF OutTypes
<1>5. /\ lines' \in [Surfs!Viewers -> Seq([type : {"lines"}, chunks : Seq(Nat)])] /\ lines'[v] = <<>>
      /\ \A w \in Surfs!Viewers : w # v => lines'[w] = lines[w]
  <2> DEFINE S == [type : {"lines"}, chunks : Seq(Nat)]
  <2>1. lines \in [Surfs!Viewers -> Seq(S)] /\ <<>> \in Seq(S)
    BY <1>1 DEF OutTypes
  <2> HIDE DEF S
  <2>2. /\ lines' \in [Surfs!Viewers -> Seq(S)] /\ lines'[v] = <<>>
        /\ \A w \in Surfs!Viewers : w # v => lines'[w] = lines[w]
    BY <1>2, <2>1
  <2> QED
    BY <2>2 DEF S
<1>6. TerminalStep(v)
  BY <1>1, <1>2, <1>3, <1>4, <1>5 DEF TerminalStep, OutTypes
<1>7. Attends(v)'
  BY <1>1, <1>2, <1>3, <1>5, AtIs DEF Attends, Surfs!At
<1>8. ASSUME NEW p, PastOf(p) PROVE Streamed(v, p[Surfs!At(v)])'
  <2>1. PICK r \in Ends : r = Surfs!At(v)
    BY AtIs
  <2>2. p[r] \in Past /\ Streamed(v, p[r])
    BY <1>8, <2>1 DEF PastOf
  <2>3. Streamed(v, p[r])'
    BY <1>1, <1>2, <1>3, <1>5, <2>1, <2>2, StreamCut
  <2> QED
    BY <2>1, <2>3
<1> QED
  BY <1>6, <1>7, <1>8, TerminalKeeps

LEMMA RetriesKeeps ==
  ASSUME OutputInv, NEW v \in Surfs!Viewers, Surfs!Retries(v)
  PROVE  OutputInv'
<1>1. OutTypes /\ Attends(v)
  BY DEF OutputInv
<1>2. /\ sock[v] = "backoff" /\ sock' = [sock EXCEPT ![v] = "connecting"]
      /\ subscribed' = subscribed /\ waiting' = waiting /\ lines' = lines /\ asks' = asks /\ shown' = shown
      /\ home' = home /\ written' = written /\ buffer' = buffer /\ known' = known /\ linked' = linked
      /\ toHub' = toHub /\ toLeaf' = toLeaf /\ broken' = broken
  BY DEF Surfs!Retries, Surfs!TerminalOnly
<1>3. /\ sock' \in [Surfs!Viewers -> {"connecting", "open", "backoff", "gone"}]
      /\ \A w \in Surfs!Viewers : w # v => sock'[w] = sock[w]
  BY <1>1, <1>2 DEF OutTypes
<1>4. TerminalStep(v)
  BY <1>1, <1>2, <1>3 DEF TerminalStep, OutTypes
<1>5. Attends(v)'
  BY <1>1, <1>2 DEF Attends, Surfs!At
<1>6. ASSUME NEW p, PastOf(p) PROVE Streamed(v, p[Surfs!At(v)])'
  BY <1>1, <1>2, <1>6, SameStreams
<1> QED
  BY <1>4, <1>5, <1>6, TerminalKeeps

-----------------------------------------------------------------------------
(* The steps of the relays and of the process                              *)
LEMMA LinkKeeps ==
  ASSUME OutputInv, Surfs!LinkLost \/ Surfs!LinkBack
  PROVE  OutputInv'
<1>1. PICK p : PastOf(p)
  BY DEF OutputInv
<1>2. OutTypes /\ \A w \in Surfs!Viewers : Attends(w)
  BY DEF OutputInv
<1>3. /\ home' = home /\ written' = written /\ buffer' = buffer /\ known' = known /\ waiting' = waiting
      /\ sock' = sock /\ asks' = asks /\ shown' = shown /\ lines' = lines
  BY DEF Surfs!LinkLost, Surfs!LinkBack, Surfs!viewerVars
<1>4. /\ subscribed' = subscribed \/ subscribed' = [subscribed EXCEPT !["hub"] = @ \ {"leaf"}]
      /\ linked' \in BOOLEAN /\ broken' \in BOOLEAN
      /\ (toHub' = toHub /\ toLeaf' = toLeaf) \/ (toHub' = <<>> /\ toLeaf' = <<>>)
  BY <1>2 DEF Surfs!LinkLost, Surfs!LinkBack, OutTypes
<1>5. broken'
  <2>1. CASE Surfs!LinkLost
    BY <2>1 DEF Surfs!LinkLost
  <2>2. CASE Surfs!LinkBack
    BY <1>1, <1>2, <2>2 DEF Surfs!LinkBack, PastOf, NoneLost, OutTypes
  <2> QED
    BY <2>1, <2>2
<1>6. /\ subscribed' \in [Ends -> SUBSET (Surfs!Viewers \cup {"leaf"})]
      /\ \A e \in Ends, w \in Surfs!Viewers : w \in subscribed'[e] <=> w \in subscribed[e]
  <2>1. subscribed \in [Ends -> SUBSET (Surfs!Viewers \cup {"leaf"})]
    BY <1>2 DEF OutTypes
  <2>2. \A w \in Surfs!Viewers : w # "leaf"
    BY AtIs
  <2> QED
    BY <1>4, <2>1, <2>2
<1>7. /\ toHub' \in Seq(OutMessages) /\ toLeaf' \in Seq(OutMessages) /\ Rising(toHub') /\ Rising(toLeaf')
      /\ (Carried(toHub') = Carried(toHub) /\ Carried(toLeaf') = Carried(toLeaf))
           \/ (Carried(toHub') = {} /\ Carried(toLeaf') = {})
  <2>1. <<>> \in Seq(OutMessages)
    OBVIOUS
  <2> QED
    BY <1>1, <1>2, <1>4, <2>1, NothingCarried DEF OutTypes, PastOf, InTurn
<1>8. InTurn(p)'
  BY <1>1, <1>7 DEF PastOf, InTurn, Before
<1>9. FromHome(p)'
  BY <1>1, <1>3, <1>7 DEF PastOf, FromHome
<1>10. NoneLost(p)'
  BY <1>5 DEF NoneLost
<1>11. \A w \in Surfs!Viewers : Streamed(w, p[Surfs!At(w)])'
  BY <1>1, <1>2, <1>3, <1>6, AtIs, SameStreams
<1>12. PastOf(p)'
  BY <1>1, <1>2, <1>3, <1>8, <1>9, <1>10, <1>11, PastKept
<1>13. OutTypes'
  BY <1>2, <1>3, <1>4, <1>6, <1>7 DEF OutTypes
<1>14. \A w \in Surfs!Viewers : Attends(w)'
  BY <1>2, <1>3, <1>6, AtIs DEF Attends, Surfs!At
<1> QED
  BY <1>12, <1>13, <1>14 DEF OutputInv

LEMMA EmitKeeps ==
  ASSUME OutputInv, NEW p, PastOf(p), NEW q \in [Ends -> Past], NEW r \in Ends, NEW c \in Nat,
         WroteMore(p[r], q[r], c) \/ HeardMore(p[r], q[r], c), \A o \in Ends : o # r => q[o] = p[o],
         Ordered(q[r]), Surfs!Emit(r, c), InTurn(q)', FromHome(q)', NoneLost(q)',
         home' = home, written' \in Nat, toHub' \in Seq(OutMessages), toLeaf' \in Seq(OutMessages),
         known' = known, subscribed' = subscribed, waiting' = waiting, linked' = linked,
         sock' = sock, asks' = asks, shown' = shown, broken' = broken
  PROVE  OutputInv'
<1>1. OutTypes /\ \A w \in Surfs!Viewers : Attends(w)
  BY DEF OutputInv
<1>2. /\ \A e \in Ends : Kept(e, q[e])'
      /\ \A v \in Surfs!Viewers : Streamed(v, q[Surfs!At(v)])'
      /\ buffer' \in [Ends -> Seq(Nat)]
      /\ lines' \in [Surfs!Viewers -> Seq([type : {"lines"}, chunks : Seq(Nat)])]
      /\ \A v \in Surfs!Viewers : v \notin subscribed[Surfs!At(v)] => lines'[v] = lines[v]
  BY <1>1, EmitStreams
<1>3. \A e \in Ends : Ordered(q[e])
  BY DEF PastOf
<1>4. PastOf(q)'
  BY <1>2, <1>3 DEF PastOf
<1>5. OutTypes'
  BY <1>1, <1>2 DEF OutTypes
<1>6. \A w \in Surfs!Viewers : Attends(w)'
  BY <1>1, <1>2 DEF Attends, Surfs!At
<1> QED
  BY <1>4, <1>5, <1>6 DEF OutputInv

LEMMA JoinKeeps ==
  ASSUME OutputInv, NEW p, PastOf(p), NEW r \in Ends, NEW vs, vs \subseteq Surfs!Viewers \cup {"leaf"},
         \A v \in vs : v \in Surfs!Viewers => Surfs!At(v) = r /\ v \in waiting,
         Surfs!Join(r, vs), waiting' = waiting \ vs, InTurn(p)', FromHome(p)', NoneLost(p)',
         home' = home, written' = written, toHub' \in Seq(OutMessages), toLeaf' \in Seq(OutMessages),
         known' \subseteq Ends, known \subseteq known', linked' = linked, buffer' = buffer,
         sock' = sock, asks' = asks, shown' = shown, broken' = broken
  PROVE  OutputInv'
<1>1. OutTypes /\ \A w \in Surfs!Viewers : Attends(w)
  BY DEF OutputInv
<1>2. \A v \in vs : v \in Surfs!Viewers => Surfs!At(v) = r /\ shown[v] = <<>> /\ lines[v] = <<>>
  BY <1>1 DEF Attends
<1>3. /\ \A v \in Surfs!Viewers : Streamed(v, p[Surfs!At(v)])'
      /\ subscribed' \in [Ends -> SUBSET (Surfs!Viewers \cup {"leaf"})]
      /\ lines' \in [Surfs!Viewers -> Seq([type : {"lines"}, chunks : Seq(Nat)])]
      /\ \A v \in Surfs!Viewers : v \notin vs => lines'[v] = lines[v]
      /\ subscribed'[r] = subscribed[r] \cup vs /\ \A e \in Ends : e # r => subscribed'[e] = subscribed[e]
  BY <1>1, <1>2, JoinStreams
<1>4. PastOf(p)'
  BY <1>1, <1>3, PastKept
<1>5. OutTypes'
  BY <1>1, <1>3 DEF OutTypes
<1>6. ASSUME NEW w \in Surfs!Viewers PROVE Attends(w)'
  <2>1. CASE w \in vs
    <3>1. Surfs!At(w) = r /\ w \in waiting /\ w \notin asks /\ sock[w] = "open" /\ w \notin waiting'
      BY <1>1, <2>1 DEF Attends
    <3>2. \A e \in Ends : w \in subscribed'[e] => e = r
      BY <1>1, <1>3, <3>1 DEF Attends
    <3> QED
      BY <3>1, <3>2 DEF Attends, Surfs!At
  <2>2. CASE w \notin vs
    <3>1. \A e \in Ends : w \in subscribed'[e] <=> w \in subscribed[e]
      BY <1>3, <2>2
    <3>2. lines'[w] = lines[w] /\ (w \in waiting' <=> w \in waiting) /\ Surfs!At(w) \in Ends
      BY <1>3, <2>2, AtIs
    <3> QED
      BY <1>1, <3>1, <3>2 DEF Attends, Surfs!At
  <2> QED
    BY <2>1, <2>2
<1> QED
  BY <1>4, <1>5, <1>6 DEF OutputInv

LEMMA NowIs ==
  ASSUME NEW n \in Nat
  PROVE  /\ n + 1 \in Nat /\ 1..(n + 1) = (1..n) \cup {n + 1} /\ 1..n \subseteq 1..(n + 1)
         /\ \A A : A \subseteq 1..n => Before(A, {n + 1})
         /\ \A d \in 1..n : ~(n + 1 <= d)
<1>1. 1..(n + 1) = (1..n) \cup {n + 1} /\ \A d \in 1..n : d < n + 1 /\ ~(n + 1 <= d)
  OBVIOUS
<1> QED
  BY <1>1 DEF Before

LEMMA WriteKeeps ==
  ASSUME OutputInv, Surfs!Write
  PROVE  OutputInv'
<1>1. PICK p : PastOf(p)
  BY DEF OutputInv
<1>2. OutTypes
  BY DEF OutputInv
<1>3. PICK c : c = written + 1
  OBVIOUS
<1>4. /\ written' = c /\ Surfs!Emit(home, c)
      /\ toHub' = IF home = "leaf" /\ linked THEN Append(toHub, Surfs!Output(c)) ELSE toHub
      /\ toLeaf' = IF home = "hub" /\ "leaf" \in subscribed["hub"] THEN Append(toLeaf, Surfs!Output(c)) ELSE toLeaf
      /\ home' = home /\ known' = known /\ subscribed' = subscribed /\ waiting' = waiting /\ linked' = linked
      /\ sock' = sock /\ asks' = asks /\ shown' = shown /\ broken' = broken
  BY <1>3 DEF Surfs!Write, Surfs!ToLeaf, Surfs!viewerVars
<1>5. home \in Ends /\ written \in Nat /\ c \in Nat /\ toHub \in Seq(OutMessages) /\ toLeaf \in Seq(OutMessages)
  BY <1>2, <1>3 DEF OutTypes
<1>6. 1..c = (1..written) \cup {c} /\ (\A A : A \subseteq 1..written => Before(A, {c})) /\ \A d \in 1..written : ~(c <= d)
  BY <1>3, <1>5, NowIs
<1>7. /\ p \in [Ends -> Past] /\ (\A r \in Ends : Ordered(p[r])) /\ InTurn(p) /\ FromHome(p) /\ NoneLost(p)
  BY <1>1 DEF PastOf
<1>8. PICK q \in [Ends -> Past] : WroteMore(p[home], q[home], c) /\ \A o \in Ends : o # home => q[o] = p[o]
  BY <1>5, <1>7, PastGrows
<1>9. p[home] \in Past /\ q[home] \in Past /\ Before(Wrote(p[home]), {c})
  BY <1>5, <1>6, <1>7 DEF FromHome
<1>10. Wrote(q[home]) = Wrote(p[home]) \cup {c} /\ WasSent(q[home]) = WasSent(p[home]) /\ Ordered(q[home])
  BY <1>5, <1>7, <1>8, <1>9, WroteMoreIs
<1>11. \A r \in Ends : WasSent(q[r]) = WasSent(p[r])
  BY <1>8, <1>10
<1>12. /\ Carried(toHub) \subseteq 1..written /\ Carried(toLeaf) \subseteq 1..written /\ Rising(toHub) /\ Rising(toLeaf)
       /\ \A r \in Ends : WasSent(p[r]) \subseteq 1..written
  BY <1>7 DEF FromHome, InTurn
<1>13. Surfs!Output(c) \in OutMessages
  BY <1>5, OutMessageIs
<1>14. ASSUME home = "leaf", linked
       PROVE  /\ Carried(toHub') = Carried(toHub) \cup {c} /\ Rising(toHub') /\ toHub' \in Seq(OutMessages)
              /\ toHub # <<>> => toHub' # <<>> /\ Head(toHub') = Head(toHub)
  BY <1>4, <1>5, <1>6, <1>12, <1>13, <1>14, OutputSent, QueueGrows
<1>15. ASSUME home = "hub", "leaf" \in subscribed["hub"]
       PROVE  Carried(toLeaf') = Carried(toLeaf) \cup {c} /\ Rising(toLeaf') /\ toLeaf' \in Seq(OutMessages)
  BY <1>4, <1>5, <1>6, <1>12, <1>13, <1>15, OutputSent, QueueGrows
<1>16. ~(home = "leaf" /\ linked) => toHub' = toHub
  BY <1>4
<1>17. ~(home = "hub" /\ "leaf" \in subscribed["hub"]) => toLeaf' = toLeaf
  BY <1>4
<1>18. /\ toHub' \in Seq(OutMessages) /\ toLeaf' \in Seq(OutMessages) /\ Rising(toHub') /\ Rising(toLeaf')
       /\ Carried(toHub') \in {Carried(toHub), Carried(toHub) \cup {c}}
       /\ Carried(toLeaf') \in {Carried(toLeaf), Carried(toLeaf) \cup {c}}
       /\ home = "hub" => toHub' = toHub
       /\ home = "leaf" => toLeaf' = toLeaf
  BY <1>5, <1>12, <1>14, <1>15, <1>16, <1>17
<1>19. InTurn(q)'
  <2>1. /\ Before(WasSent(p["hub"]), Carried(toHub) \cup {c}) /\ Before(WasSent(p["leaf"]), Carried(toLeaf) \cup {c})
        /\ Before(WasSent(p["leaf"]), Carried(toHub) \cup {c}) /\ Before(Carried(toLeaf), Carried(toHub) \cup {c})
    <3>1. "hub" \in Ends /\ "leaf" \in Ends
      BY DEF Ends
    <3>2. Before(WasSent(p["hub"]), {c}) /\ Before(WasSent(p["leaf"]), {c}) /\ Before(Carried(toLeaf), {c})
      BY <1>6, <1>12, <3>1
    <3> QED
      BY <1>7, <3>2 DEF InTurn, Before
  <2>2. Before(WasSent(q["hub"]), Carried(toHub')) /\ Before(WasSent(q["leaf"]), Carried(toLeaf'))
        /\ Before(WasSent(q["leaf"]), Carried(toHub'))
    BY <1>7, <1>11, <1>18, <2>1 DEF InTurn, Ends
  <2>3. Before(Carried(toLeaf'), Carried(toHub'))
    <3>1. CASE home = "leaf"
      BY <1>7, <1>18, <2>1, <3>1 DEF InTurn
    <3>2. CASE home = "hub"
      <4>1. Carried(toHub') = {}
        BY <1>7, <1>18, <3>2 DEF FromHome
      <4> QED
        BY <4>1 DEF Before
    <3> QED
      BY <1>5, <3>1, <3>2 DEF Ends
  <2> QED
    BY <1>18, <2>2, <2>3 DEF InTurn
<1>20. FromHome(q)'
  <2>1. Wrote(q[home]) = 1..c
    BY <1>6, <1>7, <1>10 DEF FromHome
  <2>2. \A r \in Ends : WasSent(q[r]) \subseteq 1..c /\ (r # home => q[r].own = {})
    BY <1>6, <1>7, <1>8, <1>11 DEF FromHome
  <2>3. Carried(toHub') \subseteq 1..c /\ Carried(toLeaf') \subseteq 1..c
    BY <1>6, <1>12, <1>18
  <2>4. home = "hub" => Carried(toHub') = {} /\ WasSent(q["hub"]) = {}
    BY <1>7, <1>11, <1>18 DEF FromHome, Ends
  <2> QED
    BY <1>4, <2>1, <2>2, <2>3, <2>4 DEF FromHome
<1>21. NoneLost(q)'
  <2> SUFFICES ASSUME ~broken' PROVE linked' /\ (home' = "leaf" => WentUp(q)') /\ (home' = "hub" => CameDown(q)')
    BY DEF NoneLost
  <2>1. ~broken /\ linked /\ linked'
    BY <1>4, <1>7 DEF NoneLost
  <2>2. WasSent(q["hub"]) = WasSent(p["hub"]) /\ WasSent(q["leaf"]) = WasSent(p["leaf"])
    BY <1>11 DEF Ends
  <2>3. ASSUME home = "leaf" PROVE WentUp(q)'
    <3>1. WentUp(p)
      BY <1>7, <2>1, <2>3 DEF NoneLost
    <3>2. 1..c \subseteq WasSent(q["hub"]) \cup Carried(toHub')
      BY <1>6, <1>14, <2>1, <2>2, <2>3, <3>1 DEF WentUp
    <3>3. WasSent(q["hub"]) \subseteq WasSent(q["leaf"]) \cup Carried(toLeaf')
      BY <1>18, <2>2, <2>3, <3>1 DEF WentUp
    <3>4. "hub" \notin known => toHub' # <<>> /\ Head(toHub').type = "publish"
      BY <1>14, <2>1, <2>3, <3>1 DEF WentUp
    <3> QED
      BY <1>4, <3>1, <3>2, <3>3, <3>4 DEF WentUp
  <2>4. ASSUME home = "hub" PROVE CameDown(q)'
    <3>1. CameDown(p)
      BY <1>7, <2>1, <2>4 DEF NoneLost
    <3>2. CASE "leaf" \in subscribed["hub"]
      <4>1. Carried(toLeaf') = Carried(toLeaf) \cup {c}
        BY <1>15, <2>4, <3>2
      <4>2. ASSUME NEW e \in WasSent(p["leaf"]) \cup Carried(toLeaf'), NEW d \in 1..c, e <= d
            PROVE  d \in WasSent(p["leaf"]) \cup Carried(toLeaf')
        <5>1. CASE d = c
          BY <4>1, <5>1
        <5>2. CASE d # c
          <6>1. d \in 1..written /\ e # c
            BY <1>6, <4>2, <5>2
          <6>2. e \in WasSent(p["leaf"]) \cup Carried(toLeaf)
            BY <4>1, <6>1
          <6> QED
            BY <3>1, <4>1, <4>2, <6>1, <6>2 DEF CameDown
        <5> QED
          BY <5>1, <5>2
      <4> QED
        BY <1>4, <2>2, <3>2, <4>2 DEF CameDown
    <3>3. CASE "leaf" \notin subscribed["hub"]
      <4>1. WasSent(q["leaf"]) \cup Carried(toLeaf') = {}
        BY <1>17, <2>2, <3>1, <3>3 DEF CameDown
      <4> QED
        BY <4>1 DEF CameDown
    <3> QED
      BY <3>2, <3>3
  <2> QED
    BY <1>4, <2>1, <2>3, <2>4
<1>22. WroteMore(p[home], q[home], c) \/ HeardMore(p[home], q[home], c)
  BY <1>8
<1> QED
  BY <1>1, <1>4, <1>5, <1>8, <1>10, <1>18, <1>19, <1>20, <1>21, <1>22, EmitKeeps

\* The hub sends on what the leaf's process wrote.
LEMMA HubSendsKeeps ==
  ASSUME OutputInv, toHub # <<>>, toHub' = Tail(toHub), Head(toHub).type = "output", "hub" \in known,
         Surfs!Emit("hub", Head(toHub).chunk), toLeaf' = Surfs!ToLeaf("hub", Head(toHub).chunk),
         known' = known, subscribed' = subscribed, home' = home, written' = written, waiting' = waiting,
         linked' = linked, sock' = sock, asks' = asks, shown' = shown, broken' = broken
  PROVE  OutputInv'
<1>1. PICK p : PastOf(p)
  BY DEF OutputInv
<1>2. OutTypes
  BY DEF OutputInv
<1>3. PICK c : c = Head(toHub).chunk
  OBVIOUS
<1>4. home \in Ends /\ written \in Nat /\ toHub \in Seq(OutMessages) /\ toLeaf \in Seq(OutMessages)
  BY <1>2 DEF OutTypes
<1>5. /\ p \in [Ends -> Past] /\ (\A r \in Ends : Ordered(p[r])) /\ InTurn(p) /\ FromHome(p) /\ NoneLost(p)
  BY <1>1 DEF PastOf
<1>6. /\ Head(toHub) \in OutMessages /\ toHub' \in Seq(OutMessages) /\ Rising(toHub')
      /\ Carried(toHub) = Carried(toHub') \cup {c} /\ Before({c}, Carried(toHub'))
  BY <1>3, <1>4, <1>5, QueueTaken DEF InTurn
<1>7. c \in Nat /\ Surfs!Output(c) \in OutMessages
  BY <1>3, <1>6, OutMessageIs
<1>8. home = "leaf"
  BY <1>4, <1>5, <1>6 DEF FromHome, Ends
<1>9. "hub" \in Ends /\ "leaf" \in Ends
  BY DEF Ends
<1>10. PICK q \in [Ends -> Past] : HeardMore(p["hub"], q["hub"], c) /\ \A o \in Ends : o # "hub" => q[o] = p[o]
  BY <1>5, <1>7, <1>9, PastGrows
<1>11. p["hub"] \in Past /\ q["hub"] \in Past /\ Ordered(p["hub"]) /\ Before(WasSent(p["hub"]), {c}) /\ q["leaf"] = p["leaf"]
  BY <1>5, <1>6, <1>9, <1>10 DEF InTurn, Before
<1>12. WasSent(q["hub"]) = WasSent(p["hub"]) \cup {c} /\ Wrote(q["hub"]) = Wrote(p["hub"]) /\ Ordered(q["hub"])
  BY <1>7, <1>10, <1>11, HeardMoreIs
<1>13. Before(Carried(toLeaf), {c}) /\ Before(WasSent(p["leaf"]), {c})
  BY <1>5, <1>6 DEF InTurn, Before
<1>14. toLeaf' = IF "leaf" \in subscribed["hub"] THEN Append(toLeaf, Surfs!Output(c)) ELSE toLeaf
  BY <1>3 DEF Surfs!ToLeaf
<1>15. ASSUME "leaf" \in subscribed["hub"]
       PROVE  Carried(toLeaf') = Carried(toLeaf) \cup {c} /\ Rising(toLeaf') /\ toLeaf' \in Seq(OutMessages)
  <2>1. Rising(toLeaf) /\ toLeaf' = Append(toLeaf, Surfs!Output(c))
    BY <1>5, <1>14, <1>15 DEF InTurn
  <2>2. /\ Carried(Append(toLeaf, Surfs!Output(c))) = Carried(toLeaf) \cup {c}
        /\ Rising(Append(toLeaf, Surfs!Output(c)))
    BY <1>4, <1>7, <1>13, <2>1, OutputSent
  <2>3. Append(toLeaf, Surfs!Output(c)) \in Seq(OutMessages)
    BY <1>4, <1>7, QueueGrows
  <2> QED
    BY <2>1, <2>2, <2>3
<1>16. /\ Rising(toLeaf') /\ toLeaf' \in Seq(OutMessages)
       /\ Carried(toLeaf') \in {Carried(toLeaf), Carried(toLeaf) \cup {c}}
  BY <1>4, <1>5, <1>14, <1>15 DEF InTurn
<1>17. InTurn(q)'
  <2>1. Before(WasSent(q["hub"]), Carried(toHub')) /\ Before(WasSent(q["leaf"]), Carried(toHub'))
    BY <1>5, <1>6, <1>11, <1>12 DEF InTurn, Before
  <2>2. Before(WasSent(q["leaf"]), Carried(toLeaf'))
    BY <1>5, <1>11, <1>13, <1>16 DEF InTurn, Before
  <2>3. Before(Carried(toLeaf'), Carried(toHub'))
    BY <1>5, <1>6, <1>16 DEF InTurn, Before
  <2> QED
    BY <1>6, <1>16, <2>1, <2>2, <2>3 DEF InTurn
<1>18. c \in 1..written
  BY <1>5, <1>6 DEF FromHome
<1>19. FromHome(q)'
  <2>1. Wrote(q[home]) = 1..written
    BY <1>5, <1>8, <1>11 DEF FromHome
  <2>2. \A r \in Ends : WasSent(q[r]) \subseteq 1..written /\ (r # home => q[r].own = {})
    <3>1. q["hub"].own = p["hub"].own
      BY <1>10 DEF HeardMore
    <3> QED
      BY <1>5, <1>8, <1>11, <1>12, <1>18, <3>1 DEF FromHome, Ends
  <2>3. Carried(toHub') \subseteq 1..written /\ Carried(toLeaf') \subseteq 1..written
    BY <1>5, <1>6, <1>16, <1>18 DEF FromHome
  <2> QED
    BY <1>8, <2>1, <2>2, <2>3 DEF FromHome
<1>20. NoneLost(q)'
  <2> SUFFICES ASSUME ~broken' PROVE linked' /\ WentUp(q)'
    BY <1>8 DEF NoneLost
  <2>1. linked /\ WentUp(p)
    BY <1>5, <1>8 DEF NoneLost
  <2>2. Carried(toLeaf') = Carried(toLeaf) \cup {c}
    BY <1>15, <2>1 DEF WentUp
  <2> QED
    BY <1>6, <1>11, <1>12, <2>1, <2>2 DEF WentUp
<1>21. \/ WroteMore(p["hub"], q["hub"], c)
       \/ HeardMore(p["hub"], q["hub"], c)
  BY <1>10
<1>22. Surfs!Emit("hub", c)
  BY <1>3
<1> QED
  BY <1>1, <1>4, <1>6, <1>7, <1>9, <1>10, <1>12, <1>16, <1>17, <1>19, <1>20, <1>21, <1>22, EmitKeeps

LEMMA LeafSendsKeeps ==
  ASSUME OutputInv, toLeaf # <<>>, toLeaf' = Tail(toLeaf), Head(toLeaf).type = "output",
         Surfs!Emit("leaf", Head(toLeaf).chunk), toHub' = toHub,
         known' = known, subscribed' = subscribed, home' = home, written' = written, waiting' = waiting,
         linked' = linked, sock' = sock, asks' = asks, shown' = shown, broken' = broken
  PROVE  OutputInv'
<1>1. PICK p : PastOf(p)
  BY DEF OutputInv
<1>2. OutTypes
  BY DEF OutputInv
<1>3. PICK c : c = Head(toLeaf).chunk
  OBVIOUS
<1>4. home \in Ends /\ written \in Nat /\ toHub \in Seq(OutMessages) /\ toLeaf \in Seq(OutMessages)
  BY <1>2 DEF OutTypes
<1>5. /\ p \in [Ends -> Past] /\ (\A r \in Ends : Ordered(p[r])) /\ InTurn(p) /\ FromHome(p) /\ NoneLost(p)
  BY <1>1 DEF PastOf
<1>6. /\ Head(toLeaf) \in OutMessages /\ toLeaf' \in Seq(OutMessages) /\ Rising(toLeaf')
      /\ Carried(toLeaf) = Carried(toLeaf') \cup {c} /\ Before({c}, Carried(toLeaf'))
  BY <1>3, <1>4, <1>5, QueueTaken DEF InTurn
<1>7. c \in Nat
  BY <1>3, <1>6, OutMessageIs
<1>8. "hub" \in Ends /\ "leaf" \in Ends
  BY DEF Ends
<1>9. PICK q \in [Ends -> Past] : HeardMore(p["leaf"], q["leaf"], c) /\ \A o \in Ends : o # "leaf" => q[o] = p[o]
  BY <1>5, <1>7, <1>8, PastGrows
<1>10. p["leaf"] \in Past /\ q["leaf"] \in Past /\ Ordered(p["leaf"]) /\ Before(WasSent(p["leaf"]), {c}) /\ q["hub"] = p["hub"]
  BY <1>5, <1>6, <1>8, <1>9 DEF InTurn, Before
<1>11. WasSent(q["leaf"]) = WasSent(p["leaf"]) \cup {c} /\ Wrote(q["leaf"]) = Wrote(p["leaf"]) /\ Ordered(q["leaf"])
  BY <1>7, <1>9, <1>10, HeardMoreIs
<1>12. InTurn(q)'
  <2>1. Before(WasSent(q["hub"]), Carried(toHub)) /\ Before(Carried(toLeaf'), Carried(toHub))
        /\ Before(WasSent(q["leaf"]), Carried(toHub))
    BY <1>5, <1>6, <1>10, <1>11 DEF InTurn, Before
  <2>2. Before(WasSent(q["leaf"]), Carried(toLeaf'))
    BY <1>5, <1>6, <1>11 DEF InTurn, Before
  <2>3. Rising(toHub)
    BY <1>5 DEF InTurn
  <2> QED
    BY <1>6, <2>1, <2>2, <2>3 DEF InTurn
<1>13. c \in 1..written
  BY <1>5, <1>6 DEF FromHome
<1>14. FromHome(q)'
  <2>1. Wrote(q[home]) = 1..written
    BY <1>4, <1>5, <1>9, <1>11 DEF FromHome
  <2>2. \A r \in Ends : WasSent(q[r]) \subseteq 1..written /\ (r # home => q[r].own = {})
    <3>1. q["leaf"].own = p["leaf"].own
      BY <1>9 DEF HeardMore
    <3> QED
      BY <1>5, <1>9, <1>11, <1>13, <3>1 DEF FromHome
  <2>3. Carried(toHub) \subseteq 1..written /\ Carried(toLeaf') \subseteq 1..written
    BY <1>5, <1>6 DEF FromHome
  <2>4. home = "hub" => Carried(toHub) = {} /\ WasSent(q["hub"]) = {}
    BY <1>5, <1>10 DEF FromHome
  <2> QED
    BY <2>1, <2>2, <2>3, <2>4 DEF FromHome
<1>15. WasSent(q["leaf"]) \cup Carried(toLeaf') = WasSent(p["leaf"]) \cup Carried(toLeaf)
  BY <1>6, <1>11
<1>16. NoneLost(q)'
  <2>1. WentUp(p) => WentUp(q)'
    BY <1>10, <1>15 DEF WentUp
  <2>2. CameDown(p) => CameDown(q)'
    BY <1>15 DEF CameDown
  <2> QED
    BY <1>5, <2>1, <2>2 DEF NoneLost
<1>17. \/ WroteMore(p["leaf"], q["leaf"], c)
       \/ HeardMore(p["leaf"], q["leaf"], c)
  BY <1>9
<1>18. Surfs!Emit("leaf", c)
  BY <1>3
<1> QED
  BY <1>1, <1>4, <1>6, <1>7, <1>8, <1>9, <1>11, <1>12, <1>14, <1>16, <1>17, <1>18, EmitKeeps

\* The hub has the leaf as a subscriber.
LEMMA HubJoinsKeeps ==
  ASSUME OutputInv, toHub # <<>>, toHub' = Tail(toHub), Head(toHub).type \in {"publish", "subscribe"},
         \/ /\ Head(toHub).type = "publish" /\ "hub" \notin known
            /\ known' = known \cup {"hub"} /\ toLeaf' = toLeaf
         \/ "hub" \in known /\ known' = known /\ toLeaf' = Append(toLeaf, Surfs!Subscribed),
         Surfs!Join("hub", {"leaf"}), buffer' = buffer, home' = home, written' = written, waiting' = waiting,
         linked' = linked, sock' = sock, asks' = asks, shown' = shown, broken' = broken
  PROVE  OutputInv'
<1>1. PICK p : PastOf(p)
  BY DEF OutputInv
<1>2. OutTypes
  BY DEF OutputInv
<1>3. toHub \in Seq(OutMessages) /\ toLeaf \in Seq(OutMessages) /\ InTurn(p) /\ FromHome(p) /\ NoneLost(p)
  BY <1>1, <1>2 DEF OutTypes, PastOf
<1>4. toHub' \in Seq(OutMessages) /\ Rising(toHub') /\ Carried(toHub') = Carried(toHub)
  BY <1>3, QueueTaken DEF InTurn
<1>5. toLeaf' \in Seq(OutMessages) /\ Rising(toLeaf') /\ Carried(toLeaf') = Carried(toLeaf)
  <2>1. Surfs!Subscribed \in OutMessages /\ Surfs!Subscribed.type # "output"
    BY OutMessageIs
  <2>2. Rising(toLeaf)
    BY <1>3 DEF InTurn
  <2>3. CASE toLeaf' = toLeaf
    BY <1>3, <2>2, <2>3
  <2>4. CASE toLeaf' = Append(toLeaf, Surfs!Subscribed)
    BY <1>3, <2>1, <2>2, <2>4, OtherSent, QueueGrows
  <2> QED
    BY <2>3, <2>4
<1>6. "hub" \in Ends /\ "hub" \in known' /\ known \subseteq known' /\ known' \subseteq Ends
  BY <1>2 DEF Ends, OutTypes
<1>7. "leaf" \in subscribed'["hub"]
  <2>1. subscribed' = [subscribed EXCEPT !["hub"] = @ \cup {"leaf"}]
    BY DEF Surfs!Join
  <2> QED
    BY <1>2, <1>6, <2>1 DEF OutTypes
<1>8. InTurn(p)'
  BY <1>3, <1>4, <1>5 DEF InTurn
<1>9. FromHome(p)'
  BY <1>3, <1>4, <1>5 DEF FromHome
<1>10. NoneLost(p)'
  <2>1. WentUp(p) => WentUp(p)'
    BY <1>4, <1>5, <1>6, <1>7 DEF WentUp
  <2>2. CameDown(p) => CameDown(p)'
    BY <1>5, <1>7 DEF CameDown
  <2> QED
    BY <1>3, <2>1, <2>2 DEF NoneLost
<1>11. \A v \in {"leaf"} : v \in Surfs!Viewers => Surfs!At(v) = "hub" /\ v \in waiting
  BY AtIs
<1>12. waiting' = waiting \ {"leaf"} /\ {"leaf"} \subseteq Surfs!Viewers \cup {"leaf"}
  BY <1>2, AtIs DEF OutTypes, Surfs!Viewers
<1> QED
  BY <1>1, <1>4, <1>5, <1>6, <1>8, <1>9, <1>10, <1>11, <1>12, JoinKeeps

\* A relay takes a message that changes nothing.
LEMMA IgnoresKeeps ==
  ASSUME OutputInv, NEW p, PastOf(p), toHub' \in Seq(OutMessages), toLeaf' \in Seq(OutMessages),
         InTurn(p)', FromHome(p)', NoneLost(p)', known \subseteq known', known' \subseteq Ends,
         buffer' = buffer, subscribed' = subscribed, lines' = lines, home' = home, written' = written,
         waiting' = waiting, linked' = linked, sock' = sock, asks' = asks, shown' = shown, broken' = broken
  PROVE  OutputInv'
<1>1. OutTypes /\ \A w \in Surfs!Viewers : Attends(w)
  BY DEF OutputInv
<1>2. \A v \in Surfs!Viewers : Streamed(v, p[Surfs!At(v)])'
  BY <1>1, SameStreams
<1>3. PastOf(p)'
  BY <1>1, <1>2, PastKept
<1>4. OutTypes'
  BY <1>1 DEF OutTypes
<1>5. \A w \in Surfs!Viewers : Attends(w)'
  BY <1>1 DEF Attends, Surfs!At
<1> QED
  BY <1>3, <1>4, <1>5 DEF OutputInv

LEMMA HubTakesKeeps ==
  ASSUME OutputInv, Surfs!HubTakes
  PROVE  OutputInv'
<1> DEFINE m == Head(toHub)
<1>1. PICK p : PastOf(p)
  BY DEF OutputInv
<1>2. OutTypes
  BY DEF OutputInv
<1>3. /\ toHub # <<>> /\ toHub' = Tail(toHub) /\ home' = home /\ written' = written /\ waiting' = waiting
      /\ linked' = linked /\ sock' = sock /\ asks' = asks /\ shown' = shown /\ broken' = broken
  BY DEF Surfs!HubTakes, Surfs!viewerVars
<1>4. CASE /\ m.type = "publish" /\ "hub" \notin known /\ known' = known \cup {"hub"}
           /\ Surfs!Join("hub", {"leaf"}) /\ toLeaf' = toLeaf /\ buffer' = buffer
  BY <1>3, <1>4, HubJoinsKeeps
<1>5. CASE /\ m.type = "subscribe" /\ "hub" \in known /\ Surfs!Join("hub", {"leaf"})
           /\ toLeaf' = Append(toLeaf, Surfs!Subscribed) /\ buffer' = buffer /\ known' = known
  BY <1>3, <1>5, HubJoinsKeeps
<1>6. CASE /\ m.type = "output" /\ "hub" \in known /\ Surfs!Emit("hub", m.chunk)
           /\ toLeaf' = Surfs!ToLeaf("hub", m.chunk) /\ known' = known /\ subscribed' = subscribed
  BY <1>3, <1>6, HubSendsKeeps
<1>7. CASE /\ IF m.type = "publish" THEN "hub" \in known ELSE "hub" \notin known
           /\ buffer' = buffer /\ known' = known /\ subscribed' = subscribed /\ lines' = lines /\ toLeaf' = toLeaf
  <2>1. toHub \in Seq(OutMessages) /\ toLeaf \in Seq(OutMessages) /\ InTurn(p) /\ FromHome(p) /\ NoneLost(p)
    BY <1>1, <1>2 DEF OutTypes, PastOf
  <2>2. /\ toHub' \in Seq(OutMessages) /\ Rising(toHub') /\ Carried(toHub') \subseteq Carried(toHub)
        /\ m.type # "output" => Carried(toHub') = Carried(toHub)
    BY <1>3, <2>1, QueueTaken DEF InTurn
  <2>3. InTurn(p)'
    BY <1>7, <2>1, <2>2 DEF InTurn, Before
  <2>4. FromHome(p)'
    BY <1>3, <1>7, <2>1, <2>2 DEF FromHome
  <2>5. NoneLost(p)'
    <3>1. WentUp(p) => WentUp(p)'
      BY <1>3, <1>7, <2>2 DEF WentUp
    <3>2. CameDown(p) => CameDown(p)'
      BY <1>3, <1>7 DEF CameDown
    <3> QED
      BY <1>3, <2>1, <3>1, <3>2 DEF NoneLost
  <2> QED
    BY <1>1, <1>2, <1>3, <1>7, <2>1, <2>2, <2>3, <2>4, <2>5, IgnoresKeeps DEF OutTypes
<1>8. \/ /\ m.type = "publish" /\ "hub" \notin known /\ known' = known \cup {"hub"}
         /\ Surfs!Join("hub", {"leaf"}) /\ toLeaf' = toLeaf /\ buffer' = buffer
      \/ /\ m.type = "subscribe" /\ "hub" \in known /\ Surfs!Join("hub", {"leaf"})
         /\ toLeaf' = Append(toLeaf, Surfs!Subscribed) /\ buffer' = buffer /\ known' = known
      \/ /\ m.type = "output" /\ "hub" \in known /\ Surfs!Emit("hub", m.chunk)
         /\ toLeaf' = Surfs!ToLeaf("hub", m.chunk) /\ known' = known /\ subscribed' = subscribed
      \/ /\ IF m.type = "publish" THEN "hub" \in known ELSE "hub" \notin known
         /\ buffer' = buffer /\ known' = known /\ subscribed' = subscribed /\ lines' = lines /\ toLeaf' = toLeaf
  BY DEF Surfs!HubTakes
<1> HIDE DEF m
<1> QED
  BY <1>4, <1>5, <1>6, <1>7, <1>8

LEMMA LeafTakesKeeps ==
  ASSUME OutputInv, Surfs!LeafTakes
  PROVE  OutputInv'
<1> DEFINE m == Head(toLeaf)
<1>1. PICK p : PastOf(p)
  BY DEF OutputInv
<1>2. OutTypes
  BY DEF OutputInv
<1>3. /\ toLeaf # <<>> /\ toLeaf' = Tail(toLeaf) /\ home' = home /\ written' = written
      /\ linked' = linked /\ sock' = sock /\ asks' = asks /\ shown' = shown /\ broken' = broken
  BY DEF Surfs!LeafTakes, Surfs!viewerVars
<1>4. CASE /\ m.type = "output" /\ Surfs!Emit("leaf", m.chunk) /\ toHub' = toHub
           /\ known' = known /\ subscribed' = subscribed /\ waiting' = waiting
  BY <1>3, <1>4, LeafSendsKeeps
<1>5. CASE /\ m.type \in {"publish", "subscribed"} /\ buffer' = buffer /\ toHub' = toHub
           /\ known' = IF m.type = "publish" THEN known \cup {"leaf"} ELSE known
           /\ IF "leaf" \in known' THEN Surfs!Join("leaf", waiting) /\ waiting' = {}
              ELSE subscribed' = subscribed /\ lines' = lines /\ waiting' = waiting
  <2>1. toHub \in Seq(OutMessages) /\ toLeaf \in Seq(OutMessages) /\ InTurn(p) /\ FromHome(p) /\ NoneLost(p)
    BY <1>1, <1>2 DEF OutTypes, PastOf
  <2>2. toLeaf' \in Seq(OutMessages) /\ Rising(toLeaf') /\ Carried(toLeaf') = Carried(toLeaf)
    BY <1>3, <1>5, <2>1, QueueTaken DEF InTurn
  <2>3. /\ known \subseteq known' /\ known' \subseteq Ends /\ ("hub" \in known' <=> "hub" \in known)
    BY <1>2, <1>5 DEF OutTypes, Ends
  <2>4. "leaf" \in subscribed["hub"] => "leaf" \in subscribed'["hub"]
    <3>1. CASE "leaf" \in known'
      <4>1. subscribed' = [subscribed EXCEPT !["leaf"] = @ \cup waiting]
        BY <1>5, <3>1 DEF Surfs!Join
      <4> QED
        BY <1>2, <4>1 DEF OutTypes, Ends
    <3>2. CASE "leaf" \notin known'
      BY <1>5, <3>2
    <3> QED
      BY <3>1, <3>2
  <2>5. InTurn(p)'
    BY <1>5, <2>1, <2>2 DEF InTurn
  <2>6. FromHome(p)'
    BY <1>3, <1>5, <2>1, <2>2 DEF FromHome
  <2>7. NoneLost(p)'
    <3>1. WentUp(p) => WentUp(p)'
      BY <1>3, <1>5, <2>2, <2>3, <2>4 DEF WentUp
    <3>2. CameDown(p) => CameDown(p)'
      BY <1>3, <2>2, <2>4 DEF CameDown
    <3> QED
      BY <1>3, <2>1, <3>1, <3>2 DEF NoneLost
  <2>8. toHub' \in Seq(OutMessages)
    BY <1>5, <2>1
  <2>9. CASE "leaf" \in known'
    <3>1. "leaf" \in Ends /\ waiting \subseteq LeafViewers /\ waiting \subseteq Surfs!Viewers \cup {"leaf"}
      BY <1>2 DEF Ends, OutTypes, Surfs!Viewers
    <3>2. \A v \in waiting : v \in Surfs!Viewers => Surfs!At(v) = "leaf" /\ v \in waiting
      BY <3>1 DEF Surfs!At
    <3>3. Surfs!Join("leaf", waiting) /\ waiting' = waiting \ waiting
      BY <1>5, <2>9
    <3> QED
      BY <1>1, <1>3, <1>5, <2>2, <2>3, <2>5, <2>6, <2>7, <2>8, <3>1, <3>2, <3>3, JoinKeeps
  <2>10. CASE "leaf" \notin known'
    BY <1>1, <1>3, <1>5, <2>2, <2>3, <2>5, <2>6, <2>7, <2>8, <2>10, IgnoresKeeps
  <2> QED
    BY <2>9, <2>10
<1>6. \/ /\ m.type = "output" /\ Surfs!Emit("leaf", m.chunk) /\ toHub' = toHub
         /\ known' = known /\ subscribed' = subscribed /\ waiting' = waiting
      \/ /\ m.type \in {"publish", "subscribed"} /\ buffer' = buffer /\ toHub' = toHub
         /\ known' = IF m.type = "publish" THEN known \cup {"leaf"} ELSE known
         /\ IF "leaf" \in known' THEN Surfs!Join("leaf", waiting) /\ waiting' = {}
            ELSE subscribed' = subscribed /\ lines' = lines /\ waiting' = waiting
  BY DEF Surfs!LeafTakes, Surfs!SendsOn
<1> HIDE DEF m
<1> QED
  BY <1>4, <1>5, <1>6

LEMMA OutputStepKeeps == OutputInv /\ Surfs!OutputNext => OutputInv'
BY WriteKeeps, HubTakesKeeps, LeafTakesKeeps, LinkKeeps, TakesSubscribeKeeps, WaitEndsKeeps, OpensKeeps, ShowsKeeps,
   ClosesTerminalKeeps, RetriesKeeps DEF Surfs!OutputNext

LEMMA OutputStays ==
  ASSUME OutputInv, UNCHANGED outputVars
  PROVE  OutputInv'
<1>1. PICK p : PastOf(p)
  BY DEF OutputInv
<1>2. OutTypes
  BY DEF OutputInv
<1>3. /\ home' = home /\ written' = written /\ buffer' = buffer /\ known' = known /\ subscribed' = subscribed
      /\ waiting' = waiting /\ linked' = linked /\ toHub' = toHub /\ toLeaf' = toLeaf /\ sock' = sock
      /\ asks' = asks /\ lines' = lines /\ shown' = shown /\ broken' = broken
  BY DEF outputVars
<1>4. InTurn(p)' /\ FromHome(p)' /\ NoneLost(p)'
  BY <1>1, <1>2, <1>3, WayHolds DEF PastOf
<1> QED
  BY <1>1, <1>2, <1>3, <1>4, IgnoresKeeps DEF OutTypes

\* What a terminal shows is what the process wrote, in order: once nothing is on
\* its way to it, the end of it is what its relay would replay; it shows nothing
\* twice but what comes back to a leaf from the hub, and that once; and unless
\* the connection of the leaf was lost it has no gap from the first it shows.
\* For any terminals, output, size of the replay buffer, lost connections and
\* attempts (relay-server.ts:816, relay-integration.ts:413).
THEOREM OutputArrivesCorrect == Spec => [](subject = "output" => ShellsFound)
<1>1. Init => OutputInv
  BY OutputStarts DEF Init
<1>2. OutputInv /\ [Next]_allVars => OutputInv'
  <2> SUFFICES ASSUME OutputInv, [Next]_allVars PROVE OutputInv'
    OBVIOUS
  <2>1. CASE OutputStep
    BY <2>1, OutputStepKeeps DEF OutputStep
  <2>2. CASE UNCHANGED outputVars
    BY <2>2, OutputStays
  <2>3. Next => OutputStep \/ UNCHANGED outputVars
    BY DEF Next, StateStep, ShellsStep, SurfacesStep, SessionsStep, ExtensionsStep, PagesStep, NodesStep
  <2> QED
    BY <2>1, <2>2, <2>3 DEF allVars
<1>3. OutputInv => (subject = "output" => ShellsFound)
  BY OutputInvArrives DEF ShellsFound
<1> QED
  BY <1>1, <1>2, <1>3, PTL DEF Spec

\* So whatever of the two a behaviour is one of: every process nobody stopped is
\* the handle of its instance, a browser that comes back is told of its shells,
\* and their output arrives (relay-server.ts:816, 1128, 2557).
THEOREM ShellsFoundCorrect == Spec => []ShellsFound
<1>1. (subject = "shells" => ShellsFound) /\ (subject = "output" => ShellsFound) => ShellsFound
  BY DEF ShellsFound
<1> QED
  BY <1>1, ShellsKeptCorrect, OutputArrivesCorrect, PTL
=============================================================================
