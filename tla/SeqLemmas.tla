------------------------------ MODULE SeqLemmas ------------------------------
(***************************************************************************)
(* Lemmas about the message lists of the code, which are changed by        *)
(* AddTail (Append), RemoveHead (Tail) and RemoveAt.                       *)
(***************************************************************************)
EXTENDS Integers, Sequences, SequencesExt, SequenceTheorems, TLAPS

\* At most one message of s is in W.
Single(s, W) == \A i, j \in DOMAIN s : s[i] \in W /\ s[j] \in W => i = j

\* RemoveAt of a message list (m_list_msg_recv.RemoveAt) yields a list of
\* messages that is one shorter, with the others in their order.
LEMMA RemoveAtType ==
  ASSUME NEW S, NEW q \in Seq(S), NEW i \in 1 .. Len(q)
  PROVE  /\ RemoveAt(q, i) \in Seq(S) /\ Len(RemoveAt(q, i)) = Len(q) - 1
         /\ \A j \in 1 .. Len(q) - 1 :
              RemoveAt(q, i)[j] = IF j < i THEN q[j] ELSE q[j + 1]
<1> DEFINE u == SubSeq(q, 1, i - 1)
           v == SubSeq(q, i + 1, Len(q))
<1>1. /\ u \in Seq(S) /\ Len(u) = i - 1
      /\ \A j \in 1 .. i - 1 : u[j] = q[j]
  <2>1. \A j \in 1 .. i - 1 : q[j] \in S
    BY LenProperties
  <2>2. QED
    BY <2>1, SubSeqProperties, LenProperties
<1>2. /\ v \in Seq(S) /\ Len(v) = Len(q) - i
      /\ \A j \in 1 .. Len(q) - i : v[j] = q[i + j]
  <2>1. \A j \in i + 1 .. Len(q) : q[j] \in S
    BY LenProperties
  <2>2. QED
    BY <2>1, SubSeqProperties, LenProperties
<1>3. Len(q) \in Nat /\ i \in Nat
  BY LenProperties
<1>4. RemoveAt(q, i) = u \o v
  BY DEF RemoveAt
<1> HIDE DEF u, v
<1>5. /\ u \o v \in Seq(S) /\ Len(u \o v) = Len(u) + Len(v)
      /\ \A j \in 1 .. Len(u) + Len(v) :
           (u \o v)[j] = IF j <= Len(u) THEN u[j] ELSE v[j - Len(u)]
  BY <1>1, <1>2, ConcatProperties
<1>6. \A j \in 1 .. Len(q) - 1 : (u \o v)[j] = IF j < i THEN q[j] ELSE q[j + 1]
  BY <1>1, <1>2, <1>3, <1>5
<1>7. QED
  BY <1>1, <1>2, <1>3, <1>4, <1>5, <1>6

\* A list of messages is one of a larger set of messages.
LEMMA SeqWiden ==
  ASSUME NEW S, NEW T, S \subseteq T, NEW q \in Seq(S)
  PROVE  q \in Seq(T)
  BY LenProperties, SeqDef

\* A list all of whose messages are in T is a list over T.
LEMMA SeqNarrow ==
  ASSUME NEW S, NEW T, NEW q \in Seq(S), \A i \in DOMAIN q : q[i] \in T
  PROVE  q \in Seq(T)
  BY LenProperties, SeqDef

\* Adding a message of W to a list that has none leaves one.
LEMMA AppendSingle ==
  ASSUME NEW S, NEW W, NEW q \in Seq(S \ W), NEW x
  PROVE  Single(Append(q, x), W)
<1>1. \A i \in DOMAIN q : q[i] \notin W
  BY LenProperties
<1>2. /\ Len(q) \in Nat
      /\ DOMAIN Append(q, x) = 1 .. Len(q) + 1
      /\ \A i \in 1 .. Len(q) : Append(q, x)[i] = q[i]
  <2>1. q \in Seq((S \ W) \cup {x})
    BY SeqWiden
  <2> QED
    BY <2>1, AppendProperties, LenProperties
<1>3. QED
  BY <1>1, <1>2, LenProperties DEF Single

\* Adding any other message to a list with at most one of W keeps that.
LEMMA AppendOther ==
  ASSUME NEW S, NEW W, NEW q \in Seq(S), Single(q, W), NEW x \in S, x \notin W
  PROVE  Single(Append(q, x), W)
<1>1. /\ Len(q) \in Nat /\ DOMAIN q = 1 .. Len(q)
      /\ DOMAIN Append(q, x) = 1 .. Len(q) + 1
      /\ \A i \in 1 .. Len(q) : Append(q, x)[i] = q[i]
      /\ Append(q, x)[Len(q) + 1] = x
  BY AppendProperties, LenProperties
<1>2. QED
  BY <1>1 DEF Single

\* Without its head a list still has at most one message of W, and none if
\* the head was the one.
LEMMA TailSingle ==
  ASSUME NEW S, NEW W, NEW q \in Seq(S), q # <<>>, Single(q, W)
  PROVE  /\ Single(Tail(q), W)
         /\ Head(q) \in W => Tail(q) \in Seq(S \ W)
<1>1. /\ Len(q) \in Nat /\ DOMAIN q = 1 .. Len(q) /\ Len(q) > 0
      /\ Tail(q) \in Seq(S) /\ DOMAIN Tail(q) = 1 .. Len(q) - 1
      /\ \A i \in 1 .. Len(q) - 1 : Tail(q)[i] = q[i + 1]
      /\ Head(q) = q[1]
  BY HeadTailProperties, LenProperties, EmptySeq
<1>2. Single(Tail(q), W)
  BY <1>1 DEF Single
<1>3. ASSUME Head(q) \in W PROVE Tail(q) \in Seq(S \ W)
  <2>1. \A i \in DOMAIN Tail(q) : Tail(q)[i] \in S \ W
    BY <1>1, <1>3 DEF Single
  <2> QED
    BY <1>1, <2>1, SeqNarrow
<1>4. QED
  BY <1>2, <1>3

\* Without its message of W a list that has at most one of them has none.
LEMMA RemoveSingle ==
  ASSUME NEW S, NEW W, NEW q \in Seq(S), Single(q, W),
         NEW i \in 1 .. Len(q), q[i] \in W
  PROVE  RemoveAt(q, i) \in Seq(S \ W)
<1>1. /\ Len(q) \in Nat /\ DOMAIN q = 1 .. Len(q)
      /\ RemoveAt(q, i) \in Seq(S)
      /\ DOMAIN RemoveAt(q, i) = 1 .. Len(q) - 1
      /\ \A j \in 1 .. Len(q) - 1 :
           RemoveAt(q, i)[j] = IF j < i THEN q[j] ELSE q[j + 1]
  BY RemoveAtType, LenProperties
<1>2. \A j \in DOMAIN RemoveAt(q, i) : RemoveAt(q, i)[j] \in S \ W
  BY <1>1, LenProperties DEF Single
<1>3. QED
  BY <1>1, <1>2, SeqNarrow
=============================================================================
