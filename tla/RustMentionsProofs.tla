------------------------- MODULE RustMentionsProofs -------------------------
(***************************************************************************)
(* parse_mentions computes what it should, for every HTML body: its loop   *)
(* over the tags is a recursive function, whose results are shown by       *)
(* induction on the number of tags that were read.                         *)
(***************************************************************************)
EXTENDS RustActivity, SequenceTheorems, FiniteSetTheorems, WellFoundedInduction,
        TLAPS

\* Induction over the naturals, for a set: a least number outside it would have
\* a predecessor inside.
LEMMA NatSetInduction ==
    ASSUME NEW S, 0 \in S, \A n \in Nat : n \in S => n + 1 \in S
    PROVE  Nat \subseteq S
<1> SUFFICES ASSUME Nat \ S # {} PROVE FALSE
  OBVIOUS
<1>1. PICK x \in Nat \ S : \A y \in Nat \ S : ~(<<y, x>> \in OpToRel(<, Nat))
  BY WFMin, NatLessThanWellFounded
<1>2. x - 1 \in Nat \ S
  OBVIOUS
<1>3. <<x - 1, x>> \in OpToRel(<, Nat)
  BY <1>2 DEF OpToRel
<1> QED
  BY <1>1, <1>2, <1>3
-----------------------------------------------------------------------------
\* Nothing read yet.
Start == [seen |-> {}, people |-> <<>>, groups |-> <<>>]

\* g is what the loop has after each of the first m tags.
Loop(tags, m, g) ==
    g = [n \in 0..m |-> IF n = 0 THEN Start ELSE Noted(g[n - 1], tags[n])]

\* The loop is well defined, however many tags there are.
LEMMA LoopExists ==
    ASSUME NEW tags, NEW m \in Nat
    PROVE  \E g : Loop(tags, m, g)
<1> DEFINE S == {n \in Nat : \E g : Loop(tags, n, g)}
<1>1. 0 \in S
  <2> DEFINE g == [n \in 0..0 |-> Start]
  <2>1. Loop(tags, 0, g)
    BY DEF Loop
  <2> QED
    BY <2>1
<1>2. ASSUME NEW n \in Nat, n \in S PROVE n + 1 \in S
  <2>1. PICK g : Loop(tags, n, g)
    BY <1>2
  <2> DEFINE h == [k \in 0..(n + 1) |-> IF k = n + 1 THEN Noted(g[n], tags[n + 1])
                                        ELSE g[k]]
  <2>2. ASSUME NEW k \in 0..(n + 1)
        PROVE  h[k] = IF k = 0 THEN Start ELSE Noted(h[k - 1], tags[k])
    <3>1. CASE k = n + 1
      BY <3>1
    <3>2. CASE k # n + 1
      <4>1. k \in 0..n /\ h[k] = g[k] /\ (k # 0 => h[k - 1] = g[k - 1])
        BY <3>2
      <4>2. g[k] = IF k = 0 THEN Start ELSE Noted(g[k - 1], tags[k])
        BY <2>1, <4>1 DEF Loop
      <4> QED
        BY <4>1, <4>2
    <3> QED
      BY <3>1, <3>2
  <2>3. h = [k \in 0..(n + 1) |-> h[k]]
    OBVIOUS
  <2> HIDE DEF h
  <2>4. Loop(tags, n + 1, h)
    BY <2>2, <2>3 DEF Loop
  <2> QED
    BY <2>4
<1> HIDE DEF S
<1>3. Nat \subseteq S
  BY <1>1, <1>2, NatSetInduction
<1> QED
  BY <1>3 DEF S

\* Mentions is the end of the loop.
LEMMA MentionsLoop ==
    ASSUME NEW tags, Len(tags) \in Nat
    PROVE  \E g : Loop(tags, Len(tags), g) /\ Mentions(tags) = g[Len(tags)]
<1> DEFINE f == CHOOSE g : Loop(tags, Len(tags), g)
<1>1. Loop(tags, Len(tags), f)
  BY LoopExists
<1>2. Mentions(tags) = f[Len(tags)]
  BY DEF Mentions, Loop, Start
<1> QED
  BY <1>1, <1>2
-----------------------------------------------------------------------------
\* The tags of the type that are read first with their key, among the first n.
Firsts(tags, type, n) ==
    {i \in 1..n : Mentioned(tags[i]) /\ tags[i].type = type /\ FirstOf(tags, i)}

\* Where tag i is listed.
Rank(tags, type, n, i) == Cardinality({j \in Firsts(tags, type, n) : j <= i})

\* The list s of one type after n tags: the ids of the firsts in their order.
InOrder(tags, type, n, s) ==
    /\ \E S : s \in Seq(S)
    /\ Len(s) = Cardinality(Firsts(tags, type, n))
    /\ \A i \in Firsts(tags, type, n) : s[Rank(tags, type, n, i)] = tags[i].id

\* What the loop has after n tags: both lists, and the keys read so far.
Listed(tags, n, acc) ==
    /\ acc.seen = {Key(tags[i]) : i \in {j \in 1..n : Mentioned(tags[j])}}
    /\ InOrder(tags, "person", n, acc.people)
    /\ InOrder(tags, "groupMention", n, acc.groups)

LEMMA FirstsFinite ==
    ASSUME NEW tags, NEW type, NEW n \in Nat
    PROVE  /\ IsFiniteSet(Firsts(tags, type, n))
           /\ Cardinality(Firsts(tags, type, n)) \in Nat
           /\ \A i \in Firsts(tags, type, n) :
                 Rank(tags, type, n, i) \in 1..Cardinality(Firsts(tags, type, n))
<1> DEFINE F == Firsts(tags, type, n)
<1>1. F \subseteq 1..n /\ IsFiniteSet(1..n)
  BY FS_Interval DEF Firsts
<1>2. IsFiniteSet(F) /\ Cardinality(F) \in Nat
  BY <1>1, FS_Subset, FS_CardinalityType
<1>3. ASSUME NEW i \in F
      PROVE  Rank(tags, type, n, i) \in 1..Cardinality(F)
  <2> DEFINE R == {j \in F : j <= i}
  <2>1. R \in SUBSET F /\ i \in R
    BY <1>1
  <2> HIDE DEF F, R
  <2>2. /\ IsFiniteSet(R) /\ Cardinality(R) \in Nat
        /\ Cardinality(R) <= Cardinality(F) /\ Cardinality(R) # 0
    BY <1>2, <2>1, FS_Subset, FS_CardinalityType, FS_EmptySet
  <2> QED
    BY <1>2, <2>2 DEF R, F, Rank
<1> QED
  BY <1>2, <1>3

\* A tag that is no first of the type leaves its list as it is,
LEMMA NotFirst ==
    ASSUME NEW tags, NEW type, NEW n \in Nat, NEW s, InOrder(tags, type, n, s),
           n + 1 \notin Firsts(tags, type, n + 1)
    PROVE  InOrder(tags, type, n + 1, s)
<1>1. Firsts(tags, type, n + 1) = Firsts(tags, type, n)
  BY DEF Firsts
<1> QED
  BY <1>1 DEF InOrder, Rank

\* and a first of the type is appended to it.
LEMMA First ==
    ASSUME NEW tags, NEW type, NEW n \in Nat, NEW s, InOrder(tags, type, n, s),
           n + 1 \in Firsts(tags, type, n + 1)
    PROVE  InOrder(tags, type, n + 1, Append(s, tags[n + 1].id))
<1> DEFINE F == Firsts(tags, type, n)
           G == Firsts(tags, type, n + 1)
           id == tags[n + 1].id
           r == Append(s, id)
<1>1. PICK S : s \in Seq(S)
  BY DEF InOrder
<1>2. F \subseteq 1..n /\ G = F \cup {n + 1} /\ n + 1 \notin F
  BY DEF Firsts
<1>3. IsFiniteSet(F) /\ Cardinality(F) \in Nat /\ Len(s) = Cardinality(F)
  BY FirstsFinite DEF InOrder
<1>4. Cardinality(G) = Cardinality(F) + 1
  BY <1>2, <1>3, FS_AddElement
<1>5. /\ r \in Seq(S \cup {id}) /\ Len(r) = Len(s) + 1
      /\ \A k \in 1..Len(s) : r[k] = s[k]
      /\ r[Len(s) + 1] = id
  <2>1. s \in Seq(S \cup {id})
    BY <1>1
  <2> QED
    BY <2>1, AppendProperties, LenProperties
<1> HIDE DEF r
<1>6. ASSUME NEW i \in G PROVE r[Rank(tags, type, n + 1, i)] = tags[i].id
  <2>1. CASE i = n + 1
    <3>1. {j \in G : j <= i} = G
      BY <1>2, <2>1
    <3> QED
      BY <1>3, <1>4, <1>5, <2>1, <3>1 DEF Rank
  <2>2. CASE i \in F
    <3>1. {j \in G : j <= i} = {j \in F : j <= i}
      BY <1>2, <2>2
    <3>2. Rank(tags, type, n + 1, i) = Rank(tags, type, n, i)
      BY <3>1 DEF Rank
    <3>3. Rank(tags, type, n, i) \in 1..Len(s)
      BY <1>3, <2>2, FirstsFinite
    <3> QED
      BY <1>5, <2>2, <3>2, <3>3 DEF InOrder
  <2> QED
    BY <1>2, <2>1, <2>2
<1> HIDE DEF F, G
<1> QED
  BY <1>3, <1>4, <1>5, <1>6 DEF InOrder, r, G

\* Reading one more tag keeps the lists and the keys right.
LEMMA ListedStep ==
    ASSUME NEW tags, NEW n \in Nat, NEW acc, Listed(tags, n, acc)
    PROVE  Listed(tags, n + 1, Noted(acc, tags[n + 1]))
<1> DEFINE tag == tags[n + 1]
           Keys(m) == {Key(tags[i]) : i \in {j \in 1..m : Mentioned(tags[j])}}
           G(type) == Firsts(tags, type, n + 1)
<1>1. FirstOf(tags, n + 1) <=> Key(tag) \notin acc.seen
  BY DEF Listed, FirstOf
<1>2. \A type : n + 1 \in G(type) <=>
        Mentioned(tag) /\ tag.type = type /\ Key(tag) \notin acc.seen
  BY <1>1 DEF Firsts
<1>3. Keys(n + 1) = IF Mentioned(tag) THEN Keys(n) \cup {Key(tag)} ELSE Keys(n)
  <2>1. 1..(n + 1) = 1..n \cup {n + 1}
    OBVIOUS
  <2> QED
    BY <2>1
<1>4. CASE ~(Mentioned(tag) /\ Key(tag) \notin acc.seen)
  <2>1. Noted(acc, tag) = acc
    BY <1>4 DEF Noted
  <2>2. acc.seen = Keys(n + 1)
    BY <1>3, <1>4 DEF Listed
  <2>3. /\ InOrder(tags, "person", n + 1, acc.people)
        /\ InOrder(tags, "groupMention", n + 1, acc.groups)
    BY <1>2, <1>4, NotFirst DEF Listed
  <2> QED
    BY <2>1, <2>2, <2>3 DEF Listed
<1>5. CASE Mentioned(tag) /\ Key(tag) \notin acc.seen
  <2> DEFINE next == Listing(acc, tag)
  <2>1. Noted(acc, tag) = next
    BY <1>5 DEF Noted
  <2>2. /\ next.seen = acc.seen \cup {Key(tag)}
        /\ next.people = IF tag.type = "person" THEN Append(acc.people, tag.id)
                                                ELSE acc.people
        /\ next.groups = IF tag.type = "person" THEN acc.groups
                                                ELSE Append(acc.groups, tag.id)
    BY DEF Listing
  <2> HIDE DEF next
  <2>3. next.seen = Keys(n + 1)
    BY <1>3, <1>5, <2>2 DEF Listed
  <2>4. tag.type = "person" \/ tag.type = "groupMention"
    BY <1>5 DEF Mentioned
  <2>5. InOrder(tags, "person", n + 1, next.people)
    BY <1>2, <1>5, <2>2, <2>4, First, NotFirst DEF Listed
  <2>6. InOrder(tags, "groupMention", n + 1, next.groups)
    BY <1>2, <1>5, <2>2, <2>4, First, NotFirst DEF Listed
  <2> QED
    BY <2>1, <2>3, <2>5, <2>6 DEF Listed
<1> QED
  BY <1>4, <1>5

\* The mentions that parse_mentions lists are those of the tags, each key once,
\* in the order of their first occurrence, for every sequence of tags; the keys
\* of persons and of groups share one set.
THEOREM MentionsListed ==
    ASSUME NEW T, NEW tags \in Seq(T)
    PROVE  Listed(tags, Len(tags), Mentions(tags))
<1> DEFINE N == Len(tags)
<1>1. N \in Nat
  BY LenProperties
<1>2. PICK g : Loop(tags, N, g) /\ Mentions(tags) = g[N]
  BY <1>1, MentionsLoop
<1> HIDE DEF N
<1> DEFINE S == {n \in Nat : n <= N => Listed(tags, n, g[n])}
<1>3. 0 \in S
  <2>1. g[0] = Start
    BY <1>1, <1>2 DEF Loop
  <2>2. \A type : Firsts(tags, type, 0) = {}
    BY DEF Firsts
  <2>3. Listed(tags, 0, Start)
    <3>1. /\ <<>> \in Seq({}) /\ Len(<<>>) = 0 /\ 1..0 = {}
          /\ Start.seen = {} /\ Start.people = <<>> /\ Start.groups = <<>>
      BY EmptySeq DEF Start
    <3>2. \A type : InOrder(tags, type, 0, <<>>)
      BY <2>2, <3>1, FS_EmptySet DEF InOrder
    <3> QED
      BY <3>1, <3>2 DEF Listed
  <2> QED
    BY <2>1, <2>3
<1>4. ASSUME NEW n \in Nat, n \in S PROVE n + 1 \in S
  <2> SUFFICES ASSUME n + 1 <= N PROVE Listed(tags, n + 1, g[n + 1])
    OBVIOUS
  <2>1. g[n + 1] = Noted(g[n], tags[n + 1])
    BY <1>1, <1>2 DEF Loop
  <2>2. Listed(tags, n, g[n])
    BY <1>1, <1>4
  <2> QED
    BY <2>1, <2>2, ListedStep
<1> HIDE DEF S
<1>5. N \in S
  BY <1>1, <1>3, <1>4, NatSetInduction
<1> QED
  BY <1>1, <1>2, <1>5 DEF S, N
=============================================================================
