------------------------- MODULE SubstitutionProofs -------------------------
(***************************************************************************)
(* What a set and a remove do to a document, for every path, document and  *)
(* value.  The paths are those of rules: they have no projection.          *)
(*                                                                         *)
(* A claim about every node on a path is an induction up or down to its    *)
(* length, by a least counterexample.  A set and a remove change one       *)
(* branch of a document: a path that leaves it reads on the same nodes.    *)
(***************************************************************************)
EXTENDS Substitution, WellFoundedInduction, SequenceTheorems,
    FiniteSetTheorems, TLAPS

\* A set of positions has a least member.
LEMMA LeastMember ==
    ASSUME NEW S \in SUBSET Nat, S # {}
    PROVE  \E i \in S : \A j \in S : i <= j
  <1> DEFINE Less == {ss \in Nat \X Nat : ss[1] < ss[2]}
  <1>1. IsWellFoundedOn(Less, Nat)
    BY NatLessThanWellFounded, Zenon DEF OpToRel
  <1>2. PICK i \in S : \A j \in S : <<j, i>> \notin Less
    <2> HIDE DEF Less
    <2> QED  BY <1>1, WFMin
  <1>3. \A j \in S : i <= j
    <2> TAKE j \in S
    <2>1. i \in Nat /\ j \in Nat /\ ~ (j < i)
      BY <1>2
    <2> QED  BY <2>1
  <1> QED  BY <1>3

\* Induction up to a bound, from a least counterexample.
LEMMA Upward ==
    ASSUME NEW n \in Nat, NEW S, 0 \in S,
           \A i \in 0 .. n - 1 : i \in S => i + 1 \in S
    PROVE  \A i \in 0 .. n : i \in S
  <1> DEFINE T == {i \in 0 .. n : i \notin S}
  <1>1. SUFFICES ASSUME T # {} PROVE FALSE
    OBVIOUS
  <1>2. T \in SUBSET Nat
    OBVIOUS
  <1>3. PICK i \in T : \A j \in T : i <= j
    BY <1>1, <1>2, LeastMember
  <1>4. i - 1 \in 0 .. n - 1 /\ i - 1 \notin T
    BY <1>3
  <1> QED  BY <1>3, <1>4

\* Induction down from a bound.
LEMMA Downward ==
    ASSUME NEW n \in Nat, NEW S, n \in S,
           \A i \in 1 .. n - 1 : i + 1 \in S => i \in S
    PROVE  \A i \in 1 .. n : i \in S
  <1> DEFINE T == {i \in 0 .. n : i = n \/ n - i \in S}
  <1>1. 0 \in T
    OBVIOUS
  <1>2. ASSUME NEW i \in 0 .. n - 1, i \in T PROVE i + 1 \in T
    <2>1. CASE i + 1 = n
      BY <2>1
    <2>2. CASE i + 1 # n
      <3>1. n - i \in S /\ n - (i + 1) \in 1 .. n - 1 /\ (n - (i + 1)) + 1 = n - i
        BY <1>2, <2>2
      <3>2. n - (i + 1) \in S
        BY <3>1
      <3> QED  BY <3>2
    <2> QED  BY <2>1, <2>2
  <1>3. \A i \in 0 .. n : i \in T
    <2> HIDE DEF T
    <2> QED  BY <1>1, <1>2, Upward
  <1>4. ASSUME NEW i \in 1 .. n PROVE i \in S
    <2>1. n - i \in 0 .. n /\ n - i # n /\ n - (n - i) = i
      OBVIOUS
    <2>2. n - i \in T
      BY <2>1, <1>3
    <2> QED  BY <2>1, <2>2
  <1> QED  BY <1>4

---------------------------------------------------------------------------
(* The recursive functions.                                                *)

\* The nodes along a path are what their definition says, one by one.
LEMMA NodesStep ==
    ASSUME NEW path, NEW doc, Len(path) \in Nat
    PROVE  /\ Nodes(path, doc)[0] = doc
           /\ \A i \in 1 .. Len(path) :
                Nodes(path, doc)[i] = Child(Nodes(path, doc)[i - 1], path[i])
  <1> DEFINE Along(at, m) ==
        at = [i \in 0 .. m |-> IF i = 0 THEN doc ELSE Child(at[i - 1], path[i])]
      S == {m \in Nat : \E at : Along(at, m)}
  <1>1. 0 \in S
    <2>1. Along([i \in {0} |-> doc], 0)
      OBVIOUS
    <2> QED  BY <2>1
  <1>2. ASSUME NEW m \in 0 .. Len(path) - 1, m \in S PROVE m + 1 \in S
    <2>1. PICK at : Along(at, m)
      BY <1>2
    <2> DEFINE g == [i \in 0 .. m + 1 |-> IF i = m + 1 THEN Child(at[m], path[m + 1]) ELSE at[i]]
    <2>2. \A i \in 0 .. m : g[i] = at[i] /\ at[i] = IF i = 0 THEN doc ELSE Child(at[i - 1], path[i])
      BY <2>1
    <2>3. g = [i \in 0 .. m + 1 |-> g[i]] /\ g[m + 1] = Child(at[m], path[m + 1])
      OBVIOUS
    <2> HIDE DEF g
    <2>4. ASSUME NEW i \in 0 .. m + 1
          PROVE  g[i] = IF i = 0 THEN doc ELSE Child(g[i - 1], path[i])
      <3>1. CASE i = m + 1
        <4>1. i # 0 /\ i - 1 = m /\ g[m] = at[m]
          BY <2>2, <3>1
        <4> QED  BY <2>3, <3>1, <4>1
      <3>2. CASE i \in 0 .. m
        <4>1. i # 0 => i - 1 \in 0 .. m
          BY <3>2
        <4> QED  BY <2>2, <3>2, <4>1
      <3> QED  BY <3>1, <3>2
    <2>5. Along(g, m + 1)
      BY <2>3, <2>4
    <2>6. m + 1 \in Nat
      OBVIOUS
    <2> QED  BY <2>5, <2>6
  <1>3. Len(path) \in S
    <2> HIDE DEF S
    <2>1. \A i \in 0 .. Len(path) : i \in S
      BY <1>1, <1>2, Upward
    <2> QED  BY <2>1
  <1>4. Nodes(path, doc) = CHOOSE at : Along(at, Len(path))
    BY DEF Nodes
  <1>5. Along(Nodes(path, doc), Len(path))
    BY <1>3, <1>4
  <1> HIDE DEF S
  <1> QED  BY <1>5

\* ... so are the nodes on the way to its end,
LEMMA WayStep ==
    ASSUME NEW path, NEW doc, NEW n \in Nat, Len(path) = n + 1
    PROVE  /\ Way(doc, path)[0] = doc
           /\ \A i \in 1 .. n :
                Way(doc, path)[i] = Onward(Way(doc, path)[i - 1], path[i], path[i + 1])
  <1> DEFINE Along(at, m) ==
        at = [i \in 0 .. m |-> IF i = 0 THEN doc ELSE Onward(at[i - 1], path[i], path[i + 1])]
      S == {m \in Nat : \E at : Along(at, m)}
  <1>1. 0 \in S
    <2>1. Along([i \in {0} |-> doc], 0)
      OBVIOUS
    <2> QED  BY <2>1
  <1>2. ASSUME NEW m \in 0 .. n - 1, m \in S PROVE m + 1 \in S
    <2>1. PICK at : Along(at, m)
      BY <1>2
    <2> DEFINE last == Onward(at[m], path[m + 1], path[m + 2])
               g == [i \in 0 .. m + 1 |-> IF i = m + 1 THEN last ELSE at[i]]
    <2>2. \A i \in 0 .. m :
             g[i] = at[i] /\ at[i] = IF i = 0 THEN doc ELSE Onward(at[i - 1], path[i], path[i + 1])
      BY <2>1
    <2>3. g = [i \in 0 .. m + 1 |-> g[i]] /\ g[m + 1] = last
      OBVIOUS
    <2> HIDE DEF g
    <2>4. ASSUME NEW i \in 0 .. m + 1
          PROVE  g[i] = IF i = 0 THEN doc ELSE Onward(g[i - 1], path[i], path[i + 1])
      <3>1. CASE i = m + 1
        <4>1. i # 0 /\ i - 1 = m /\ i + 1 = m + 2 /\ g[m] = at[m]
          BY <2>2, <3>1
        <4> QED  BY <2>3, <3>1, <4>1
      <3>2. CASE i \in 0 .. m
        <4>1. i # 0 => i - 1 \in 0 .. m
          BY <3>2
        <4> QED  BY <2>2, <3>2, <4>1
      <3> QED  BY <3>1, <3>2
    <2>5. Along(g, m + 1)
      BY <2>3, <2>4
    <2>6. m + 1 \in Nat
      OBVIOUS
    <2> QED  BY <2>5, <2>6
  <1>3. n \in S
    <2> HIDE DEF S
    <2>1. \A i \in 0 .. n : i \in S
      BY <1>1, <1>2, Upward
    <2> QED  BY <2>1
  <1>4. Len(path) - 1 = n
    OBVIOUS
  <1>5. Way(doc, path) = CHOOSE at : Along(at, n)
    BY <1>4 DEF Way
  <1>6. Along(Way(doc, path), n)
    BY <1>3, <1>5
  <1> HIDE DEF S
  <1> QED  BY <1>6

\* ... the nodes rebuilt above a new end,
LEMMA RaisedStep ==
    ASSUME NEW path, NEW doc, NEW end, NEW n \in Nat, n # 0,
           Len(path) = n, DOMAIN path = 1 .. n
    PROVE  /\ Raised(doc, path, end)[n] = end
           /\ \A i \in 1 .. n - 1 :
                Raised(doc, path, end)[i] = Put(Way(doc, path)[i - 1], path[i],
                                                Raised(doc, path, end)[i + 1], Fresh(path[i + 1]))
  <1> DEFINE at == Way(doc, path)
      Next(i, up) == Put(at[i - 1], path[i], up, Fresh(path[i + 1]))
      Along(up, m) == up = [i \in m .. n |-> IF i = n THEN end ELSE Next(i, up[i + 1])]
      S == {m \in Nat : \E up : Along(up, m)}
  <1>1. n \in S
    <2>1. Along([i \in {n} |-> end], n)
      OBVIOUS
    <2> QED  BY <2>1
  <1> HIDE DEF at
  <1>2. ASSUME NEW m \in 1 .. n - 1, m + 1 \in S PROVE m \in S
    <2>1. PICK up : Along(up, m + 1)
      BY <1>2
    <2> DEFINE first == Next(m, up[m + 1])
               g == [i \in m .. n |-> IF i = m THEN first ELSE up[i]]
    <2> HIDE DEF Next
    <2>2. \A i \in m + 1 .. n :
             g[i] = up[i] /\ up[i] = IF i = n THEN end ELSE Next(i, up[i + 1])
      BY <2>1
    <2>3. g = [i \in m .. n |-> g[i]] /\ g[m] = first
      OBVIOUS
    <2> HIDE DEF g
    <2>4. ASSUME NEW i \in m .. n
          PROVE  g[i] = IF i = n THEN end ELSE Next(i, g[i + 1])
      <3>1. CASE i = m
        <4>1. i # n /\ i + 1 \in m + 1 .. n /\ g[i + 1] = up[m + 1]
          BY <2>2, <3>1
        <4> QED  BY <2>3, <3>1, <4>1
      <3>2. CASE i \in m + 1 .. n
        <4>1. i # n => i + 1 \in m + 1 .. n
          BY <3>2
        <4> QED  BY <2>2, <3>2, <4>1
      <3> QED  BY <3>1, <3>2
    <2>5. Along(g, m)
      BY <2>3, <2>4
    <2>6. m \in Nat
      OBVIOUS
    <2> QED  BY <2>5, <2>6
  <1>3. 1 \in S
    <2> HIDE DEF S
    <2>1. \A i \in 1 .. n : i \in S
      BY <1>1, <1>2, Downward
    <2> QED  BY <2>1
  <1>4. Raised(doc, path, end) = CHOOSE up : Along(up, 1)
    BY DEF Raised, at
  <1>5. Along(Raised(doc, path, end), 1)
    BY <1>3, <1>4
  <1> HIDE DEF S
  <1> QED  BY <1>5 DEF at

\* ... and the documents between the rules.
LEMMA ResultsStep ==
    ASSUME NEW rules, NEW doc, Len(rules) \in Nat
    PROVE  /\ Results(doc, rules)[0] = doc
           /\ \A i \in 1 .. Len(rules) :
                Results(doc, rules)[i] = Rewritten(Results(doc, rules)[i - 1], rules[i])
  <1> DEFINE Along(at, m) ==
        at = [i \in 0 .. m |-> IF i = 0 THEN doc ELSE Rewritten(at[i - 1], rules[i])]
      S == {m \in Nat : \E at : Along(at, m)}
  <1>1. 0 \in S
    <2>1. Along([i \in {0} |-> doc], 0)
      OBVIOUS
    <2> QED  BY <2>1
  <1>2. ASSUME NEW m \in 0 .. Len(rules) - 1, m \in S PROVE m + 1 \in S
    <2>1. PICK at : Along(at, m)
      BY <1>2
    <2> DEFINE last == Rewritten(at[m], rules[m + 1])
               g == [i \in 0 .. m + 1 |-> IF i = m + 1 THEN last ELSE at[i]]
    <2>2. \A i \in 0 .. m :
             g[i] = at[i] /\ at[i] = IF i = 0 THEN doc ELSE Rewritten(at[i - 1], rules[i])
      BY <2>1
    <2>3. g = [i \in 0 .. m + 1 |-> g[i]] /\ g[m + 1] = last
      OBVIOUS
    <2> HIDE DEF g
    <2>4. ASSUME NEW i \in 0 .. m + 1
          PROVE  g[i] = IF i = 0 THEN doc ELSE Rewritten(g[i - 1], rules[i])
      <3>1. CASE i = m + 1
        <4>1. i # 0 /\ i - 1 = m /\ g[m] = at[m]
          BY <2>2, <3>1
        <4> QED  BY <2>3, <3>1, <4>1
      <3>2. CASE i \in 0 .. m
        <4>1. i # 0 => i - 1 \in 0 .. m
          BY <3>2
        <4> QED  BY <2>2, <3>2, <4>1
      <3> QED  BY <3>1, <3>2
    <2>5. Along(g, m + 1)
      BY <2>3, <2>4
    <2>6. m + 1 \in Nat
      OBVIOUS
    <2> QED  BY <2>5, <2>6
  <1>3. Len(rules) \in S
    <2> HIDE DEF S
    <2>1. \A i \in 0 .. Len(rules) : i \in S
      BY <1>1, <1>2, Upward
    <2> QED  BY <2>1
  <1>4. Results(doc, rules) = CHOOSE at : Along(at, Len(rules))
    BY DEF Results
  <1>5. Along(Results(doc, rules), Len(rules))
    BY <1>3, <1>4
  <1> HIDE DEF S
  <1> QED  BY <1>5

---------------------------------------------------------------------------
(* Documents.                                                              *)

\* Objects whose values are in D.
Objects(D, Keys) == UNION {[K -> D] : K \in {K \in SUBSET Keys : IsFiniteSet(K)}}

\* D is a set of documents, closed under what makes documents of others.
Documents(D, Keys, Chars) ==
    /\ \A d \in D :
         /\ d.t \in {"null", "num", "str", "obj", "list"}
         /\ d.t = "num" => ToString(d.n) \in Chars
         /\ d.t = "str" => d.s \in Seq(Chars)
         /\ d.t = "obj" => d.f \in Objects(D, Keys)
         /\ d.t = "list" => d.l \in Seq(D)
    /\ {"None", "JSON"} \subseteq Chars
    /\ Null \in D
    /\ \A s \in Seq(Chars) : Str(s) \in D
    /\ \A f \in Objects(D, Keys) : Obj(f) \in D
    /\ \A l \in Seq(D) : List(l) \in D

\* The three indexes are different positions.
LEMMA IndexRange ==
    /\ \A seg \in Digits : Index(seg) \in 1 .. 3
    /\ \A s, seg \in Digits : Index(s) = Index(seg) => s = seg
  <1>1. Index("0") = 1 /\ Index("1") = 2 /\ Index("2") = 3
    BY DEF Index
  <1> QED  BY <1>1 DEF Digits

\* An object has finitely many keys, each with a document.
LEMMA ObjectParts ==
    ASSUME NEW D, NEW Keys, NEW f \in Objects(D, Keys)
    PROVE  /\ DOMAIN f \in SUBSET Keys /\ IsFiniteSet(DOMAIN f)
           /\ \A k \in DOMAIN f : f[k] \in D
  <1>1. PICK K \in {K \in SUBSET Keys : IsFiniteSet(K)} : f \in [K -> D]
    BY DEF Objects
  <1> QED  BY <1>1

\* A created container is a document.
LEMMA FreshType ==
    ASSUME NEW D, NEW Keys, NEW Chars, Documents(D, Keys, Chars), NEW seg
    PROVE  Fresh(seg) \in D
  <1>1. <<>> \in Seq(D)
    OBVIOUS
  <1>2. [k \in {} |-> Null] \in Objects(D, Keys)
    <2>1. {} \in {K \in SUBSET Keys : IsFiniteSet(K)}
      BY FS_EmptySet
    <2>2. [k \in {} |-> Null] \in [{} -> D]
      OBVIOUS
    <2> QED  BY <2>1, <2>2 DEF Objects
  <1> QED  BY <1>1, <1>2 DEF Fresh, Documents

\* What a document has is a document,
LEMMA ItemType ==
    ASSUME NEW D, NEW Keys, NEW Chars, Documents(D, Keys, Chars), NEW d \in D, NEW seg, Has(d, seg)
    PROVE  Item(d, seg) \in D
  <1>1. CASE d.t = "obj"
    <2>1. d.f \in Objects(D, Keys)
      BY <1>1 DEF Documents
    <2>2. seg \in DOMAIN d.f
      BY <1>1 DEF Has
    <2>3. d.f[seg] \in D
      BY <2>1, <2>2, ObjectParts
    <2> QED  BY <1>1, <2>3 DEF Item
  <1>2. CASE d.t # "obj"
    <2>1. d.t = "list" /\ seg \in Digits /\ Index(seg) <= Len(d.l)
      BY <1>2 DEF Has
    <2>2. d.l \in Seq(D)
      BY <2>1 DEF Documents
    <2>3. Index(seg) \in 1 .. Len(d.l)
      BY <2>1, <2>2, IndexRange
    <2>4. d.l[Index(seg)] \in D
      BY <2>2, <2>3
    <2> QED  BY <1>2, <2>4 DEF Item
  <1> QED  BY <1>1, <1>2

\* ... and so is what a look-up finds in it.
LEMMA ChildType ==
    ASSUME NEW D, NEW Keys, NEW Chars, Documents(D, Keys, Chars), NEW d \in D, NEW seg
    PROVE  Child(d, seg) \in D
  <1>1. Null \in D
    BY DEF Documents
  <1> QED  BY <1>1, ItemType DEF Child

\* Nothing is found in a null or in a created container.
LEMMA ChildOfEmpty ==
    ASSUME NEW seg
    PROVE  /\ Child(Null, seg) = Null
           /\ \A s : ~Has(Fresh(s), seg) /\ Child(Fresh(s), seg) = Null
           /\ \A s : Fresh(s) \in {Fresh("a"), Fresh("0")}
  <1>1. Null.t = "null"
    BY DEF Null
  <1>2. ASSUME NEW s PROVE ~Has(Fresh(s), seg)
    <2>1. CASE s \in Digits
      <3>1. Fresh(s).t = "list" /\ Fresh(s).l = <<>>
        BY <2>1 DEF Fresh, List
      <3> QED  BY <3>1, IndexRange DEF Has
    <2>2. CASE s \notin Digits
      <3>1. Fresh(s).t = "obj" /\ DOMAIN Fresh(s).f = {}
        BY <2>2 DEF Fresh, Obj
      <3> QED  BY <3>1 DEF Has
    <2> QED  BY <2>1, <2>2
  <1>3. ASSUME NEW s PROVE Fresh(s) \in {Fresh("a"), Fresh("0")}
    BY DEF Fresh, Digits
  <1> QED  BY <1>1, <1>2, <1>3 DEF Child, Has

\* A put is read back, but by an index of an object.
LEMMA PutRead ==
    ASSUME NEW d, NEW seg, NEW v, NEW filler, Accepts(d, seg),
           d.t = "list" => Len(d.l) \in Nat
    PROVE  Child(Put(d, seg, v, filler), seg) = IF d.t = "obj" /\ seg \in Digits THEN Null ELSE v
  <1>1. CASE d.t = "obj"
    <2> DEFINE f == [k \in DOMAIN d.f \cup {seg} |-> IF k = seg THEN v ELSE d.f[k]]
    <2>1. Put(d, seg, v, filler) = Obj(f)
      BY <1>1 DEF Put
    <2>2. seg \in DOMAIN f /\ f[seg] = v
      OBVIOUS
    <2> HIDE DEF f
    <2>3. Obj(f).t = "obj" /\ Obj(f).f = f
      BY DEF Obj
    <2> QED  BY <1>1, <2>1, <2>2, <2>3 DEF Child, Has, Item
  <1>2. CASE d.t # "obj"
    <2>1. d.t = "list" /\ seg \in Digits
      BY <1>2 DEF Accepts
    <2> DEFINE x == Index(seg)
               n == IF x > Len(d.l) THEN x ELSE Len(d.l)
               l == [i \in 1 .. n |-> IF i = x THEN v ELSE IF i <= Len(d.l) THEN d.l[i] ELSE filler]
    <2>2. Put(d, seg, v, filler) = List(l)
      BY <1>2 DEF Put
    <2>3. x \in 1 .. 3 /\ Len(d.l) \in Nat
      BY <2>1, IndexRange
    <2>4. n \in Nat /\ x \in 1 .. n
      BY <2>3
    <2>5. Len(l) = n /\ l[x] = v
      BY <2>4
    <2> HIDE DEF l, n
    <2>6. List(l).t = "list" /\ List(l).l = l
      BY DEF List
    <2> QED  BY <1>2, <2>1, <2>2, <2>4, <2>5, <2>6 DEF Child, Has, Item
  <1> QED  BY <1>1, <1>2

\* What else a put changes: it fills up a list.
LEMMA PutOther ==
    ASSUME NEW d, NEW seg, NEW v, NEW filler, NEW s, s # seg, Accepts(d, seg),
           d.t = "list" => Len(d.l) \in Nat
    PROVE  \/ Child(Put(d, seg, v, filler), s) = Child(d, s)
           \/ ~Has(d, seg) /\ Child(d, s) = Null /\ Child(Put(d, seg, v, filler), s) = filler
  <1>1. CASE d.t = "obj"
    <2> DEFINE f == [k \in DOMAIN d.f \cup {seg} |-> IF k = seg THEN v ELSE d.f[k]]
    <2>1. Put(d, seg, v, filler) = Obj(f)
      BY <1>1 DEF Put
    <2>2. (s \in DOMAIN f <=> s \in DOMAIN d.f) /\ (s \in DOMAIN d.f => f[s] = d.f[s])
      OBVIOUS
    <2> HIDE DEF f
    <2>3. Obj(f).t = "obj" /\ Obj(f).f = f
      BY DEF Obj
    <2> QED  BY <1>1, <2>1, <2>2, <2>3 DEF Child, Has, Item
  <1>2. CASE d.t # "obj"
    <2>1. d.t = "list" /\ seg \in Digits
      BY <1>2 DEF Accepts
    <2> DEFINE x == Index(seg)
               n == IF x > Len(d.l) THEN x ELSE Len(d.l)
               l == [i \in 1 .. n |-> IF i = x THEN v ELSE IF i <= Len(d.l) THEN d.l[i] ELSE filler]
    <2>2. Put(d, seg, v, filler) = List(l)
      BY <1>2 DEF Put
    <2>3. x \in 1 .. 3 /\ Len(d.l) \in Nat
      BY <2>1, IndexRange
    <2>4. n \in Nat /\ x \in 1 .. n
      BY <2>3
    <2>5. Len(l) = n /\ \A i \in 1 .. n : i # x => l[i] = IF i <= Len(d.l) THEN d.l[i] ELSE filler
      BY <2>4
    <2>6. Has(d, seg) => n = Len(d.l)
      BY <1>2, <2>3 DEF Has
    <2>7. n >= Len(d.l)
      BY <2>3
    <2> HIDE DEF l, n
    <2>8. List(l).t = "list" /\ List(l).l = l
      BY DEF List
    <2>9. CASE s \in Digits
      <3>1. Index(s) # x /\ Index(s) \in 1 .. 3
        BY <2>1, <2>9, IndexRange
      <3>2. CASE Index(s) <= Len(d.l)
        <4>1. Index(s) \in 1 .. n
          BY <2>3, <2>4, <2>7, <3>1, <3>2
        <4> QED  BY <1>2, <2>1, <2>2, <2>5, <2>8, <2>9, <3>1, <3>2, <4>1, <2>7 DEF Child, Has, Item
      <3>3. CASE Len(d.l) < Index(s) /\ Index(s) <= n
        <4>1. Index(s) \in 1 .. n
          BY <2>3, <2>4, <2>7, <3>1, <3>3
        <4>2. ~(Index(s) <= Len(d.l)) /\ ~Has(d, seg)
          BY <2>3, <2>4, <2>6, <3>1, <3>3
        <4> QED  BY <1>2, <2>1, <2>2, <2>5, <2>8, <2>9, <3>1, <3>3, <4>1, <4>2 DEF Child, Has, Item
      <3>4. CASE n < Index(s)
        <4>1. ~(Index(s) <= Len(d.l)) /\ ~(Index(s) <= n)
          BY <2>3, <2>4, <2>7, <3>1, <3>4
        <4> QED  BY <1>2, <2>1, <2>2, <2>5, <2>8, <4>1 DEF Child, Has, Item
      <3> QED  BY <2>3, <2>4, <3>1, <3>2, <3>3, <3>4
    <2>10. CASE s \notin Digits
      BY <1>2, <2>1, <2>2, <2>8, <2>10 DEF Child, Has, Item
    <2> QED  BY <2>9, <2>10
  <1> QED  BY <1>1, <1>2

---------------------------------------------------------------------------
(* What a rule does to the nodes of a document.                            *)

\* The nodes on the way are documents.
LEMMA WayType ==
    ASSUME NEW D, NEW Keys, NEW Chars, Documents(D, Keys, Chars), NEW doc \in D,
           NEW path, NEW n \in Nat, Len(path) = n + 1
    PROVE  \A i \in 0 .. n : Way(doc, path)[i] \in D
  <1> DEFINE S == {i \in 0 .. n : Way(doc, path)[i] \in D}
  <1>1. 0 \in S
    BY WayStep
  <1>2. ASSUME NEW i \in 0 .. n - 1, i \in S PROVE i + 1 \in S
    <2>1. i + 1 \in 1 .. n /\ (i + 1) - 1 = i
      OBVIOUS
    <2>2. Way(doc, path)[i + 1] = Onward(Way(doc, path)[i], path[i + 1], path[(i + 1) + 1])
      BY <2>1, WayStep
    <2>3. Way(doc, path)[i + 1] \in D
      BY <1>2, <2>2, ItemType, FreshType DEF Onward
    <2> QED  BY <2>1, <2>3
  <1>3. \A i \in 0 .. n : i \in S
    <2> HIDE DEF S
    <2> QED  BY <1>1, <1>2, Upward
  <1> QED  BY <1>3

\* A list has a length.
LEMMA ListOf ==
    ASSUME NEW D, NEW Keys, NEW Chars, Documents(D, Keys, Chars), NEW d \in D, d.t = "list"
    PROVE  Len(d.l) \in Nat
  <1>1. d.l \in Seq(D)
    BY DEF Documents
  <1> QED  BY <1>1

\* Followed along a path that has been rebuilt, a document and its rebuilt form
\* are at the node on the way and at the rebuilt one, at a node that was created,
\* or nowhere, an index having met an object.
Beside(doc, path, end, before, after, i) ==
    \/ /\ after = Raised(doc, path, end)[i + 1]
       /\ \/ before = Way(doc, path)[i]
          \/ before = Null /\ Way(doc, path)[i] = Fresh(path[i + 1])
    \/ /\ after = Null /\ before = Null
       /\ \E k \in 1 .. i : Way(doc, path)[k - 1].t = "obj" /\ path[k] \in Digits

\* ... and so they are one segment further along.
LEMMA BesideStep ==
    ASSUME NEW D, NEW Keys, NEW Chars, Documents(D, Keys, Chars), NEW doc \in D,
           NEW path, NEW n \in Nat, Len(path) = n, DOMAIN path = 1 .. n, NEW end,
           NEW i \in 1 .. n - 1, Accepts(Way(doc, path)[i - 1], path[i]),
           NEW before, NEW after, Beside(doc, path, end, before, after, i - 1)
    PROVE  Beside(doc, path, end, Child(before, path[i]), Child(after, path[i]), i)
  <1> DEFINE d == Way(doc, path)[i - 1]
  <1>0. n - 1 \in Nat /\ Len(path) = (n - 1) + 1 /\ n # 0 /\ (i - 1) + 1 = i
    OBVIOUS
  <1>1. d \in D /\ (d.t = "list" => Len(d.l) \in Nat)
    <2>1. i - 1 \in 0 .. n - 1
      OBVIOUS
    <2>2. d \in D
      BY <1>0, <2>1, WayType
    <2> QED  BY <2>2, ListOf
  <1>2. Way(doc, path)[i] = Onward(d, path[i], path[i + 1])
    <2>1. \A k \in 1 .. n - 1 :
             Way(doc, path)[k] = Onward(Way(doc, path)[k - 1], path[k], path[k + 1])
      <3> DEFINE m == n - 1
      <3>1. m \in Nat /\ Len(path) = m + 1 /\ n - 1 = m
        OBVIOUS
      <3> HIDE DEF m
      <3> QED  BY <3>1, WayStep
    <2> QED  BY <2>1
  <1>3. Raised(doc, path, end)[i] = Put(d, path[i], Raised(doc, path, end)[i + 1], Fresh(path[i + 1]))
    BY <1>0, RaisedStep
  <1>4. Accepts(d, path[i])
    OBVIOUS
  <1> HIDE DEF d
  <1>5. CASE after = Raised(doc, path, end)[i] /\ (before = d \/ (before = Null /\ d = Fresh(path[i])))
    <2>1. Child(after, path[i]) = IF d.t = "obj" /\ path[i] \in Digits THEN Null
                                  ELSE Raised(doc, path, end)[i + 1]
      <3> DEFINE up == Raised(doc, path, end)[i + 1]
      <3> HIDE DEF up
      <3>1. Child(Put(d, path[i], up, Fresh(path[i + 1])), path[i])
              = IF d.t = "obj" /\ path[i] \in Digits THEN Null ELSE up
        BY <1>1, <1>4, PutRead
      <3> QED  BY <1>3, <1>5, <3>1 DEF up
    <2>2. CASE d.t = "obj" /\ path[i] \in Digits
      <3>1. Child(before, path[i]) = Null
        BY <1>5, <2>2, ChildOfEmpty DEF Child
      <3>2. i \in 1 .. i /\ Way(doc, path)[i - 1].t = "obj"
        BY <2>2 DEF d
      <3> QED  BY <2>1, <2>2, <3>1, <3>2 DEF Beside
    <2>3. CASE ~(d.t = "obj" /\ path[i] \in Digits)
      <3>1. CASE Has(d, path[i]) /\ before = d
        <4>1. Child(before, path[i]) = Way(doc, path)[i]
          BY <1>2, <2>3, <3>1 DEF Child, Onward
        <4> QED  BY <2>1, <2>3, <4>1 DEF Beside
      <3>2. CASE ~Has(d, path[i]) \/ before = Null
        <4>1. ~Has(d, path[i])
          BY <1>5, <3>2, ChildOfEmpty DEF Has, Null
        <4>2. Way(doc, path)[i] = Fresh(path[i + 1]) /\ Child(before, path[i]) = Null
          BY <1>2, <1>5, <4>1, ChildOfEmpty DEF Child, Onward
        <4> QED  BY <2>1, <2>3, <4>2 DEF Beside
      <3> QED  BY <1>5, <3>1, <3>2
    <2> QED  BY <2>2, <2>3
  <1>6. CASE /\ after = Null /\ before = Null
             /\ \E k \in 1 .. i - 1 : Way(doc, path)[k - 1].t = "obj" /\ path[k] \in Digits
    <2>1. \E k \in 1 .. i : Way(doc, path)[k - 1].t = "obj" /\ path[k] \in Digits
      BY <1>6
    <2> QED  BY <1>6, <2>1, ChildOfEmpty DEF Beside
  <1> QED  BY <1>0, <1>5, <1>6 DEF Beside, d

\* Along a common beginning of q and of the rebuilt path the two stay beside.
LEMMA Together ==
    ASSUME NEW D, NEW Keys, NEW Chars, Documents(D, Keys, Chars), NEW doc \in D,
           NEW path, NEW n \in Nat, Len(path) = n, DOMAIN path = 1 .. n, NEW end,
           NEW q, Len(q) \in Nat, NEW j \in 1 .. n, j - 1 <= Len(q),
           \A i \in 1 .. j - 1 : q[i] = path[i] /\ Accepts(Way(doc, path)[i - 1], path[i])
    PROVE  \A i \in 0 .. j - 1 :
              Beside(doc, path, end, Nodes(q, doc)[i], Nodes(q, Rebuilt(doc, path, end))[i], i)
  <1> DEFINE after == Rebuilt(doc, path, end)
             m == j - 1
             S == {i \in 0 .. m :
                     Beside(doc, path, end, Nodes(q, doc)[i], Nodes(q, after)[i], i)}
  <1>0. m \in Nat /\ m <= n - 1 /\ m <= Len(q) /\ n - 1 \in Nat /\ Len(path) = (n - 1) + 1
    OBVIOUS
  <1>1. 0 \in S
    <2>1. Nodes(q, doc)[0] = doc /\ Nodes(q, after)[0] = after
      BY NodesStep
    <2>2. Way(doc, path)[0] = doc
      BY <1>0, WayStep
    <2>3. after = Raised(doc, path, end)[0 + 1]
      BY DEF Rebuilt
    <2> QED  BY <1>0, <2>1, <2>2, <2>3 DEF Beside
  <1> HIDE DEF after
  <1>2. ASSUME NEW i \in 0 .. m - 1, i \in S PROVE i + 1 \in S
    <2> DEFINE k == i + 1
    <2>1. k \in 1 .. n - 1 /\ k \in 1 .. m /\ k \in 1 .. Len(q) /\ k - 1 = i
      BY <1>0
    <2>2. Beside(doc, path, end, Nodes(q, doc)[k - 1], Nodes(q, after)[k - 1], k - 1)
      BY <1>2, <2>1
    <2>3. q[k] = path[k] /\ Accepts(Way(doc, path)[k - 1], path[k])
      BY <2>1
    <2>4. /\ Nodes(q, doc)[k] = Child(Nodes(q, doc)[k - 1], path[k])
          /\ Nodes(q, after)[k] = Child(Nodes(q, after)[k - 1], path[k])
      BY <2>1, <2>3, NodesStep
    <2> HIDE DEF k
    <2>5. Beside(doc, path, end, Nodes(q, doc)[k], Nodes(q, after)[k], k)
      BY <2>1, <2>2, <2>3, <2>4, BesideStep
    <2> QED  BY <2>1, <2>5 DEF k
  <1>3. \A i \in 0 .. m : i \in S
    <2> HIDE DEF S, m
    <2> QED  BY <1>0, <1>1, <1>2, Upward
  <1> QED  BY <1>3 DEF after

\* A path without a projection.
Plain(path) ==
    /\ path \in Seq(ToSet(path))
    /\ "[]" \notin ToSet(path)

\* A plain path is read by following it, whole or in part.
LEMMA PlainParts ==
    ASSUME NEW path, Plain(path)
    PROVE  /\ Len(path) \in Nat /\ DOMAIN path = 1 .. Len(path)
           /\ \A doc : Search(path, doc) = Follow(path, doc)
  BY DEF Plain, Search

\* Two paths neither of which begins the other part somewhere.
LEMMA Parting ==
    ASSUME NEW p, NEW q, Plain(p), Plain(q), ~IsPrefix(p, q), ~IsPrefix(q, p)
    PROVE  \E j \in 1 .. Len(p) :
              j <= Len(q) /\ p[j] # q[j] /\ \A i \in 1 .. j - 1 : q[i] = p[i]
  <1> DEFINE n == Len(p)
             m == Len(q)
  <1>0. /\ n \in Nat /\ DOMAIN p = 1 .. n /\ p \in Seq(ToSet(p))
        /\ m \in Nat /\ DOMAIN q = 1 .. m /\ q \in Seq(ToSet(q))
    BY DEF Plain
  <1> DEFINE T == {i \in 1 .. n : i <= m /\ p[i] # q[i]}
  <1>1. T # {}
    <2>1. SUFFICES ASSUME \A i \in 1 .. n : i <= m => p[i] = q[i] PROVE FALSE
      OBVIOUS
    <2>2. CASE n <= m
      <3>1. p = SubSeq(q, 1, n)
        BY <1>0, <2>1, <2>2
      <3>2. IsPrefix(p, q)
        BY <1>0, <2>2, <3>1 DEF IsPrefix
      <3> QED  BY <3>2
    <2>3. CASE m <= n
      <3>1. q = SubSeq(p, 1, m)
        BY <1>0, <2>1, <2>3
      <3>2. IsPrefix(q, p)
        BY <1>0, <2>3, <3>1 DEF IsPrefix
      <3> QED  BY <3>2
    <2> QED  BY <1>0, <2>2, <2>3
  <1>2. T \in SUBSET Nat
    BY <1>0
  <1>3. PICK j \in T : \A i \in T : j <= i
    BY <1>1, <1>2, LeastMember
  <1>4. \A i \in 1 .. j - 1 : i \in 1 .. n /\ i <= m /\ i \notin T
    BY <1>0, <1>3
  <1> QED  BY <1>0, <1>3, <1>4

\* A node stays as it was, or is one that filled up a list.
Kept(before, after) ==
    after = before \/ (before = Null /\ after \in {Fresh("a"), Fresh("0")})

\* What holds of a node holds of those below it.
LEMMA KeptBelow ==
    ASSUME NEW q, Len(q) \in Nat, NEW x, NEW y, NEW j \in 0 .. Len(q)
    PROVE  /\ Kept(Nodes(q, x)[j], Nodes(q, y)[j]) => Kept(Follow(q, x), Follow(q, y))
           /\ Nodes(q, x)[j] = Nodes(q, y)[j] => Follow(q, x) = Follow(q, y)
  <1> DEFINE m == Len(q) - j
             K == {i \in 0 .. m : Kept(Nodes(q, x)[j + i], Nodes(q, y)[j + i])}
             E == {i \in 0 .. m : Nodes(q, x)[j + i] = Nodes(q, y)[j + i]}
  <1>0. m \in Nat /\ j + m = Len(q)
    OBVIOUS
  <1>1. ASSUME NEW i \in 0 .. m - 1
        PROVE  /\ Nodes(q, x)[j + (i + 1)] = Child(Nodes(q, x)[j + i], q[j + (i + 1)])
               /\ Nodes(q, y)[j + (i + 1)] = Child(Nodes(q, y)[j + i], q[j + (i + 1)])
    <2>1. j + (i + 1) \in 1 .. Len(q) /\ (j + (i + 1)) - 1 = j + i
      OBVIOUS
    <2> QED  BY <2>1, NodesStep
  <1>2. ASSUME Kept(Nodes(q, x)[j], Nodes(q, y)[j]) PROVE Kept(Follow(q, x), Follow(q, y))
    <2>1. 0 \in K
      BY <1>0, <1>2
    <2>2. ASSUME NEW i \in 0 .. m - 1, i \in K PROVE i + 1 \in K
      <3>1. Kept(Nodes(q, x)[j + (i + 1)], Nodes(q, y)[j + (i + 1)])
        BY <1>1, <2>2, ChildOfEmpty DEF Kept
      <3>2. i + 1 \in 0 .. m
        OBVIOUS
      <3> QED  BY <3>1, <3>2
    <2>3. \A i \in 0 .. m : i \in K
      <3> HIDE DEF K, m
      <3> QED  BY <1>0, <2>1, <2>2, Upward
    <2>4. Kept(Nodes(q, x)[j + m], Nodes(q, y)[j + m])
      <3>1. m \in K
        BY <1>0, <2>3
      <3> QED  BY <3>1
    <2> QED  BY <1>0, <2>4 DEF Follow
  <1>3. ASSUME Nodes(q, x)[j] = Nodes(q, y)[j] PROVE Follow(q, x) = Follow(q, y)
    <2>1. 0 \in E
      BY <1>0, <1>3
    <2>2. ASSUME NEW i \in 0 .. m - 1, i \in E PROVE i + 1 \in E
      BY <1>1, <2>2
    <2>3. \A i \in 0 .. m : i \in E
      <3> HIDE DEF E, m
      <3> QED  BY <1>0, <2>1, <2>2, Upward
    <2> QED  BY <1>0, <2>3 DEF Follow
  <1> QED  BY <1>2, <1>3

\* The path to the last container is plain.
LEMMA PlainFront ==
    ASSUME NEW path, Plain(path), path # <<>>
    PROVE  /\ Len(path) \in Nat /\ Len(path) # 0 /\ Last(path) = path[Len(path)]
           /\ Plain(Front(path)) /\ Len(Front(path)) = Len(path) - 1
           /\ \A i \in 1 .. Len(path) - 1 : Front(path)[i] = path[i]
  <1>1. path \in Seq(ToSet(path)) /\ Len(path) \in Nat /\ DOMAIN path = 1 .. Len(path)
    BY DEF Plain
  <1>2. Len(path) # 0
    BY <1>1
  <1>3. /\ Front(path) \in Seq(ToSet(path)) /\ Len(Front(path)) = Len(path) - 1
        /\ \A i \in 1 .. Len(path) - 1 : Front(path)[i] = path[i]
    BY <1>1, <1>2 DEF Front
  <1>4. Plain(Front(path))
    <2>1. DOMAIN Front(path) = 1 .. Len(path) - 1
      BY <1>3
    <2>2. ToSet(Front(path)) \subseteq ToSet(path)
      BY <1>1, <1>3, <2>1 DEF ToSet
    <2>3. Front(path) \in Seq(ToSet(Front(path)))
      BY <1>3, <2>1 DEF ToSet
    <2> QED  BY <2>2, <2>3 DEF Plain
  <1> QED  BY <1>1, <1>2, <1>3, <1>4 DEF Last

\* Two paths with a common beginning lead to the same nodes along it.
LEMMA SameNodes ==
    ASSUME NEW p, NEW q, NEW doc, Len(p) \in Nat, Len(q) \in Nat,
           NEW m \in Nat, m <= Len(p), m <= Len(q), \A i \in 1 .. m : p[i] = q[i]
    PROVE  \A i \in 0 .. m : Nodes(p, doc)[i] = Nodes(q, doc)[i]
  <1> DEFINE S == {i \in 0 .. m : Nodes(p, doc)[i] = Nodes(q, doc)[i]}
  <1>1. 0 \in S
    BY NodesStep
  <1>2. ASSUME NEW i \in 0 .. m - 1, i \in S PROVE i + 1 \in S
    <2>1. i + 1 \in 1 .. m /\ i + 1 \in 1 .. Len(p) /\ i + 1 \in 1 .. Len(q) /\ (i + 1) - 1 = i
      OBVIOUS
    <2> QED  BY <1>2, <2>1, NodesStep
  <1>3. \A i \in 0 .. m : i \in S
    <2> HIDE DEF S
    <2> QED  BY <1>1, <1>2, Upward
  <1> QED  BY <1>3

\* A set's value is read back.
LEMMA SetRead ==
    ASSUME NEW D, NEW Keys, NEW Chars, Documents(D, Keys, Chars), NEW doc \in D,
           NEW path, Plain(path), path # <<>>, NEW v,
           Passable(doc, path),
           ~ \E i \in DOMAIN path : path[i] \in Digits /\ Way(doc, path)[i - 1].t = "obj"
    PROVE  Search(path, SetField(doc, path, v)) = v
  <1> DEFINE n == Len(path)
             d == Way(doc, path)[n - 1]
             end == Put(d, Last(path), v, Null)
             after == Rebuilt(doc, path, end)
  <1>1. n \in Nat /\ n # 0 /\ DOMAIN path = 1 .. n /\ Last(path) = path[n]
    BY PlainParts, PlainFront
  <1>2. SetField(doc, path, v) = after
    BY DEF SetField
  <1>3. \A i \in 1 .. n : Accepts(Way(doc, path)[i - 1], path[i])
    BY <1>1 DEF Passable
  <1>4. d \in D
    <2> DEFINE m == n - 1
    <2>1. m \in Nat /\ Len(path) = m + 1 /\ m \in 0 .. m
      BY <1>1
    <2> HIDE DEF m
    <2>2. Way(doc, path)[m] \in D
      BY <2>1, WayType
    <2> QED  BY <2>2 DEF m
  <1>5. Accepts(d, path[n]) /\ (d.t = "list" => Len(d.l) \in Nat)
    <2>1. n \in 1 .. n
      BY <1>1
    <2> QED  BY <1>3, <1>4, <2>1, ListOf
  <1>6. ~(d.t = "obj" /\ path[n] \in Digits)
    BY <1>1
  <1>7. Beside(doc, path, end, Nodes(path, doc)[n - 1], Nodes(path, after)[n - 1], n - 1)
    <2> HIDE DEF n, d, end
    <2>1. n \in 1 .. n /\ n - 1 <= n /\ n - 1 \in 0 .. n - 1 /\ Len(path) = n
      BY <1>1 DEF n
    <2>2. \A i \in 1 .. n - 1 : Accepts(Way(doc, path)[i - 1], path[i])
      BY <1>1, <1>3
    <2> QED  BY <1>1, <2>1, <2>2, Together
  <1>8. Nodes(path, after)[n - 1] = end
    <2>1. ~ \E k \in 1 .. n - 1 : Way(doc, path)[k - 1].t = "obj" /\ path[k] \in Digits
      BY <1>1
    <2>2. Raised(doc, path, end)[(n - 1) + 1] = end
      BY <1>1, RaisedStep
    <2> HIDE DEF n, d, end, after
    <2> QED  BY <1>7, <2>1, <2>2 DEF Beside
  <1>9. Nodes(path, after)[n] = Child(end, path[n])
    BY <1>1, <1>8, NodesStep
  <1>10. Child(end, path[n]) = v
    <2> HIDE DEF d, n
    <2> QED  BY <1>1, <1>5, <1>6, PutRead
  <1> QED  BY <1>2, <1>9, <1>10, PlainParts DEF Follow

\* A set leaves every node as it was that is not on its path, or fills up a list.
LEMMA SetOthers ==
    ASSUME NEW D, NEW Keys, NEW Chars, Documents(D, Keys, Chars), NEW doc \in D,
           NEW path, Plain(path), path # <<>>, NEW v, Passable(doc, path),
           NEW q, Plain(q), ~IsPrefix(path, q), ~IsPrefix(q, path)
    PROVE  Kept(Search(q, doc), Search(q, SetField(doc, path, v)))
  <1> DEFINE n == Len(path)
             d == Way(doc, path)[n - 1]
             end == Put(d, Last(path), v, Null)
             after == Rebuilt(doc, path, end)
  <1>1. n \in Nat /\ n # 0 /\ DOMAIN path = 1 .. n /\ Last(path) = path[n]
    BY PlainParts, PlainFront
  <1>2. SetField(doc, path, v) = after
    BY DEF SetField
  <1>3. \A i \in 1 .. n : Accepts(Way(doc, path)[i - 1], path[i])
    BY <1>1 DEF Passable
  <1>4. PICK j \in 1 .. n : j <= Len(q) /\ path[j] # q[j] /\ \A i \in 1 .. j - 1 : q[i] = path[i]
    BY Parting
  <1> DEFINE w == Way(doc, path)[j - 1]
             x == Nodes(q, doc)[j - 1]
             y == Nodes(q, after)[j - 1]
             up == IF j = n THEN v ELSE Raised(doc, path, end)[j + 1]
             filler == IF j = n THEN Null ELSE Fresh(path[j + 1])
  <1>5. Beside(doc, path, end, x, y, j - 1)
    <2> HIDE DEF n, d, end
    <2>1. j - 1 <= Len(q) /\ j - 1 \in 0 .. j - 1 /\ Len(path) = n
      BY <1>1, <1>4 DEF n
    <2>2. \A i \in 1 .. j - 1 : q[i] = path[i] /\ Accepts(Way(doc, path)[i - 1], path[i])
      BY <1>1, <1>3, <1>4
    <2>3. Len(q) \in Nat
      BY PlainParts
    <2> QED  BY <1>1, <2>1, <2>2, <2>3, Together
  <1>6. Raised(doc, path, end)[(j - 1) + 1] = Put(w, path[j], up, filler)
    <2>0. (j - 1) + 1 = j
      BY <1>4
    <2>1. CASE j = n
      BY <1>1, <2>0, <2>1, RaisedStep
    <2>2. CASE j # n
      <3>1. j \in 1 .. n - 1
        <4>1. j \in 1 .. n
          OBVIOUS
        <4> HIDE DEF n
        <4> QED  BY <1>1, <2>2, <4>1
      <3> HIDE DEF n, d, end
      <3>2. Len(path) = n
        BY DEF n
      <3>3. Raised(doc, path, end)[j]
              = Put(Way(doc, path)[j - 1], path[j], Raised(doc, path, end)[j + 1],
                    Fresh(path[j + 1]))
        BY <1>1, <3>1, <3>2, RaisedStep
      <3>4. up = Raised(doc, path, end)[j + 1] /\ filler = Fresh(path[j + 1])
        BY <2>2
      <3> HIDE DEF up, filler
      <3> QED  BY <2>0, <3>3, <3>4
    <2> QED  BY <2>1, <2>2
  <1>7. Accepts(w, path[j]) /\ (w.t = "list" => Len(w.l) \in Nat)
    <2> DEFINE m == n - 1
    <2>1. m \in Nat /\ Len(path) = m + 1 /\ j - 1 \in 0 .. m
      BY <1>1
    <2> HIDE DEF m
    <2>2. w \in D
      BY <2>1, WayType
    <2> QED  BY <1>3, <2>2, ListOf
  <1>8. Nodes(q, doc)[j] = Child(x, q[j]) /\ Nodes(q, after)[j] = Child(y, q[j])
    <2>1. j \in 1 .. Len(q) /\ Len(q) \in Nat
      BY <1>1, <1>4, PlainParts
    <2> HIDE DEF after
    <2> QED  BY <2>1, NodesStep
  <1>9. filler \in {Null, Fresh("a"), Fresh("0")}
    BY ChildOfEmpty
  <1>10. Kept(Child(x, q[j]), Child(y, q[j]))
    <2>1. CASE y = Put(w, path[j], up, filler) /\ (x = w \/ (x = Null /\ w = Fresh(path[(j - 1) + 1])))
      <3> HIDE DEF n, d, end, after, w, x, y, up, filler
      <3>1. \/ Child(y, q[j]) = Child(w, q[j])
            \/ Child(w, q[j]) = Null /\ Child(y, q[j]) = filler
        BY <1>4, <1>7, <2>1, PutOther
      <3>2. Child(w, q[j]) = Child(x, q[j])
        BY <2>1, ChildOfEmpty
      <3> QED  BY <1>9, <3>1, <3>2 DEF Kept
    <2>2. CASE x = Null /\ y = Null
      BY <2>2 DEF Kept
    <2> HIDE DEF n, d, end, after, w, x, y, up, filler
    <2> QED  BY <1>5, <1>6, <2>1, <2>2 DEF Beside, w
  <1>11. Kept(Follow(q, doc), Follow(q, after))
    <2>1. j \in 0 .. Len(q) /\ Len(q) \in Nat
      BY <1>1, <1>4, PlainParts
    <2> HIDE DEF after, x, y
    <2> QED  BY <1>8, <1>10, <2>1, KeptBelow
  <1> QED  BY <1>2, <1>11, PlainParts

\* What a remove finds, it finds at the end of the way.
LEMMA FoundWay ==
    ASSUME NEW path, Plain(path), path # <<>>, NEW doc, Search(path, doc) # Null
    PROVE  \A i \in 1 .. Len(path) :
             LET d == Nodes(path, doc)[i - 1]
             IN  /\ d = Way(doc, path)[i - 1] /\ Has(d, path[i])
                 /\ Nodes(path, doc)[i] = Item(d, path[i])
                 /\ ~(d.t = "obj" /\ path[i] \in Digits)
  <1> DEFINE n == Len(path)
             S == {i \in 1 .. n : Nodes(path, doc)[i] # Null}
             m == n - 1
             T == {i \in 0 .. m : Nodes(path, doc)[i] = Way(doc, path)[i]}
  <1>1. n \in Nat /\ n # 0 /\ m \in Nat /\ Len(path) = m + 1
    BY PlainParts, PlainFront
  <1>2. \A i \in 1 .. n : i \in S
    <2>1. n \in S
      BY <1>1, PlainParts DEF Follow
    <2>2. ASSUME NEW i \in 1 .. n - 1, i + 1 \in S PROVE i \in S
      <3>1. i + 1 \in 1 .. n /\ (i + 1) - 1 = i
        BY <1>1
      <3>2. Nodes(path, doc)[i + 1] = Child(Nodes(path, doc)[i], path[i + 1])
        BY <1>1, <3>1, NodesStep
      <3> QED  BY <1>1, <2>2, <3>2, ChildOfEmpty
    <2> HIDE DEF S, n
    <2> QED  BY <1>1, <2>1, <2>2, Downward
  <1>3. ASSUME NEW i \in 1 .. n
        PROVE  /\ Has(Nodes(path, doc)[i - 1], path[i])
               /\ Nodes(path, doc)[i] = Item(Nodes(path, doc)[i - 1], path[i])
               /\ ~(Nodes(path, doc)[i - 1].t = "obj" /\ path[i] \in Digits)
    <2>1. Nodes(path, doc)[i] = Child(Nodes(path, doc)[i - 1], path[i])
      BY <1>1, NodesStep
    <2>2. Nodes(path, doc)[i] # Null
      BY <1>2
    <2> QED  BY <2>1, <2>2 DEF Child
  <1>4. \A i \in 0 .. m : i \in T
    <2>1. 0 \in T
      <3>1. Nodes(path, doc)[0] = doc
        BY <1>1, NodesStep
      <3>2. Way(doc, path)[0] = doc
        <4> HIDE DEF m
        <4> QED  BY <1>1, WayStep
      <3> QED  BY <1>1, <3>1, <3>2
    <2>2. ASSUME NEW i \in 0 .. m - 1, i \in T PROVE i + 1 \in T
      <3>1. i + 1 \in 1 .. n /\ i + 1 \in 1 .. m /\ (i + 1) - 1 = i
        BY <1>1
      <3>2. Way(doc, path)[i + 1] = Onward(Way(doc, path)[i], path[i + 1], path[(i + 1) + 1])
        <4> HIDE DEF m
        <4> QED  BY <1>1, <3>1, WayStep
      <3>3. Has(Nodes(path, doc)[i], path[i + 1])
            /\ Nodes(path, doc)[i + 1] = Item(Nodes(path, doc)[i], path[i + 1])
        BY <1>3, <3>1
      <3> QED  BY <2>2, <3>1, <3>2, <3>3 DEF Onward
    <2> HIDE DEF T, m
    <2> QED  BY <1>1, <2>1, <2>2, Upward
  <1>5. \A i \in 1 .. n : i - 1 \in 0 .. m
    BY <1>1
  <1> QED  BY <1>3, <1>4, <1>5

\* A sequence without one of its items.
LEMMA RemovedItem ==
    ASSUME NEW D, NEW l \in Seq(D), NEW x \in 1 .. Len(l)
    PROVE  /\ RemoveAt(l, x) \in Seq(D) /\ Len(RemoveAt(l, x)) = Len(l) - 1
           /\ \A i \in 1 .. Len(l) - 1 :
                RemoveAt(l, x)[i] = IF i < x THEN l[i] ELSE l[i + 1]
  <1> DEFINE u == SubSeq(l, 1, x - 1)
             w == SubSeq(l, x + 1, Len(l))
  <1>1. u \in Seq(D) /\ Len(u) = x - 1 /\ \A i \in 1 .. x - 1 : u[i] = l[i]
    OBVIOUS
  <1>2. /\ w \in Seq(D) /\ Len(w) = Len(l) - x
        /\ \A i \in 1 .. Len(l) - x : w[i] = l[x + i]
    <2>1. CASE x = Len(l)
      <3>1. w = <<>>
        BY <2>1
      <3> QED  BY <2>1, <3>1
    <2>2. CASE x < Len(l)
      BY <2>2
    <2> QED  BY <2>1, <2>2
  <1> HIDE DEF u, w
  <1>3. /\ u \o w \in Seq(D) /\ Len(u \o w) = Len(l) - 1
        /\ \A i \in 1 .. Len(l) - 1 : (u \o w)[i] = IF i < x THEN u[i] ELSE w[i - (x - 1)]
    <2>1. Len(l) \in Nat /\ x \in Nat
      OBVIOUS
    <2>2. u \o w \in Seq(D) /\ Len(u \o w) = Len(u) + Len(w)
      BY <1>1, <1>2, ConcatProperties
    <2>3. Len(u) + Len(w) = Len(l) - 1
      BY <1>1, <1>2, <2>1
    <2>4. \A i \in 1 .. Len(u) + Len(w) :
             (u \o w)[i] = IF i <= Len(u) THEN u[i] ELSE w[i - Len(u)]
      BY <1>1, <1>2, ConcatProperties
    <2>5. \A i \in 1 .. Len(l) - 1 : i <= x - 1 <=> i < x
      BY <2>1
    <2> QED  BY <1>1, <2>2, <2>3, <2>4, <2>5
  <1>4. ASSUME NEW i \in 1 .. Len(l) - 1
        PROVE  (u \o w)[i] = IF i < x THEN l[i] ELSE l[i + 1]
    <2>1. CASE i < x
      BY <1>1, <1>3, <2>1
    <2>2. CASE ~(i < x)
      <3>1. i - (x - 1) \in 1 .. Len(l) - x /\ x + (i - (x - 1)) = i + 1
        BY <2>2
      <3> QED  BY <1>2, <1>3, <2>2, <3>1
    <2> QED  BY <2>1, <2>2
  <1> QED  BY <1>3, <1>4 DEF RemoveAt, u, w

\* Where an item was taken away the next one is found, and where a key was, nothing.
LEMMA WithoutRead ==
    ASSUME NEW D, NEW d, NEW seg, Has(d, seg), d.t = "list" => d.l \in Seq(D),
           ~(d.t = "obj" /\ seg \in Digits)
    PROVE  /\ Child(Without(d, seg), seg)
                = IF d.t = "list" /\ Index(seg) + 1 \in DOMAIN d.l THEN d.l[Index(seg) + 1] ELSE Null
           /\ \A s : d.t = "obj" /\ s # seg => Child(Without(d, seg), s) = Child(d, s)
           /\ d.t = "list" => seg \in Digits
  <1>1. CASE d.t = "obj"
    <2> DEFINE f == [k \in DOMAIN d.f \ {seg} |-> d.f[k]]
    <2>1. Without(d, seg) = Obj(f)
      BY <1>1 DEF Without
    <2>2. seg \notin DOMAIN f
      OBVIOUS
    <2>3. ASSUME NEW s, s # seg
          PROVE  (s \in DOMAIN f <=> s \in DOMAIN d.f) /\ (s \in DOMAIN d.f => f[s] = d.f[s])
      BY <2>3
    <2> HIDE DEF f
    <2>4. Obj(f).t = "obj" /\ Obj(f).f = f
      BY DEF Obj
    <2> QED  BY <1>1, <2>1, <2>2, <2>3, <2>4 DEF Child, Has, Item
  <1>2. CASE d.t # "obj"
    <2>1. d.t = "list" /\ seg \in Digits /\ Index(seg) <= Len(d.l) /\ d.l \in Seq(D)
      BY <1>2 DEF Has
    <2> DEFINE x == Index(seg)
               l == RemoveAt(d.l, x)
    <2>2. Without(d, seg) = List(l)
      BY <1>2 DEF Without
    <2>3. x \in 1 .. Len(d.l) /\ DOMAIN d.l = 1 .. Len(d.l) /\ Len(d.l) \in Nat
      BY <2>1, IndexRange
    <2>4. /\ Len(l) = Len(d.l) - 1
          /\ x <= Len(d.l) - 1 => l[x] = d.l[x + 1]
      <3>1. /\ Len(l) = Len(d.l) - 1
            /\ \A i \in 1 .. Len(d.l) - 1 : l[i] = IF i < x THEN d.l[i] ELSE d.l[i + 1]
        BY <2>1, <2>3, RemovedItem
      <3> HIDE DEF l, x
      <3> QED  BY <2>3, <3>1
    <2> HIDE DEF l
    <2>5. List(l).t = "list" /\ List(l).l = l
      BY DEF List
    <2>6. x <= Len(l) <=> x + 1 \in DOMAIN d.l
      BY <2>3, <2>4
    <2>7. x <= Len(l) => l[x] = d.l[x + 1]
      BY <2>3, <2>4
    <2>8. Child(List(l), seg) = IF x <= Len(l) THEN l[x] ELSE Null
      BY <2>1, <2>5 DEF Child, Has, Item
    <2> QED  BY <2>1, <2>2, <2>6, <2>7, <2>8
  <1> QED  BY <1>1, <1>2

\* What is at the front of a path, and the container a remove takes from.
LEMMA RemovedFrom ==
    ASSUME NEW D, NEW Keys, NEW Chars, Documents(D, Keys, Chars), NEW doc \in D,
           NEW path, Plain(path), path # <<>>
    PROVE  LET d == Nodes(path, doc)[Len(path) - 1]
           IN  /\ Search(Front(path), doc) = d
               /\ Nodes(path, doc)[Len(path)] = Child(d, path[Len(path)])
               /\ Search(path, doc) # Null =>
                    /\ d \in D /\ d = Way(doc, path)[Len(path) - 1] /\ Has(d, path[Len(path)])
                    /\ ~(d.t = "obj" /\ path[Len(path)] \in Digits)
                    /\ \A i \in 1 .. Len(path) :
                         /\ Accepts(Way(doc, path)[i - 1], path[i])
                         /\ Has(Way(doc, path)[i - 1], path[i])
                         /\ Nodes(path, doc)[i - 1] = Way(doc, path)[i - 1]
                         /\ ~(Way(doc, path)[i - 1].t = "obj" /\ path[i] \in Digits)
  <1> DEFINE n == Len(path)
             m == n - 1
             d == Nodes(path, doc)[m]
  <1>1. n \in Nat /\ n # 0 /\ m \in Nat /\ n = m + 1 /\ n \in 1 .. n
    BY PlainFront
  <1>2. Search(Front(path), doc) = d
    <2>1. Plain(Front(path)) /\ Len(Front(path)) = m
          /\ \A i \in 1 .. m : Front(path)[i] = path[i]
      BY PlainFront
    <2>2. Search(Front(path), doc) = Nodes(Front(path), doc)[m]
      BY <2>1, PlainParts DEF Follow
    <2>3. m <= n /\ m \in 0 .. m
      BY <1>1
    <2> HIDE DEF m
    <2>4. \A i \in 0 .. m : Nodes(Front(path), doc)[i] = Nodes(path, doc)[i]
      BY <1>1, <2>1, <2>3, SameNodes
    <2> QED  BY <2>2, <2>3, <2>4
  <1>3. Nodes(path, doc)[n] = Child(d, path[n])
    BY <1>1, NodesStep
  <1>4. ASSUME Search(path, doc) # Null
        PROVE  /\ d \in D /\ d = Way(doc, path)[m] /\ Has(d, path[n])
               /\ ~(d.t = "obj" /\ path[n] \in Digits)
               /\ \A i \in 1 .. n :
                    /\ Accepts(Way(doc, path)[i - 1], path[i])
                    /\ Has(Way(doc, path)[i - 1], path[i])
                    /\ Nodes(path, doc)[i - 1] = Way(doc, path)[i - 1]
                    /\ ~(Way(doc, path)[i - 1].t = "obj" /\ path[i] \in Digits)
    <2>1. ASSUME NEW i \in 1 .. n
          PROVE  /\ Has(Way(doc, path)[i - 1], path[i])
                 /\ Nodes(path, doc)[i - 1] = Way(doc, path)[i - 1]
                 /\ ~(Way(doc, path)[i - 1].t = "obj" /\ path[i] \in Digits)
      BY <1>4, FoundWay
    <2>2. Way(doc, path)[m] \in D
      <3>1. m \in 0 .. m /\ Len(path) = m + 1
        BY <1>1
      <3> HIDE DEF m
      <3> QED  BY <1>1, <3>1, WayType
    <2> HIDE DEF n
    <2> QED  BY <1>1, <2>1, <2>2 DEF Accepts, Has
  <1> QED  BY <1>2, <1>3, <1>4

\* A remove that finds something, beside q up to where q parts from its path.
LEMMA RemoveBeside ==
    ASSUME NEW D, NEW Keys, NEW Chars, Documents(D, Keys, Chars), NEW doc \in D,
           NEW path, Plain(path), path # <<>>, Search(path, doc) # Null, NEW end,
           NEW q, Plain(q), NEW j \in 1 .. Len(path), j - 1 <= Len(q),
           \A i \in 1 .. j - 1 : q[i] = path[i]
    PROVE  /\ Nodes(q, doc)[j - 1] = Way(doc, path)[j - 1]
           /\ Nodes(q, Rebuilt(doc, path, end))[j - 1] = Raised(doc, path, end)[j]
  <1> DEFINE n == Len(path)
             after == Rebuilt(doc, path, end)
  <1>1. /\ n \in Nat /\ n # 0 /\ DOMAIN path = 1 .. n /\ Len(q) \in Nat
        /\ j \in 1 .. n /\ (j - 1) + 1 = j /\ j - 1 \in 0 .. j - 1 /\ j - 1 \in Nat
    BY PlainParts, PlainFront
  <1>2. \A i \in 1 .. n : /\ Accepts(Way(doc, path)[i - 1], path[i])
                          /\ Nodes(path, doc)[i - 1] = Way(doc, path)[i - 1]
                          /\ ~(Way(doc, path)[i - 1].t = "obj" /\ path[i] \in Digits)
    BY RemovedFrom
  <1>3. Nodes(q, doc)[j - 1] = Way(doc, path)[j - 1]
    <2> DEFINE m == j - 1
    <2>1. m \in Nat /\ m \in 0 .. m /\ m <= n /\ m <= Len(q) /\ \A i \in 1 .. m : q[i] = path[i]
      BY <1>1
    <2>2. Nodes(path, doc)[m] = Way(doc, path)[m]
      BY <1>1, <1>2
    <2> HIDE DEF m
    <2>3. Nodes(q, doc)[m] = Nodes(path, doc)[m]
      BY <1>1, <2>1, SameNodes
    <2> QED  BY <2>2, <2>3 DEF m
  <1>4. Beside(doc, path, end, Nodes(q, doc)[j - 1], Nodes(q, after)[j - 1], j - 1)
    <2>1. \A i \in 1 .. j - 1 : q[i] = path[i] /\ Accepts(Way(doc, path)[i - 1], path[i])
      BY <1>1, <1>2
    <2>2. Len(path) = n
      OBVIOUS
    <2> HIDE DEF n
    <2> QED  BY <1>1, <2>1, <2>2, Together
  <1>5. ~ \E k \in 1 .. j - 1 : Way(doc, path)[k - 1].t = "obj" /\ path[k] \in Digits
    BY <1>1, <1>2
  <1> HIDE DEF n, after
  <1>6. Nodes(q, after)[j - 1] = Raised(doc, path, end)[j]
    BY <1>1, <1>4, <1>5 DEF Beside
  <1> QED  BY <1>3, <1>6 DEF after

\* What a remove leaves at its path: nothing, or the list's next item.
LEMMA RemoveRead ==
    ASSUME NEW D, NEW Keys, NEW Chars, Documents(D, Keys, Chars), NEW doc \in D,
           NEW path, Plain(path), path # <<>>
    PROVE  LET parent == Search(Front(path), doc)
               next   == Index(Last(path)) + 1
           IN  Search(path, RemoveField(doc, path)) =
                 IF /\ Last(path) \in Digits /\ parent.t = "list" /\ Search(path, doc) # Null
                    /\ next \in DOMAIN parent.l
                 THEN parent.l[next] ELSE Null
  <1> DEFINE n == Len(path)
             d == Nodes(path, doc)[n - 1]
             end == Without(d, path[n])
             after == Rebuilt(doc, path, end)
  <1>1. CASE Search(path, doc) = Null
    BY <1>1 DEF RemoveField
  <1>2. CASE Search(path, doc) # Null
    <2>1. /\ n \in Nat /\ n # 0 /\ DOMAIN path = 1 .. n /\ Last(path) = path[n]
          /\ n \in 1 .. n /\ n - 1 <= n
      BY PlainParts, PlainFront
    <2>2. /\ d \in D /\ d = Way(doc, path)[n - 1] /\ Has(d, path[n])
          /\ ~(d.t = "obj" /\ path[n] \in Digits) /\ Search(Front(path), doc) = d
      BY <1>2, RemovedFrom
    <2>3. RemoveField(doc, path) = after
      BY <1>2, <2>1, <2>2 DEF RemoveField
    <2>4. Nodes(path, after)[n - 1] = Raised(doc, path, end)[n]
      <3> HIDE DEF end
      <3> QED  BY <1>2, <2>1, RemoveBeside
    <2>5. Raised(doc, path, end)[n] = end
      <3>1. Len(path) = n
        OBVIOUS
      <3> HIDE DEF n, end
      <3> QED  BY <2>1, <3>1, RaisedStep
    <2>6. Follow(path, after) = Child(end, path[n])
      <3>1. Follow(path, after) = Nodes(path, after)[n]
        BY DEF Follow
      <3>2. Nodes(path, after)[n] = Child(Nodes(path, after)[n - 1], path[n])
        <4> HIDE DEF after
        <4> QED  BY <2>1, NodesStep
      <3> QED  BY <2>4, <2>5, <3>1, <3>2
    <2>7. Search(path, after) = Follow(path, after)
      BY PlainParts
    <2>8. d.t = "list" => d.l \in Seq(D)
      BY <2>2 DEF Documents
    <2> HIDE DEF after, d, n
    <2>9. /\ Child(end, path[n])
               = IF d.t = "list" /\ Index(path[n]) + 1 \in DOMAIN d.l THEN d.l[Index(path[n]) + 1]
                 ELSE Null
          /\ d.t = "list" => path[n] \in Digits
      BY <2>2, <2>8, WithoutRead
    <2> HIDE DEF end
    <2> QED  BY <1>2, <2>1, <2>2, <2>3, <2>6, <2>7, <2>9
  <1> QED  BY <1>1, <1>2

\* A remove leaves every node as it was that is not on its path, nor in the list
\* it took an item from.
LEMMA RemoveOthers ==
    ASSUME NEW D, NEW Keys, NEW Chars, Documents(D, Keys, Chars), NEW doc \in D,
           NEW path, Plain(path), path # <<>>, NEW q, Plain(q), ~IsPrefix(path, q), ~IsPrefix(q, path),
           ~(/\ Last(path) \in Digits /\ Search(Front(path), doc).t = "list"
             /\ IsPrefix(Front(path), q))
    PROVE  Search(q, RemoveField(doc, path)) = Search(q, doc)
  <1> DEFINE n == Len(path)
             end == Without(Way(doc, path)[n - 1], path[n])
             after == Rebuilt(doc, path, end)
  <1>1. SUFFICES ASSUME Search(path, doc) # Null PROVE Search(q, after) = Search(q, doc)
    BY PlainFront DEF RemoveField
  <1>2. /\ n \in Nat /\ n # 0 /\ DOMAIN path = 1 .. n /\ Last(path) = path[n] /\ n \in 1 .. n
        /\ Len(q) \in Nat
    BY PlainParts, PlainFront
  <1>3. PICK j \in 1 .. n : j <= Len(q) /\ path[j] # q[j] /\ \A i \in 1 .. j - 1 : q[i] = path[i]
    BY Parting
  <1> DEFINE w == Way(doc, path)[j - 1]
  <1>4. Nodes(q, doc)[j - 1] = w /\ Nodes(q, after)[j - 1] = Raised(doc, path, end)[j]
    <2>1. j - 1 <= Len(q) /\ j \in 1 .. Len(path)
      BY <1>2, <1>3
    <2> HIDE DEF n, end
    <2> QED  BY <1>1, <1>3, <2>1, RemoveBeside
  <1>5. /\ Accepts(w, path[j]) /\ Has(w, path[j]) /\ ~(w.t = "obj" /\ path[j] \in Digits)
    BY <1>1, RemovedFrom
  <1>6. w \in D
    <2> DEFINE m == n - 1
    <2>1. m \in Nat /\ Len(path) = m + 1 /\ j - 1 \in 0 .. m
      BY <1>2
    <2> HIDE DEF m
    <2> QED  BY <2>1, WayType
  <1>7. Child(Raised(doc, path, end)[j], q[j]) = Child(w, q[j])
    <2>1. CASE j = n
      <3>1. Raised(doc, path, end)[j] = Without(w, path[j])
        BY <1>2, <2>1, RaisedStep
      <3>2. w.t # "list"
        <4>1. SUFFICES ASSUME w.t = "list" PROVE FALSE
          OBVIOUS
        <4>2. Search(Front(path), doc) = w
          BY <1>1, <2>1, RemovedFrom
        <4>3. path[n] \in Digits
          BY <1>5, <2>1, <4>1 DEF Has
        <4>4. IsPrefix(Front(path), q)
          <5>1. /\ Plain(Front(path)) /\ Len(Front(path)) = n - 1
                /\ \A i \in 1 .. n - 1 : Front(path)[i] = path[i]
            BY PlainFront
          <5>2. SubSeq(Front(path), 1, n - 1) = SubSeq(q, 1, n - 1)
            BY <1>2, <1>3, <2>1, <5>1
          <5>3. n - 1 <= Len(q)
            BY <1>2, <1>3, <2>1
          <5> QED  BY <5>1, <5>2, <5>3 DEF IsPrefix
        <4> QED  BY <1>2, <4>1, <4>2, <4>3, <4>4
      <3> HIDE DEF w, n, end
      <3>3. w.t = "obj"
        BY <1>5, <3>2 DEF Has
      <3>4. w.t = "list" => w.l \in Seq(D)
        BY <3>2
      <3>5. Child(Without(w, path[j]), q[j]) = Child(w, q[j])
        BY <1>3, <1>5, <3>3, <3>4, WithoutRead
      <3> QED  BY <3>1, <3>5
    <2>2. CASE j # n
      <3> DEFINE up == Raised(doc, path, end)[j + 1]
                 filler == Fresh(path[j + 1])
      <3>1. Raised(doc, path, end)[j] = Put(w, path[j], up, filler)
        <4>1. j \in 1 .. n
          OBVIOUS
        <4>2. Len(path) = n
          OBVIOUS
        <4> HIDE DEF n, end
        <4>3. j \in 1 .. n - 1
          BY <1>2, <2>2, <4>1
        <4>4. Raised(doc, path, end)[j]
                = Put(Way(doc, path)[j - 1], path[j], Raised(doc, path, end)[j + 1],
                      Fresh(path[j + 1]))
          BY <1>2, <4>2, <4>3, RaisedStep
        <4> QED  BY <4>4
      <3>2. w.t = "list" => Len(w.l) \in Nat
        BY <1>6, ListOf
      <3> HIDE DEF w, n, end, up, filler
      <3> QED  BY <1>3, <1>5, <3>1, <3>2, PutOther
    <2> QED  BY <2>1, <2>2
  <1>8. Nodes(q, doc)[j] = Nodes(q, after)[j]
    <2>1. j \in 1 .. Len(q)
      BY <1>2, <1>3
    <2> HIDE DEF after, w, n, end
    <2>2. Nodes(q, doc)[j] = Child(Nodes(q, doc)[j - 1], q[j])
          /\ Nodes(q, after)[j] = Child(Nodes(q, after)[j - 1], q[j])
      BY <1>2, <2>1, NodesStep
    <2> QED  BY <1>4, <1>7, <2>2
  <1>9. Follow(q, doc) = Follow(q, after)
    <2>1. j \in 0 .. Len(q)
      BY <1>2, <1>3
    <2> HIDE DEF after
    <2> QED  BY <1>2, <1>8, <2>1, KeptBelow
  <1> QED  BY <1>9, PlainParts

---------------------------------------------------------------------------
(* What a rule builds is a document.                                       *)

\* A set, item by item, makes a document,
LEMMA PutType ==
    ASSUME NEW D, NEW Keys, NEW Chars, Documents(D, Keys, Chars), NEW d \in D, NEW v \in D,
           NEW filler \in D, NEW seg \in Keys, Accepts(d, seg)
    PROVE  Put(d, seg, v, filler) \in D
  <1>1. CASE d.t = "obj"
    <2> DEFINE f == [k \in DOMAIN d.f \cup {seg} |-> IF k = seg THEN v ELSE d.f[k]]
    <2>1. Put(d, seg, v, filler) = Obj(f)
      BY <1>1 DEF Put
    <2>2. /\ DOMAIN d.f \in SUBSET Keys /\ IsFiniteSet(DOMAIN d.f)
          /\ \A k \in DOMAIN d.f : d.f[k] \in D
      BY <1>1, ObjectParts DEF Documents
    <2>3. DOMAIN d.f \cup {seg} \in {K \in SUBSET Keys : IsFiniteSet(K)}
      BY <2>2, FS_AddElement
    <2>4. f \in [DOMAIN d.f \cup {seg} -> D]
      BY <2>2
    <2> HIDE DEF f
    <2>5. f \in Objects(D, Keys)
      BY <2>3, <2>4 DEF Objects
    <2> QED  BY <2>1, <2>5 DEF Documents
  <1>2. CASE d.t # "obj"
    <2>1. d.t = "list" /\ seg \in Digits /\ d.l \in Seq(D)
      BY <1>2 DEF Accepts, Documents
    <2> DEFINE x == Index(seg)
               n == IF x > Len(d.l) THEN x ELSE Len(d.l)
               l == [i \in 1 .. n |-> IF i = x THEN v ELSE IF i <= Len(d.l) THEN d.l[i] ELSE filler]
    <2>2. Put(d, seg, v, filler) = List(l)
      BY <1>2 DEF Put
    <2>3. x \in 1 .. 3 /\ Len(d.l) \in Nat /\ n \in Nat
      BY <2>1, IndexRange
    <2>4. \A i \in 1 .. n : i <= Len(d.l) => d.l[i] \in D
      BY <2>1, <2>3
    <2> HIDE DEF n
    <2>5. l \in Seq(D)
      BY <2>3, <2>4
    <2> HIDE DEF l
    <2> QED  BY <2>2, <2>5 DEF Documents
  <1> QED  BY <1>1, <1>2

\* ... a removal does,
LEMMA WithoutType ==
    ASSUME NEW D, NEW Keys, NEW Chars, Documents(D, Keys, Chars), NEW d \in D, NEW seg,
           Has(d, seg)
    PROVE  Without(d, seg) \in D
  <1>1. CASE d.t = "obj"
    <2> DEFINE f == [k \in DOMAIN d.f \ {seg} |-> d.f[k]]
    <2>1. Without(d, seg) = Obj(f)
      BY <1>1 DEF Without
    <2>2. /\ DOMAIN d.f \in SUBSET Keys /\ IsFiniteSet(DOMAIN d.f)
          /\ \A k \in DOMAIN d.f : d.f[k] \in D
      BY <1>1, ObjectParts DEF Documents
    <2>3. DOMAIN d.f \ {seg} \in {K \in SUBSET Keys : IsFiniteSet(K)}
      BY <2>2, FS_Subset
    <2>4. f \in [DOMAIN d.f \ {seg} -> D]
      BY <2>2
    <2> HIDE DEF f
    <2>5. f \in Objects(D, Keys)
      BY <2>3, <2>4 DEF Objects
    <2> QED  BY <2>1, <2>5 DEF Documents
  <1>2. CASE d.t # "obj"
    <2>1. d.t = "list" /\ seg \in Digits /\ Index(seg) <= Len(d.l) /\ d.l \in Seq(D)
      BY <1>2 DEF Has, Documents
    <2>2. Index(seg) \in 1 .. Len(d.l)
      BY <2>1, IndexRange
    <2>3. RemoveAt(d.l, Index(seg)) \in Seq(D)
      BY <2>1, <2>2, RemovedItem
    <2> QED  BY <1>2, <2>3 DEF Without, Documents
  <1> QED  BY <1>1, <1>2

\* ... the nodes above them do,
LEMMA RebuiltType ==
    ASSUME NEW D, NEW Keys, NEW Chars, Documents(D, Keys, Chars), NEW doc \in D,
           NEW path \in Seq(Keys), path # <<>>, NEW end \in D,
           \A i \in 1 .. Len(path) : Accepts(Way(doc, path)[i - 1], path[i])
    PROVE  Rebuilt(doc, path, end) \in D
  <1> DEFINE n == Len(path)
             S == {i \in 1 .. n : Raised(doc, path, end)[i] \in D}
  <1>1. n \in Nat /\ n # 0 /\ DOMAIN path = 1 .. n /\ Len(path) = n
    OBVIOUS
  <1>2. \A i \in 1 .. n : Way(doc, path)[i - 1] \in D
    <2> DEFINE m == n - 1
    <2>1. m \in Nat /\ Len(path) = m + 1
      BY <1>1
    <2>2. \A i \in 1 .. n : i - 1 \in 0 .. m
      BY <1>1
    <2> HIDE DEF m
    <2> QED  BY <2>1, <2>2, WayType
  <1> HIDE DEF n
  <1>3. n \in S
    <2>1. Raised(doc, path, end)[n] = end
      BY <1>1, RaisedStep
    <2> QED  BY <1>1, <2>1
  <1>4. ASSUME NEW i \in 1 .. n - 1, i + 1 \in S PROVE i \in S
    <2>1. i \in 1 .. n
      BY <1>1
    <2>2. Raised(doc, path, end)[i] = Put(Way(doc, path)[i - 1], path[i],
                                          Raised(doc, path, end)[i + 1], Fresh(path[i + 1]))
      BY <1>1, RaisedStep
    <2>3. /\ Way(doc, path)[i - 1] \in D /\ path[i] \in Keys /\ Fresh(path[i + 1]) \in D
          /\ Raised(doc, path, end)[i + 1] \in D /\ Accepts(Way(doc, path)[i - 1], path[i])
      BY <1>1, <1>2, <1>4, <2>1, FreshType
    <2>4. Put(Way(doc, path)[i - 1], path[i], Raised(doc, path, end)[i + 1],
              Fresh(path[i + 1])) \in D
      BY <2>3, PutType
    <2> QED  BY <2>1, <2>2, <2>4
  <1>5. \A i \in 1 .. n : i \in S
    <2> HIDE DEF S
    <2> QED  BY <1>1, <1>3, <1>4, Downward
  <1>6. 1 \in 1 .. n
    BY <1>1
  <1> QED  BY <1>5, <1>6 DEF Rebuilt

\* ... so _set_field returns a document,
LEMMA SetFieldType ==
    ASSUME NEW D, NEW Keys, NEW Chars, Documents(D, Keys, Chars), NEW doc \in D,
           NEW path \in Seq(Keys), NEW v \in D
    PROVE  SetField(doc, path, v) \in D
  <1>1. CASE path # <<>> /\ Passable(doc, path)
    <2> DEFINE d == Way(doc, path)[Len(path) - 1]
    <2>1. Len(path) \in Nat /\ DOMAIN path = 1 .. Len(path) /\ Len(path) # 0
          /\ Last(path) = path[Len(path)] /\ Len(path) \in 1 .. Len(path)
      BY <1>1 DEF Last
    <2>2. \A i \in 1 .. Len(path) : Accepts(Way(doc, path)[i - 1], path[i])
      BY <1>1, <2>1 DEF Passable
    <2>3. d \in D
      <3> DEFINE m == Len(path) - 1
      <3>1. m \in Nat /\ Len(path) = m + 1 /\ m \in 0 .. m
        BY <2>1
      <3> HIDE DEF m
      <3>2. Way(doc, path)[m] \in D
        BY <3>1, WayType
      <3> QED  BY <3>2 DEF m
    <2>4. Accepts(d, Last(path)) /\ Last(path) \in Keys
      BY <2>1, <2>2
    <2>5. Null \in D
      BY DEF Documents
    <2> HIDE DEF d
    <2>6. Put(d, Last(path), v, Null) \in D
      BY <2>3, <2>4, <2>5, PutType
    <2> QED  BY <1>1, <2>2, <2>6, RebuiltType DEF SetField, d
  <1>2. CASE ~(path # <<>> /\ Passable(doc, path))
    BY <1>2 DEF SetField
  <1> QED  BY <1>1, <1>2

\* ... and so does _remove_field.
LEMMA RemoveFieldType ==
    ASSUME NEW D, NEW Keys, NEW Chars, Documents(D, Keys, Chars), NEW doc \in D,
           NEW path \in Seq(Keys), "[]" \notin Keys
    PROVE  RemoveField(doc, path) \in D
  <1>1. CASE path # <<>> /\ Search(path, doc) # Null
    <2>1. Plain(path)
      BY DEF Plain, ToSet
    <2> DEFINE d == Way(doc, path)[Len(path) - 1]
    <2>2. Len(path) \in 1 .. Len(path) /\ Last(path) = path[Len(path)]
      BY <1>1 DEF Last
    <2>3. d \in D /\ Has(d, Last(path))
          /\ \A i \in 1 .. Len(path) : Accepts(Way(doc, path)[i - 1], path[i])
      BY <1>1, <2>1, <2>2, RemovedFrom
    <2> HIDE DEF d
    <2>4. Without(d, Last(path)) \in D
      BY <2>3, WithoutType
    <2> QED  BY <1>1, <2>3, <2>4, RebuiltType DEF RemoveField, d
  <1>2. CASE ~(path # <<>> /\ Search(path, doc) # Null)
    <2>1. CASE path = <<>>
      <3>1. Fresh("a") = Obj([k \in {} |-> Null]) /\ Fresh("0") = List(<<>>)
        BY DEF Fresh, Digits
      <3> QED  BY <2>1, <3>1, FreshType DEF RemoveField
    <2>2. CASE path # <<>>
      BY <1>2, <2>2 DEF RemoveField
    <2> QED  BY <2>1, <2>2
  <1> QED  BY <1>1, <1>2

\* The items of the lists in a list, one after the other.
LEMMA FlattenType ==
    ASSUME NEW D, NEW lists \in Seq(Seq(D))
    PROVE  FlattenSeq(lists) \in Seq(D)
  <1> DEFINE n == Len(lists)
             Join(l, i) == l \o lists[i]
             Along(at, m) ==
               at = [i \in 1 .. m |-> IF i = 1 THEN lists[i] ELSE Join(at[i - 1], i)]
             S == {m \in 0 .. n : \E at : Along(at, m)}
  <1>1. n \in Nat /\ \A i \in 1 .. n : lists[i] \in Seq(D)
    OBVIOUS
  <1>2. \A l \in Seq(D), i \in 1 .. n : Join(l, i) \in Seq(D)
    BY <1>1, ConcatProperties
  <1>3. FlattenSeq(lists) = IF n = 0 THEN lists ELSE (CHOOSE at : Along(at, n))[n]
    BY DEF FlattenSeq
  <1> HIDE DEF n, Join
  <1>4. 0 \in S
    <2>1. Along([i \in 1 .. 0 |-> lists[i]], 0)
      OBVIOUS
    <2>2. 0 \in 0 .. n
      BY <1>1
    <2> QED  BY <2>1, <2>2
  <1>5. ASSUME NEW m \in 0 .. n - 1, m \in S PROVE m + 1 \in S
    <2>1. PICK at : Along(at, m)
      BY <1>5
    <2> DEFINE last == IF m = 0 THEN lists[1] ELSE Join(at[m], m + 1)
               g == [i \in 1 .. m + 1 |-> IF i = m + 1 THEN last ELSE at[i]]
    <2>2. \A i \in 1 .. m :
             g[i] = at[i] /\ at[i] = IF i = 1 THEN lists[i] ELSE Join(at[i - 1], i)
      BY <2>1
    <2>3. g = [i \in 1 .. m + 1 |-> g[i]] /\ g[m + 1] = last
      OBVIOUS
    <2> HIDE DEF g
    <2>4. ASSUME NEW i \in 1 .. m + 1
          PROVE  g[i] = IF i = 1 THEN lists[i] ELSE Join(g[i - 1], i)
      <3>1. CASE i = m + 1
        <4>1. i = 1 <=> m = 0
          BY <3>1
        <4>2. m # 0 => m \in 1 .. m /\ i - 1 = m /\ g[m] = at[m]
          BY <2>2, <3>1
        <4> QED  BY <2>3, <3>1, <4>1, <4>2
      <3>2. CASE i \in 1 .. m
        <4>1. i # 1 => i - 1 \in 1 .. m
          BY <3>2
        <4> QED  BY <2>2, <3>2, <4>1
      <3> QED  BY <3>1, <3>2
    <2>5. Along(g, m + 1)
      BY <2>3, <2>4
    <2>6. m + 1 \in 0 .. n
      BY <1>1
    <2> QED  BY <2>5, <2>6
  <1>6. n \in S
    <2> HIDE DEF S
    <2>1. \A i \in 0 .. n : i \in S
      BY <1>1, <1>4, <1>5, Upward
    <2> QED  BY <1>1, <2>1
  <1> DEFINE flatten == CHOOSE at : Along(at, n)
  <1>7. Along(flatten, n)
    BY <1>6
  <1> HIDE DEF flatten
  <1>8. \A i \in 1 .. n : flatten[i] = IF i = 1 THEN lists[i] ELSE Join(flatten[i - 1], i)
    BY <1>7
  <1> HIDE DEF S
  <1> DEFINE T == {i \in 0 .. n : i # 0 => flatten[i] \in Seq(D)}
  <1>9. 0 \in T
    BY <1>1
  <1>10. ASSUME NEW i \in 0 .. n - 1, i \in T PROVE i + 1 \in T
    <2>1. i + 1 \in 1 .. n /\ i + 1 \in 0 .. n /\ (i + 1) - 1 = i
      BY <1>1
    <2>2. CASE i = 0
      BY <1>1, <1>8, <2>1, <2>2
    <2>3. CASE i # 0
      <3>1. flatten[i + 1] = Join(flatten[i], i + 1)
        BY <1>8, <2>1, <2>3
      <3>2. flatten[i] \in Seq(D)
        BY <1>10, <2>3
      <3>3. flatten[i + 1] \in Seq(D)
        BY <1>2, <2>1, <3>1, <3>2
      <3> QED  BY <2>1, <3>3
    <2> QED  BY <2>2, <2>3
  <1>11. n # 0 => flatten[n] \in Seq(D)
    <2> HIDE DEF T
    <2>1. \A i \in 0 .. n : i \in T
      BY <1>1, <1>9, <1>10, Upward
    <2>2. n \in T
      BY <1>1, <2>1
    <2> QED  BY <2>2 DEF T
  <1>12. n = 0 => lists = <<>> /\ <<>> \in Seq(D)
    BY DEF n
  <1> QED  BY <1>3, <1>11, <1>12 DEF flatten

\* A path leads to a document,
LEMMA FollowType ==
    ASSUME NEW D, NEW Keys, NEW Chars, Documents(D, Keys, Chars), NEW doc \in D,
           NEW path, Len(path) \in Nat
    PROVE  Follow(path, doc) \in D
  <1> DEFINE n == Len(path)
             S == {i \in 0 .. n : Nodes(path, doc)[i] \in D}
  <1>1. 0 \in S
    BY NodesStep
  <1>2. ASSUME NEW i \in 0 .. n - 1, i \in S PROVE i + 1 \in S
    <2>1. i + 1 \in 1 .. n /\ (i + 1) - 1 = i
      OBVIOUS
    <2>2. Nodes(path, doc)[i + 1] = Child(Nodes(path, doc)[i], path[i + 1])
      BY <2>1, NodesStep
    <2> QED  BY <1>2, <2>1, <2>2, ChildType
  <1>3. \A i \in 0 .. n : i \in S
    <2> HIDE DEF S
    <2> QED  BY <1>1, <1>2, Upward
  <1> QED  BY <1>3 DEF Follow

\* ... a projected list is a list of them,
LEMMA FlatType ==
    ASSUME NEW D, NEW Keys, NEW Chars, Documents(D, Keys, Chars), NEW l \in Seq(D)
    PROVE  Flat(l) \in Seq(D)
  <1> DEFINE lists == [i \in DOMAIN l |-> IF l[i].t = "list" THEN l[i].l ELSE <<l[i]>>]
  <1>1. Len(l) \in Nat /\ DOMAIN l = 1 .. Len(l)
    OBVIOUS
  <1>2. ASSUME NEW i \in DOMAIN l
        PROVE  (IF l[i].t = "list" THEN l[i].l ELSE <<l[i]>>) \in Seq(D)
    <2>1. l[i] \in D
      OBVIOUS
    <2> QED  BY <2>1 DEF Documents
  <1>3. lists \in Seq(Seq(D))
    BY <1>1, <1>2
  <1> HIDE DEF lists
  <1>4. FlattenSeq(lists) \in Seq(D)
    BY <1>3, FlattenType
  <1> QED  BY <1>4 DEF Flat, lists

\* ... and so a search returns a document.
LEMMA SearchType ==
    ASSUME NEW D, NEW Keys, NEW Chars, Documents(D, Keys, Chars), NEW doc \in D,
           NEW Segs, NEW path \in Seq(Segs)
    PROVE  Search(path, doc) \in D
  <1>1. Len(path) \in Nat /\ DOMAIN path = 1 .. Len(path)
    OBVIOUS
  <1>2. CASE "[]" \notin ToSet(path)
    BY <1>1, <1>2, FollowType DEF Search
  <1>3. CASE "[]" \in ToSet(path)
    <2> DEFINE k == CHOOSE i \in DOMAIN path : path[i] = "[]"
               list == Follow(SubSeq(path, 1, k - 1), doc)
               rest == SubSeq(path, k + 1, Len(path))
               items == Flat(list.l)
               ends == [i \in DOMAIN items |->
                          IF Follow(rest, items[i]) = Null THEN <<>> ELSE <<Follow(rest, items[i])>>]
    <2>1. k \in 1 .. Len(path)
      <3>1. \E i \in DOMAIN path : path[i] = "[]"
        BY <1>3 DEF ToSet
      <3> QED  BY <1>1, <3>1
    <2> HIDE DEF k
    <2>2. Len(SubSeq(path, 1, k - 1)) \in Nat /\ Len(rest) \in Nat
      BY <1>1, <2>1
    <2>3. list \in D
      BY <2>2, FollowType
    <2> HIDE DEF rest
    <2>4. Search(path, doc) = IF list.t = "list" THEN List(FlattenSeq(ends)) ELSE Null
      BY <1>3 DEF Search, Selected, k, rest
    <2>5. CASE list.t = "list"
      <3>1. items \in Seq(D)
        BY <2>3, <2>5, FlatType DEF Documents
      <3> HIDE DEF items
      <3>2. \A i \in DOMAIN items : Follow(rest, items[i]) \in D
        BY <2>2, <3>1, FollowType
      <3>3. ends \in Seq(Seq(D))
        <4>1. ASSUME NEW i \in DOMAIN items
              PROVE  (IF Follow(rest, items[i]) = Null THEN <<>> ELSE <<Follow(rest, items[i])>>)
                       \in Seq(D)
          <5> DEFINE x == Follow(rest, items[i])
          <5>1. x \in D
            BY <3>2
          <5> HIDE DEF x
          <5>2. <<>> \in Seq(D) /\ <<x>> \in Seq(D)
            BY <5>1
          <5> QED  BY <5>2 DEF x
        <4>2. DOMAIN items = 1 .. Len(items) /\ Len(items) \in Nat
          BY <3>1
        <4> QED  BY <4>1, <4>2
      <3> HIDE DEF ends
      <3>4. FlattenSeq(ends) \in Seq(D)
        BY <3>3, FlattenType
      <3> HIDE DEF list
      <3> QED  BY <2>4, <2>5, <3>4 DEF Documents
    <2>6. CASE list.t # "list"
      BY <2>4, <2>6 DEF Documents
    <2> QED  BY <2>5, <2>6
  <1> QED  BY <1>2, <1>3

\* Paths of references and of conditions, which may have a projection.
Segments(Keys) == Keys \cup {"[]"}

\* A value without nested ones: a document, a reference, a text with one.
Plainly(D, Keys, Chars) ==
    D \cup {Ref(p) : p \in Seq(Segments(Keys))}
      \cup {Mixed(s, p) : s \in Seq(Chars), p \in Seq(Segments(Keys))}

\* The values of rules, nested once.
RuleValues(D, Keys, Chars) ==
    Plainly(D, Keys, Chars)
      \cup {Obj(f) : f \in Objects(Plainly(D, Keys, Chars), Keys)}
      \cup {List(l) : l \in Seq(Plainly(D, Keys, Chars))}

\* Rules whose paths have no projection.
WellFormedRules(D, Keys, Chars, rules) ==
    /\ rules \in Seq({rules[i] : i \in DOMAIN rules})
    /\ \A i \in DOMAIN rules :
         /\ rules[i].path \in Seq(Keys)
         /\ rules[i].value \in RuleValues(D, Keys, Chars) \cup {NoValue}

\* A reference is resolved to a document,
LEMMA ResolvedType ==
    ASSUME NEW D, NEW Keys, NEW Chars, Documents(D, Keys, Chars), NEW doc \in D,
           NEW v \in Plainly(D, Keys, Chars)
    PROVE  Resolved(v, doc) \in D
  <1>1. CASE v \in D
    BY <1>1 DEF Resolved, Documents
  <1>2. CASE v \in {Ref(p) : p \in Seq(Segments(Keys))}
    <2>1. PICK p \in Seq(Segments(Keys)) : v = Ref(p)
      BY <1>2
    <2>2. v.t = "ref" /\ v.path = p
      BY <2>1 DEF Ref
    <2>3. Search(p, doc) \in D
      BY <2>1, SearchType
    <2> QED  BY <2>2, <2>3 DEF Resolved
  <1>3. CASE v \in {Mixed(s, p) : s \in Seq(Chars), p \in Seq(Segments(Keys))}
    <2>1. PICK s \in Seq(Chars), p \in Seq(Segments(Keys)) : v = Mixed(s, p)
      BY <1>3
    <2>2. v.t = "mixed" /\ v.path = p /\ v.s = s /\ s \in Seq(Chars)
      BY <2>1 DEF Mixed
    <2> DEFINE d == Search(p, doc)
    <2>3. d \in D
      BY <2>1, SearchType
    <2>4. Resolved(v, doc) = Str(IF d = Null THEN v.s ELSE v.s \o Text(d))
      BY <2>2 DEF Resolved
    <2> HIDE DEF d
    <2>5. Text(d) \in Seq(Chars)
      <3>1. "None" \in Chars /\ "JSON" \in Chars
        BY DEF Documents
      <3>2. d.t = "num" => ToString(d.n) \in Chars
        BY <2>3 DEF Documents
      <3>3. d.t = "str" => d.s \in Seq(Chars)
        BY <2>3 DEF Documents
      <3>4. /\ <<"None">> \in Seq(Chars) /\ <<"JSON">> \in Seq(Chars)
            /\ d.t = "num" => <<ToString(d.n)>> \in Seq(Chars)
        BY <3>1, <3>2
      <3> QED  BY <3>3, <3>4 DEF Text
    <2>6. v.s \o Text(d) \in Seq(Chars)
      BY <2>2, <2>5, ConcatProperties
    <2> QED  BY <2>2, <2>4, <2>6 DEF Documents
  <1> QED  BY <1>1, <1>2, <1>3 DEF Plainly

\* ... and so are those in a value.
LEMMA ProcessedType ==
    ASSUME NEW D, NEW Keys, NEW Chars, Documents(D, Keys, Chars), NEW doc \in D,
           NEW v \in RuleValues(D, Keys, Chars)
    PROVE  Processed(v, doc) \in D
  <1> DEFINE P == Plainly(D, Keys, Chars)
  <1>1. D \subseteq P
    BY DEF Plainly
  <1>2. ASSUME v.t = "obj", v.f \in Objects(P, Keys) PROVE Processed(v, doc) \in D
    <2> DEFINE f == [k \in DOMAIN v.f |-> Resolved(v.f[k], doc)]
    <2>1. Processed(v, doc) = Obj(f)
      BY <1>2 DEF Processed
    <2>2. /\ DOMAIN v.f \in SUBSET Keys /\ IsFiniteSet(DOMAIN v.f)
          /\ \A k \in DOMAIN v.f : v.f[k] \in P
      <3> HIDE DEF P
      <3> QED  BY <1>2, ObjectParts
    <2>3. f \in [DOMAIN v.f -> D]
      BY <2>2, ResolvedType
    <2> HIDE DEF f
    <2>4. f \in Objects(D, Keys)
      BY <2>2, <2>3 DEF Objects
    <2> QED  BY <2>1, <2>4 DEF Documents
  <1>3. ASSUME v.t = "list", v.l \in Seq(P) PROVE Processed(v, doc) \in D
    <2> DEFINE l == [i \in DOMAIN v.l |-> Resolved(v.l[i], doc)]
    <2>1. Processed(v, doc) = List(l)
      BY <1>3 DEF Processed
    <2>2. DOMAIN v.l = 1 .. Len(v.l) /\ Len(v.l) \in Nat /\ \A i \in DOMAIN v.l : v.l[i] \in P
      <3> HIDE DEF P
      <3> QED  BY <1>3
    <2>3. \A i \in DOMAIN v.l : Resolved(v.l[i], doc) \in D
      BY <2>2, ResolvedType
    <2>4. l \in Seq(D)
      BY <2>2, <2>3
    <2> HIDE DEF l
    <2> QED  BY <2>1, <2>4 DEF Documents
  <1>4. ASSUME v \in P, v.t \notin {"obj", "list"} PROVE Processed(v, doc) \in D
    BY <1>4, ResolvedType DEF Processed
  <1>5. CASE v \in D
    <2>1. CASE v.t = "obj"
      <3>1. v.f \in Objects(D, Keys)
        BY <1>5, <2>1 DEF Documents
      <3>2. PICK K \in {K \in SUBSET Keys : IsFiniteSet(K)} : v.f \in [K -> D]
        BY <3>1 DEF Objects
      <3> HIDE DEF P
      <3>3. v.f \in [K -> P]
        BY <1>1, <3>2
      <3>4. v.f \in Objects(P, Keys)
        BY <3>3 DEF Objects
      <3> QED  BY <1>2, <2>1, <3>4
    <2>2. CASE v.t = "list"
      <3>1. v.l \in Seq(D)
        BY <1>5, <2>2 DEF Documents
      <3> HIDE DEF P
      <3>2. v.l \in Seq(P)
        BY <1>1, <3>1
      <3> QED  BY <1>3, <2>2, <3>2
    <2> HIDE DEF P
    <2> QED  BY <1>1, <1>4, <1>5, <2>1, <2>2
  <1>6. CASE v \in P \ D
    <2>1. v.t \in {"ref", "mixed"}
      BY <1>6 DEF Plainly, Ref, Mixed
    <2> HIDE DEF P
    <2> QED  BY <1>4, <1>6, <2>1
  <1>7. CASE v \in {Obj(f) : f \in Objects(P, Keys)}
    <2> HIDE DEF P
    <2> QED  BY <1>2, <1>7 DEF Obj
  <1>8. CASE v \in {List(l) : l \in Seq(P)}
    <2> HIDE DEF P
    <2> QED  BY <1>3, <1>8 DEF List
  <1> QED  BY <1>5, <1>6, <1>7, <1>8 DEF RuleValues

\* Every rule turns a document into a document.
LEMMA RewrittenType ==
    ASSUME NEW D, NEW Keys, NEW Chars, Documents(D, Keys, Chars), "[]" \notin Keys,
           NEW doc \in D, NEW rule, rule.path \in Seq(Keys),
           rule.value \in RuleValues(D, Keys, Chars) \cup {NoValue}
    PROVE  Rewritten(doc, rule) \in D
  <1>1. CASE ~Applies(rule, doc)
    BY <1>1 DEF Rewritten
  <1>2. CASE Applies(rule, doc) /\ rule.operation = "set"
    <2>1. rule.value \in RuleValues(D, Keys, Chars)
      BY <1>2 DEF Applies
    <2> QED  BY <1>2, <2>1, ProcessedType, SetFieldType DEF Rewritten
  <1>3. CASE Applies(rule, doc) /\ rule.operation # "set"
    BY <1>3, RemoveFieldType DEF Rewritten
  <1> QED  BY <1>1, <1>2, <1>3

\* ... and so do all of them in order.
LEMMA ApplyType ==
    ASSUME NEW D, NEW Keys, NEW Chars, Documents(D, Keys, Chars), "[]" \notin Keys,
           NEW doc \in D, NEW rules, WellFormedRules(D, Keys, Chars, rules)
    PROVE  Apply(doc, rules) \in D
  <1> DEFINE n == Len(rules)
             S == {i \in 0 .. n : Results(doc, rules)[i] \in D}
  <1>1. n \in Nat /\ DOMAIN rules = 1 .. n
    BY DEF WellFormedRules
  <1>2. 0 \in S
    BY <1>1, ResultsStep
  <1>3. ASSUME NEW i \in 0 .. n - 1, i \in S PROVE i + 1 \in S
    <2>1. i + 1 \in 1 .. n /\ (i + 1) - 1 = i
      BY <1>1
    <2>2. Results(doc, rules)[i + 1] = Rewritten(Results(doc, rules)[i], rules[i + 1])
      BY <1>1, <2>1, ResultsStep
    <2>3. /\ rules[i + 1].path \in Seq(Keys)
          /\ rules[i + 1].value \in RuleValues(D, Keys, Chars) \cup {NoValue}
      BY <1>1, <2>1 DEF WellFormedRules
    <2>4. Results(doc, rules)[i + 1] \in D
      BY <1>3, <2>2, <2>3, RewrittenType
    <2> QED  BY <2>1, <2>4
  <1>4. \A i \in 0 .. n : i \in S
    <2> HIDE DEF S, n
    <2> QED  BY <1>1, <1>2, <1>3, Upward
  <1> QED  BY <1>1, <1>4 DEF Apply

---------------------------------------------------------------------------
(* The JSON documents, by how deep they nest, are such a set of documents. *)

\* Documents of depth 0.
Scalars(Chars, Numbers) ==
    {Null} \cup {Num(n) : n \in Numbers} \cup {Str(s) : s \in Seq(Chars)}

\* The documents of L and those made of them.
Deeper(L, Keys) == L \cup {List(l) : l \in Seq(L)} \cup {Obj(f) : f \in Objects(L, Keys)}

\* The documents that nest up to a depth.
Depth(Keys, Chars, Numbers) ==
    LET level[n \in Nat] ==
            IF n = 0 THEN Scalars(Chars, Numbers) ELSE Deeper(level[n - 1], Keys)
    IN  level

\* All of them.
Json(Keys, Chars, Numbers) == UNION {Depth(Keys, Chars, Numbers)[n] : n \in Nat}

\* The documents of each depth are what their definition says.
LEMMA DepthStep ==
    ASSUME NEW Keys, NEW Chars, NEW Numbers
    PROVE  LET level == Depth(Keys, Chars, Numbers)
           IN  /\ level[0] = Scalars(Chars, Numbers)
               /\ \A n \in Nat : level[n + 1] = Deeper(level[n], Keys)
  <1> DEFINE Along(at, m) ==
        at = [i \in 0 .. m |->
                IF i = 0 THEN Scalars(Chars, Numbers) ELSE Deeper(at[i - 1], Keys)]
      S == {m \in Nat : \E at : Along(at, m)}
  <1>1. 0 \in S
    <2>1. Along([i \in {0} |-> Scalars(Chars, Numbers)], 0)
      OBVIOUS
    <2> QED  BY <2>1
  <1>2. ASSUME NEW m \in Nat, m \in S PROVE m + 1 \in S
    <2>1. PICK at : Along(at, m)
      BY <1>2
    <2> DEFINE last == Deeper(at[m], Keys)
               g == [i \in 0 .. m + 1 |-> IF i = m + 1 THEN last ELSE at[i]]
    <2>2. \A i \in 0 .. m :
             /\ g[i] = at[i]
             /\ at[i] = IF i = 0 THEN Scalars(Chars, Numbers) ELSE Deeper(at[i - 1], Keys)
      BY <2>1
    <2>3. g = [i \in 0 .. m + 1 |-> g[i]] /\ g[m + 1] = last
      OBVIOUS
    <2> HIDE DEF g
    <2>4. ASSUME NEW i \in 0 .. m + 1
          PROVE  g[i] = IF i = 0 THEN Scalars(Chars, Numbers) ELSE Deeper(g[i - 1], Keys)
      <3>1. CASE i = m + 1
        <4>1. i # 0 /\ i - 1 = m /\ g[m] = at[m]
          BY <2>2, <3>1
        <4> QED  BY <2>3, <3>1, <4>1
      <3>2. CASE i \in 0 .. m
        <4>1. i # 0 => i - 1 \in 0 .. m
          BY <3>2
        <4> QED  BY <2>2, <3>2, <4>1
      <3> QED  BY <3>1, <3>2
    <2>5. Along(g, m + 1)
      BY <2>3, <2>4
    <2>6. m + 1 \in Nat
      OBVIOUS
    <2> QED  BY <2>5, <2>6
  <1>3. \A n \in Nat : n \in S
    <2> HIDE DEF S
    <2> TAKE n \in Nat
    <2>1. \A i \in 0 .. n : i \in S
      BY <1>1, <1>2, Upward
    <2> QED  BY <2>1
  <1> DEFINE A(m) == CHOOSE at : Along(at, m)
  <1>4. \A m \in Nat : Along(A(m), m)
    BY <1>3
  <1> HIDE DEF S, A
  <1>5. ASSUME NEW m \in Nat
        PROVE  /\ A(m)[0] = Scalars(Chars, Numbers)
               /\ \A i \in 1 .. m : A(m)[i] = Deeper(A(m)[i - 1], Keys)
    <2>1. Along(A(m), m)
      BY <1>4
    <2>2. \A i \in 0 .. m :
             A(m)[i] = IF i = 0 THEN Scalars(Chars, Numbers) ELSE Deeper(A(m)[i - 1], Keys)
      BY <2>1
    <2> QED  BY <2>2
  <1> HIDE DEF Along
  <1>6. ASSUME NEW m \in Nat PROVE A(m + 1)[m] = A(m)[m]
    <2> DEFINE T == {i \in 0 .. m : A(m + 1)[i] = A(m)[i]}
    <2>1. 0 \in T
      BY <1>5
    <2>2. ASSUME NEW i \in 0 .. m - 1, i \in T PROVE i + 1 \in T
      <3>1. i + 1 \in 1 .. m /\ i + 1 \in 1 .. m + 1 /\ (i + 1) - 1 = i /\ m + 1 \in Nat
        OBVIOUS
      <3>2. A(m)[i + 1] = Deeper(A(m)[i], Keys) /\ A(m + 1)[i + 1] = Deeper(A(m + 1)[i], Keys)
        BY <1>5, <3>1
      <3> QED  BY <2>2, <3>1, <3>2
    <2>3. \A i \in 0 .. m : i \in T
      <3> HIDE DEF T
      <3> QED  BY <2>1, <2>2, Upward
    <2> QED  BY <2>3
  <1> DEFINE F == [n \in Nat |-> A(n)[n]]
             Level(at) ==
               at = [n \in Nat |->
                       IF n = 0 THEN Scalars(Chars, Numbers) ELSE Deeper(at[n - 1], Keys)]
  <1>7. ASSUME NEW n \in Nat
        PROVE  F[n] = IF n = 0 THEN Scalars(Chars, Numbers) ELSE Deeper(F[n - 1], Keys)
    <2>1. CASE n = 0
      BY <1>5, <2>1
    <2>2. CASE n # 0
      <3> DEFINE m == n - 1
      <3>1. m \in Nat /\ n = m + 1 /\ n \in 1 .. n
        BY <2>2
      <3> HIDE DEF m
      <3>2. A(n)[n] = Deeper(A(n)[m], Keys)
        BY <1>5, <3>1
      <3>3. A(n)[m] = A(m)[m]
        BY <1>6, <3>1
      <3>4. F[n] = A(n)[n] /\ F[m] = A(m)[m]
        BY <3>1
      <3> QED  BY <2>2, <3>2, <3>3, <3>4 DEF m
    <2> QED  BY <2>1, <2>2
  <1>8. F = [n \in Nat |-> F[n]]
    OBVIOUS
  <1> HIDE DEF F
  <1>9. Level(F)
    BY <1>7, <1>8
  <1>10. Depth(Keys, Chars, Numbers) = CHOOSE at : Level(at)
    BY DEF Depth
  <1>11. Level(Depth(Keys, Chars, Numbers))
    BY <1>9, <1>10
  <1> DEFINE level == Depth(Keys, Chars, Numbers)
  <1> HIDE DEF level
  <1>12. \A n \in Nat : level[n] = IF n = 0 THEN Scalars(Chars, Numbers) ELSE Deeper(level[n - 1], Keys)
    BY <1>11 DEF level
  <1>13. \A n \in Nat : n + 1 \in Nat /\ n + 1 # 0 /\ (n + 1) - 1 = n
    OBVIOUS
  <1> QED  BY <1>12, <1>13 DEF level

\* Documents have a depth in common, when there are finitely many.
LEMMA CommonDepth ==
    ASSUME NEW Keys, NEW Chars, NEW Numbers, NEW m \in Nat, NEW g,
           \A k \in 1 .. m : g[k] \in Json(Keys, Chars, Numbers)
    PROVE  \E n \in Nat : \A k \in 1 .. m : g[k] \in Depth(Keys, Chars, Numbers)[n]
  <1> DEFINE level == Depth(Keys, Chars, Numbers)
  <1>1. \A n \in Nat : level[n] \subseteq level[n + 1]
    BY DepthStep DEF Deeper
  <1>2. \A k \in 1 .. m : \E n \in Nat : g[k] \in level[n]
    BY DEF Json
  <1> HIDE DEF level
  <1>3. ASSUME NEW n \in Nat, NEW h \in Nat PROVE level[n] \subseteq level[n + h]
    <2> DEFINE T == {i \in 0 .. h : level[n] \subseteq level[n + i]}
    <2>1. 0 \in T
      OBVIOUS
    <2>2. ASSUME NEW i \in 0 .. h - 1, i \in T PROVE i + 1 \in T
      <3>1. n + i \in Nat /\ (n + i) + 1 = n + (i + 1) /\ i + 1 \in 0 .. h
        OBVIOUS
      <3>2. level[n + i] \subseteq level[n + (i + 1)]
        BY <1>1, <3>1
      <3> QED  BY <2>2, <3>1, <3>2
    <2>3. \A i \in 0 .. h : i \in T
      <3> HIDE DEF T
      <3> QED  BY <2>1, <2>2, Upward
    <2> QED  BY <2>3
  <1> DEFINE Below(i) == \E n \in Nat : \A k \in 1 .. i : g[k] \in level[n]
             S == {i \in 0 .. m : Below(i)}
  <1>4. 0 \in S
    <2>1. \A k \in 1 .. 0 : g[k] \in level[0]
      OBVIOUS
    <2> QED  BY <2>1
  <1>5. ASSUME NEW i \in 0 .. m - 1, i \in S PROVE i + 1 \in S
    <2>1. PICK n \in Nat : \A k \in 1 .. i : g[k] \in level[n]
      BY <1>5
    <2>2. i + 1 \in 1 .. m
      OBVIOUS
    <2>3. PICK h \in Nat : g[i + 1] \in level[h]
      BY <1>2, <2>2
    <2>4. n \in Nat /\ h \in Nat /\ n + h \in Nat /\ h + n = n + h
      BY <2>1, <2>3
    <2>5. level[n] \subseteq level[n + h] /\ level[h] \subseteq level[n + h]
      <3>1. level[h] \subseteq level[h + n]
        BY <1>3, <2>4
      <3> QED  BY <1>3, <2>4, <3>1
    <2>6. ASSUME NEW k \in 1 .. i + 1 PROVE g[k] \in level[n + h]
      <3>1. k = i + 1 \/ k \in 1 .. i
        OBVIOUS
      <3> QED  BY <2>1, <2>3, <2>5, <3>1
    <2>7. Below(i + 1)
      BY <2>4, <2>6
    <2> HIDE DEF Below
    <2> QED  BY <2>2, <2>7
  <1>6. m \in S
    <2> HIDE DEF S
    <2>1. \A i \in 0 .. m : i \in S
      BY <1>4, <1>5, Upward
    <2> QED  BY <2>1
  <1> QED  BY <1>6 DEF level

\* The JSON documents are made of one another.
LEMMA JsonDocuments ==
    ASSUME NEW Keys, NEW Chars, NEW Numbers, {"None", "JSON"} \subseteq Chars,
           \A n \in Numbers : ToString(n) \in Chars
    PROVE  Documents(Json(Keys, Chars, Numbers), Keys, Chars)
  <1> DEFINE level == Depth(Keys, Chars, Numbers)
             D == Json(Keys, Chars, Numbers)
  <1>1. /\ level[0] = Scalars(Chars, Numbers)
        /\ \A n \in Nat : level[n + 1] = Deeper(level[n], Keys)
    BY DepthStep
  <1>2. /\ \A n \in Nat : level[n] \subseteq D
        /\ \A d \in D : \E n \in Nat : d \in level[n]
    BY DEF Json
  <1>3. \A m \in Nat : \A g : (\A k \in 1 .. m : g[k] \in D)
                               => \E n \in Nat : \A k \in 1 .. m : g[k] \in level[n]
    BY CommonDepth
  <1> HIDE DEF level, D
  <1> DEFINE Made(d) ==
        /\ d.t \in {"null", "num", "str", "obj", "list"}
        /\ d.t = "num" => ToString(d.n) \in Chars
        /\ d.t = "str" => d.s \in Seq(Chars)
        /\ d.t = "obj" => d.f \in Objects(D, Keys)
        /\ d.t = "list" => d.l \in Seq(D)
      S == {n \in Nat : \A d \in level[n] : Made(d)}
  <1>4. 0 \in S
    <2>1. ASSUME NEW d \in Scalars(Chars, Numbers) PROVE Made(d)
      BY DEF Scalars, Null, Num, Str
    <2> HIDE DEF Made
    <2> QED  BY <1>1, <2>1
  <1>5. ASSUME NEW n \in Nat, n \in S PROVE n + 1 \in S
    <2>1. \A d \in level[n] : Made(d)
      BY <1>5
    <2>2. level[n] \subseteq D /\ level[n + 1] = Deeper(level[n], Keys)
      BY <1>1, <1>2
    <2>3. ASSUME NEW l \in Seq(level[n]) PROVE Made(List(l))
      <3>1. l \in Seq(D)
        BY <2>2
      <3>2. List(l).t = "list" /\ List(l).l = l
        BY DEF List
      <3> QED  BY <3>1, <3>2
    <2>4. ASSUME NEW f \in Objects(level[n], Keys) PROVE Made(Obj(f))
      <3>1. PICK K \in {K \in SUBSET Keys : IsFiniteSet(K)} : f \in [K -> level[n]]
        BY DEF Objects
      <3>2. f \in [K -> D]
        BY <2>2, <3>1
      <3>3. f \in Objects(D, Keys)
        BY <3>2 DEF Objects
      <3>4. Obj(f).t = "obj" /\ Obj(f).f = f
        BY DEF Obj
      <3> QED  BY <3>3, <3>4
    <2> HIDE DEF Made
    <2>5. \A d \in level[n + 1] : Made(d)
      BY <2>1, <2>2, <2>3, <2>4 DEF Deeper
    <2> QED  BY <2>5
  <1>6. \A d \in D : Made(d)
    <2> HIDE DEF S, Made
    <2>1. \A n \in Nat : n \in S
      <3> TAKE n \in Nat
      <3>1. \A i \in 0 .. n : i \in S
        BY <1>4, <1>5, Upward
      <3> QED  BY <3>1
    <2> QED  BY <1>2, <2>1 DEF S
  <1>7. Null \in D /\ \A s \in Seq(Chars) : Str(s) \in D
    <2>1. Null \in Scalars(Chars, Numbers) /\ \A s \in Seq(Chars) : Str(s) \in Scalars(Chars, Numbers)
      BY DEF Scalars
    <2>2. Scalars(Chars, Numbers) \subseteq D
      BY <1>1, <1>2
    <2> QED  BY <2>1, <2>2
  <1>8. ASSUME NEW l \in Seq(D) PROVE List(l) \in D
    <2>1. Len(l) \in Nat /\ \A k \in 1 .. Len(l) : l[k] \in D
      OBVIOUS
    <2>2. PICK n \in Nat : \A k \in 1 .. Len(l) : l[k] \in level[n]
      BY <1>3, <2>1
    <2>3. l \in Seq(level[n])
      BY <2>2
    <2>4. List(l) \in level[n + 1]
      BY <1>1, <2>3 DEF Deeper
    <2>5. n + 1 \in Nat
      OBVIOUS
    <2> QED  BY <1>2, <2>4, <2>5
  <1>9. ASSUME NEW f \in Objects(D, Keys) PROVE Obj(f) \in D
    <2>1. PICK K \in {K \in SUBSET Keys : IsFiniteSet(K)} : f \in [K -> D]
      BY DEF Objects
    <2>2. K \in SUBSET Keys /\ IsFiniteSet(K)
      BY <2>1
    <2>3. PICK m \in Nat : ExistsSurjection(1 .. m, K)
      BY <2>2, FS_NatSurjection
    <2>4. PICK h \in Surjection(1 .. m, K) : TRUE
      BY <2>3 DEF ExistsSurjection
    <2>5. h \in [1 .. m -> K] /\ \A x \in K : \E k \in 1 .. m : h[k] = x
      BY <2>4 DEF Surjection
    <2> DEFINE g == [k \in 1 .. m |-> f[h[k]]]
    <2>6. m \in Nat /\ \A k \in 1 .. m : g[k] = f[h[k]] /\ g[k] \in D
      BY <2>1, <2>3, <2>5
    <2> HIDE DEF g
    <2>7. PICK n \in Nat : \A k \in 1 .. m : g[k] \in level[n]
      BY <1>3, <2>6
    <2>8. \A x \in K : f[x] \in level[n]
      BY <2>5, <2>6, <2>7
    <2>9. f \in [K -> level[n]]
      BY <2>1, <2>8
    <2>10. f \in Objects(level[n], Keys)
      BY <2>2, <2>9 DEF Objects
    <2>11. Obj(f) \in level[n + 1] /\ n + 1 \in Nat
      BY <1>1, <2>7, <2>10 DEF Deeper
    <2> QED  BY <1>2, <2>11
  <1> HIDE DEF S
  <1>10. Documents(D, Keys, Chars)
    BY <1>6, <1>7, <1>8, <1>9 DEF Documents
  <1> QED  BY <1>10 DEF D
=============================================================================
