-------------------------- MODULE Observation_proofs --------------------------
(***************************************************************************)
(* Proofs about the observation contract: the document toJson() writes of  *)
(* a record is one that fromJson() accepts and reads as the same record,   *)
(* for every record over any texts T and any numbers N.                    *)
(*                                                                         *)
(* A document is a tree of a fixed depth (Deep1 to Deep4), so that "no key *)
(* twice" is shown level by level; an object is the set of its members     *)
(* (Object), which are found by key (Found).                               *)
(*                                                                         *)
(* And about the measurement (ScoutAnalyzer), whatever surface the least   *)
(* squares fit to the light of a frame: what the labelling loop finds are  *)
(* the connected parts of what is dark, each once, for every grid, each    *)
(* region of background that does not reach the edge is one hole, the      *)
(* threshold parts the levels of any frame so that they differ least       *)
(* within the two classes, and the reference and the subject are two of    *)
(* the parts, for every frame.  A loop is a function of its round; what it *)
(* keeps is proved for the least round that could break it (Loop,          *)
(* Counted), and the flood fill is right for the set that leaves the       *)
(* fewest pixels, then for all.  A sum is the fold's, whichever member is  *)
(* taken first (Every, SumOne).                                            *)
(***************************************************************************)
EXTENDS ScoutAnalyzer, SequenceTheorems, FiniteSetTheorems, WellFoundedInduction, TLAPS

\* A non-empty set of natural numbers has a least element.
LEMMA LeastOf ==
  ASSUME NEW S \in SUBSET Nat, S # {}
  PROVE  Min(S) \in S /\ \A y \in S : Min(S) <= y
<1> DEFINE R == OpToRel(<, Nat)
<1>1. \A x, y \in Nat : <<y, x>> \notin R => x <= y
  BY DEF OpToRel
<1>2. IsWellFoundedOn(R, Nat)
  BY NatLessThanWellFounded DEF OpToRel
<1> HIDE DEF R
<1>3. PICK x \in S : \A y \in S : <<y, x>> \notin R
  BY <1>2, WFMin
<1>4. \A y \in S : x <= y
  BY <1>1, <1>3, Zenon
<1> QED
  BY <1>4, Zenon DEF Min

-----------------------------------------------------------------------------
(* Objects                                                                 *)

\* A sequence of members is an object with the set F of members: each is there, and
\* no key is there twice.
Object(o, F) == o \in Seq(F) /\ (\A p \in F : \E i \in DOMAIN o : o[i] = p) /\ NoKeyTwice(o)

\* No members.
LEMMA Empty == Object(<<>>, {})
  BY DEF Object, NoKeyTwice

\* One member.
LEMMA OneMember == ASSUME NEW p PROVE Object(<<p>>, {p})
<1>1. <<p>> \in Seq({p}) /\ DOMAIN <<p>> = {1} /\ <<p>>[1] = p
  OBVIOUS
<1> QED
  BY <1>1 DEF Object, NoKeyTwice

\* The members of two objects without a common key.
LEMMA Together ==
  ASSUME NEW s, NEW t, NEW F, NEW G, Object(s, F), Object(t, G),
         \A p \in F, q \in G : p[1] # q[1]
  PROVE  Object(s \o t, F \cup G)
<1> DEFINE c == s \o t
<1>1. s \in Seq(F \cup G) /\ t \in Seq(F \cup G)
  BY SeqMonotonic DEF Object
<1>2. /\ c \in Seq(F \cup G) /\ Len(s) \in Nat /\ Len(t) \in Nat
      /\ DOMAIN s = 1 .. Len(s) /\ DOMAIN t = 1 .. Len(t)
      /\ DOMAIN c = 1 .. Len(s) + Len(t)
      /\ \A i \in 1 .. Len(s) : c[i] = s[i] /\ s[i] \in F
      /\ \A i \in 1 .. Len(t) : c[i + Len(s)] = t[i] /\ t[i] \in G
  <2>1. /\ c \in Seq(F \cup G) /\ Len(c) = Len(s) + Len(t)
        /\ \A i \in 1 .. Len(s) + Len(t) : c[i] = IF i <= Len(s) THEN s[i] ELSE t[i - Len(s)]
    BY <1>1, ConcatProperties
  <2>2. Len(s) \in Nat /\ Len(t) \in Nat
    BY <1>1
  <2>3. \A i \in 1 .. Len(s) : s[i] \in F
    BY DEF Object
  <2>4. \A i \in 1 .. Len(t) : t[i] \in G
    BY DEF Object
  <2> HIDE DEF c
  <2>5. /\ \A i \in 1 .. Len(s) : i \in 1 .. Len(s) + Len(t)
        /\ \A i \in 1 .. Len(t) : /\ i + Len(s) \in 1 .. Len(s) + Len(t)
                                  /\ ~(i + Len(s) <= Len(s)) /\ i + Len(s) - Len(s) = i
    BY <2>2
  <2>6. DOMAIN s = 1 .. Len(s) /\ DOMAIN t = 1 .. Len(t) /\ DOMAIN c = 1 .. Len(s) + Len(t)
    BY <1>1, <2>1
  <2>7. \A i \in 1 .. Len(s) : c[i] = s[i]
    BY <2>1, <2>2, <2>5
  <2>8. \A i \in 1 .. Len(t) : c[i + Len(s)] = t[i]
    BY <2>1, <2>5
  <2> QED
    BY <2>1, <2>2, <2>3, <2>4, <2>6, <2>7, <2>8
<1> HIDE DEF c
<1>3. \A i \in DOMAIN c : i \in 1 .. Len(s) \/ \E k \in 1 .. Len(t) : i = k + Len(s)
  <2> TAKE i \in DOMAIN c
  <2>1. i > Len(s) => i - Len(s) \in 1 .. Len(t) /\ i = (i - Len(s)) + Len(s)
    BY <1>2
  <2> QED
    BY <1>2, <2>1
<1>4. ASSUME NEW p \in F \cup G PROVE \E i \in DOMAIN c : c[i] = p
  <2>1. CASE p \in F
    <3>1. PICK i \in DOMAIN s : s[i] = p
      BY <2>1 DEF Object
    <3> QED
      BY <1>2, <3>1
  <2>2. CASE p \in G
    <3>1. PICK i \in DOMAIN t : t[i] = p
      BY <2>2 DEF Object
    <3>2. i + Len(s) \in DOMAIN c
      BY <1>2, <3>1
    <3> QED
      BY <1>2, <3>1, <3>2
  <2> QED
    BY <2>1, <2>2
<1>5. ASSUME NEW i \in DOMAIN c, NEW j \in DOMAIN c, c[i][1] = c[j][1] PROVE i = j
  <2>1. CASE i \in 1 .. Len(s) /\ j \in 1 .. Len(s)
    BY <1>2, <1>5, <2>1 DEF Object, NoKeyTwice
  <2>2. ASSUME NEW k \in 1 .. Len(t), NEW l \in 1 .. Len(t), i = k + Len(s), j = l + Len(s)
        PROVE  i = j
    <3>1. t[k][1] = t[l][1]
      BY <1>2, <1>5, <2>2
    <3>2. k = l
      BY <1>2, <3>1 DEF Object, NoKeyTwice
    <3> QED
      BY <2>2, <3>2
  <2>3. ASSUME NEW a \in 1 .. Len(s), NEW k \in 1 .. Len(t), c[a][1] = c[k + Len(s)][1]
        PROVE  FALSE
    BY <1>2, <2>3
  <2> QED
    BY <1>3, <1>5, <2>1, <2>2, <2>3
<1> QED
  BY <1>2, <1>4, <1>5 DEF Object, NoKeyTwice, c

\* find() on an object.
LEMMA FindIn ==
  ASSUME NEW o, NEW F, Object(o, F), NEW key
  PROVE  /\ \A x : <<key, x>> \in F => Find(Obj(o), key) = {x}
         /\ (\A p \in F : p[1] # key) => Find(Obj(o), key) = {}
<1> DEFINE hits == {i \in DOMAIN o : o[i][1] = key}
<1>1. Find(Obj(o), key) = IF hits = {} THEN {} ELSE {o[Min(hits)][2]}
  BY DEF Find, Obj, Of
<1>2. ASSUME NEW x, <<key, x>> \in F PROVE Find(Obj(o), key) = {x}
  <2>1. PICK i \in DOMAIN o : o[i] = <<key, x>>
    BY <1>2 DEF Object
  <2>2. i \in hits
    BY <2>1
  <2>3. \A j \in hits : j = i
    BY <2>1 DEF Object, NoKeyTwice
  <2>4. hits \in SUBSET Nat
    BY DEF Object
  <2>5. Min(hits) \in hits
    BY <2>2, <2>4, LeastOf
  <2>6. Min(hits) = i
    BY <2>3, <2>5
  <2> HIDE DEF hits
  <2> QED
    BY <1>1, <2>1, <2>2, <2>6
<1>3. ASSUME \A p \in F : p[1] # key PROVE Find(Obj(o), key) = {}
  <2>1. \A i \in DOMAIN o : o[i] \in F
    BY DEF Object
  <2>2. hits = {}
    BY <1>3, <2>1
  <2> QED
    BY <1>1, <2>2
<1> QED
  BY <1>2, <1>3

\* A member that may be missing.
LEMMA Optional ==
  ASSUME NEW S, NEW key, S = {} \/ \E x : S = {x}
  PROVE  Object(When(S, key), {<<key, x>> : x \in S})
<1>1. CASE S = {}
  BY <1>1, Empty DEF When
<1>2. ASSUME NEW y, S = {y} PROVE Object(When(S, key), {<<key, x>> : x \in S})
  <2>1. When(S, key) = << <<key, y>> >> /\ {<<key, x>> : x \in S} = {<<key, y>>}
    BY <1>2 DEF When
  <2> QED
    BY <2>1, OneMember
<1> QED
  BY <1>1, <1>2

-----------------------------------------------------------------------------
(* Records: of texts of any kind T and numbers of any kind N               *)

\* An optional value, and the value of a claim.
Maybe(S)      == {{}} \cup {{x} : x \in S}
Scalars(T, N) == ({"string"} \X T) \cup ({"number"} \X N) \cup ({"bool"} \X BOOLEAN)

\* The parts of a record.
ClaimsOf(T, N) == [id : T, name : T, value : Scalars(T, N), unit : Maybe(T), confidence : Maybe(N),
                   provenance : Seq(T), method : T]
ArtifactsOf(T)   == [id : T, kind : T, path : T]
UnresolvedOf(T)  == [name : T, reason : T]
RecommendedOf(T) == [action : T, resolves : Seq(T)]

\* The records.
Records(T, N) ==
  [observationId : T, timestampUtc : T, source : Seq(T \X T), artifacts : Seq(ArtifactsOf(T)),
   observed : Seq(ClaimsOf(T, N)), derived : Seq(ClaimsOf(T, N)), inferred : Seq(ClaimsOf(T, N)),
   unresolved : Seq(UnresolvedOf(T)), recommended : Seq(RecommendedOf(T)),
   review : ReviewStates, notes : Maybe(T)]

\* A value of at most some depth, with no key twice.
Leaf(x)  == ~IsA(x, "array") /\ ~IsA(x, "object")
Deep1(x) == /\ IsA(x, "array") => \A i \in DOMAIN Of(x) : Leaf(Of(x)[i])
            /\ IsA(x, "object") => NoKeyTwice(Of(x)) /\ \A i \in DOMAIN Of(x) : Leaf(Of(x)[i][2])
Deep2(x) == /\ IsA(x, "array") => \A i \in DOMAIN Of(x) : Deep1(Of(x)[i])
            /\ IsA(x, "object") => NoKeyTwice(Of(x)) /\ \A i \in DOMAIN Of(x) : Deep1(Of(x)[i][2])
Deep3(x) == /\ IsA(x, "array") => \A i \in DOMAIN Of(x) : Deep2(Of(x)[i])
            /\ IsA(x, "object") => NoKeyTwice(Of(x)) /\ \A i \in DOMAIN Of(x) : Deep2(Of(x)[i][2])
Deep4(x) == /\ IsA(x, "array") => \A i \in DOMAIN Of(x) : Deep3(Of(x)[i])
            /\ IsA(x, "object") => NoKeyTwice(Of(x)) /\ \A i \in DOMAIN Of(x) : Deep3(Of(x)[i][2])

\* A leaf has any depth.
LEMMA Shallow == \A x : Leaf(x) => Deep1(x) /\ Deep2(x) /\ Deep3(x)
  BY DEF Leaf, Deep1, Deep2, Deep3

\* What is directly within some values.
LEMMA InWithin ==
  ASSUME NEW S, NEW x \in Within(S)
  PROVE  \E v \in S : \E i \in DOMAIN Of(v) :
           (IsA(v, "object") /\ x = Of(v)[i][2]) \/ (IsA(v, "array") /\ x = Of(v)[i])
<1>1. PICK v \in {w \in S : w[1] \in {"array", "object"}} :
        x \in IF IsA(v, "object") THEN {Of(v)[i][2] : i \in DOMAIN Of(v)} ELSE ToSet(Of(v))
  BY DEF Within
<1>2. CASE IsA(v, "object")
  BY <1>1, <1>2
<1>3. CASE ~IsA(v, "object")
  BY <1>1, <1>3 DEF ToSet, IsA
<1> QED
  BY <1>2, <1>3

\* What KeysOnce() asks, level by level.
LEMMA DeepOnce == ASSUME NEW v, Deep4(v) PROVE KeysOnce(v)
<1> DEFINE one   == Within({v})
           two   == Within(one)
           three == Within(two)
           four  == Within(three)
<1>1. \A x \in one : Deep3(x)
  BY InWithin DEF Deep4
<1> HIDE DEF one
<1>2. \A x \in two : Deep2(x)
  BY <1>1, InWithin DEF Deep3
<1> HIDE DEF two
<1>3. \A x \in three : Deep1(x)
  BY <1>2, InWithin DEF Deep2
<1> HIDE DEF three
<1>4. \A x \in four : Leaf(x)
  BY <1>3, InWithin DEF Deep1
<1> HIDE DEF four
<1>5. Values(v) = UNION {{v}, one, two, three, four}
  BY DEF Values, one, two, three, four
<1>6. ASSUME NEW x \in Values(v), IsA(x, "object") PROVE NoKeyTwice(Of(x))
  <2>1. x = v \/ x \in one \/ x \in two \/ x \in three \/ x \in four
    BY <1>5
  <2>2. Deep4(x) \/ Deep3(x) \/ Deep2(x) \/ Deep1(x) \/ Leaf(x)
    BY <1>1, <1>2, <1>3, <1>4, <2>1
  <2> QED
    BY <1>6, <2>2 DEF Deep4, Deep3, Deep2, Deep1, Leaf
<1> QED
  BY <1>6 DEF KeysOnce

\* The depth of an object is one more than that of its members.
LEMMA DeepObject ==
  ASSUME NEW o, NEW F, Object(o, F)
  PROVE  /\ (\A p \in F : Leaf(p[2]))  => Deep1(Obj(o))
         /\ (\A p \in F : Deep1(p[2])) => Deep2(Obj(o))
         /\ (\A p \in F : Deep3(p[2])) => Deep4(Obj(o))
<1>1. \A i \in DOMAIN o : o[i] \in F
  BY DEF Object
<1>2. NoKeyTwice(o) /\ Of(Obj(o)) = o /\ ~IsA(Obj(o), "array")
  BY DEF Object, Obj, Of, IsA
<1> QED
  BY <1>1, <1>2 DEF Deep1, Deep2, Deep4

\* A list of texts.
LEMMA Texts ==
  ASSUME NEW T, NEW s \in Seq(T)
  PROVE  /\ \A a \in List(s) : /\ IsA(a, "array") /\ Deep1(a) /\ DOMAIN Of(a) = DOMAIN s
                               /\ \A i \in DOMAIN Of(a) : IsText(Of(a)[i]) /\ Of(Of(a)[i]) = s[i]
         /\ List(s) = {} \/ \E x : List(s) = {x}
         /\ List(s) = {} => s = <<>>
<1> DEFINE t == [i \in DOMAIN s |-> Str(s[i])]
<1>1. List(s) = IF s = <<>> THEN {} ELSE {Arr(t)}
  BY DEF List, Each
<1>2. IsA(Arr(t), "array") /\ ~IsA(Arr(t), "object") /\ Of(Arr(t)) = t
  BY DEF Arr, IsA, Of
<1>3. ASSUME NEW x PROVE IsText(Str(x)) /\ Of(Str(x)) = x /\ Leaf(Str(x))
  BY DEF Str, IsText, IsA, Of, Leaf
<1>4. DOMAIN t = DOMAIN s /\ \A i \in DOMAIN t : IsText(t[i]) /\ Of(t[i]) = s[i] /\ Leaf(t[i])
  BY <1>3
<1> HIDE DEF t
<1>5. Deep1(Arr(t))
  BY <1>2, <1>4 DEF Deep1
<1> QED
  BY <1>1, <1>2, <1>4, <1>5

\* The members of a written claim.
ClaimFields(c) ==
  {<<"id", Str(c.id)>>, <<"name", Str(c.name)>>, <<"value", c.value>>, <<"method", Str(c.method)>>}
    \cup {<<"unit", Str(u)>> : u \in c.unit}
    \cup {<<"confidence", Num(n)>> : n \in c.confidence}
    \cup {<<"provenance", a>> : a \in List(c.provenance)}

\* A claim is written as an object.
LEMMA ClaimObject ==
  ASSUME NEW T, NEW N, NEW c \in ClaimsOf(T, N)
  PROVE  \E o : ClaimToJson(c) = Obj(o) /\ Object(o, ClaimFields(c))
<1> DEFINE units == {Str(u) : u \in c.unit}
           nums  == {Num(n) : n \in c.confidence}
           a     == << <<"id", Str(c.id)>>, <<"name", Str(c.name)>>, <<"value", c.value>> >>
           A     == {<<"id", Str(c.id)>>, <<"name", Str(c.name)>>, <<"value", c.value>>}
           b     == When(units, "unit")
           B     == {<<"unit", x>> : x \in units}
           d     == When(nums, "confidence")
           D     == {<<"confidence", x>> : x \in nums}
           e     == When(List(c.provenance), "provenance")
           E     == {<<"provenance", x>> : x \in List(c.provenance)}
           f     == << <<"method", Str(c.method)>> >>
           G     == {<<"method", Str(c.method)>>}
<1>1. /\ c.unit \in Maybe(T) /\ c.confidence \in Maybe(N) /\ c.provenance \in Seq(T)
  BY DEF ClaimsOf
<1>2. /\ units = {} \/ \E x : units = {x}
      /\ nums = {} \/ \E x : nums = {x}
      /\ List(c.provenance) = {} \/ \E x : List(c.provenance) = {x}
  <2>1. c.unit = {} \/ \E x : c.unit = {x}
    BY <1>1 DEF Maybe
  <2>2. c.confidence = {} \/ \E x : c.confidence = {x}
    BY <1>1 DEF Maybe
  <2>3. ASSUME NEW x, c.unit = {x} PROVE units = {Str(x)}
    BY <2>3
  <2>4. ASSUME NEW x, c.confidence = {x} PROVE nums = {Num(x)}
    BY <2>4
  <2>5. c.unit = {} => units = {}
    OBVIOUS
  <2>6. c.confidence = {} => nums = {}
    OBVIOUS
  <2>7. List(c.provenance) = {} \/ \E x : List(c.provenance) = {x}
    BY <1>1, Texts
  <2> HIDE DEF units, nums
  <2> QED
    BY <2>1, <2>2, <2>3, <2>4, <2>5, <2>6, <2>7
<1>3. Object(a, A)
  <2>1. a \in Seq(A) /\ DOMAIN a = 1 .. 3
    OBVIOUS
  <2>2. a[1] = <<"id", Str(c.id)>> /\ a[2] = <<"name", Str(c.name)>> /\ a[3] = <<"value", c.value>>
    OBVIOUS
  <2> HIDE DEF a
  <2>3. a[1][1] = "id" /\ a[2][1] = "name" /\ a[3][1] = "value"
    BY <2>2
  <2>4. \A i \in DOMAIN a : i = 1 \/ i = 2 \/ i = 3
    BY <2>1
  <2>5. NoKeyTwice(a)
    BY <2>3, <2>4 DEF NoKeyTwice
  <2>6. \A p \in A : \E i \in DOMAIN a : a[i] = p
    BY <2>1, <2>2
  <2> QED
    BY <2>1, <2>5, <2>6 DEF Object
<1>4. Object(b, B) /\ Object(d, D) /\ Object(e, E) /\ Object(f, G)
  <2> HIDE DEF units, nums
  <2>1. Object(b, B)
    <3>1. units = {} \/ \E x : units = {x}
      BY <1>2
    <3> QED
      BY <3>1, Optional
  <2>4. Object(d, D)
    <3>1. nums = {} \/ \E x : nums = {x}
      BY <1>2
    <3> QED
      BY <3>1, Optional
  <2>2. Object(e, E)
    BY <1>2, Optional
  <2>3. Object(f, G)
    BY OneMember
  <2> QED
    BY <2>1, <2>2, <2>3, <2>4
<1>5. ClaimToJson(c) = Obj((((a \o b) \o d) \o e) \o f)
  BY DEF ClaimToJson
<1>6. /\ \A p \in A : p[1] \in {"id", "name", "value"}
      /\ \A p \in B : p[1] = "unit"
      /\ \A p \in D : p[1] = "confidence"
      /\ \A p \in E : p[1] = "provenance"
      /\ \A p \in G : p[1] = "method"
  OBVIOUS
<1>7. ClaimFields(c) = (((A \cup B) \cup D) \cup E) \cup G
  BY DEF ClaimFields
<1> HIDE DEF a, A, b, B, d, D, e, E, f, G
<1>8. Object(a \o b, A \cup B)
  BY <1>3, <1>4, <1>6, Together
<1>12. \A p \in A \cup B : p[1] \in {"id", "name", "value", "unit"}
  BY <1>6
<1>13. \A p \in (A \cup B) \cup D : p[1] \in {"id", "name", "value", "unit", "confidence"}
  BY <1>6, <1>12
<1>14. \A p \in ((A \cup B) \cup D) \cup E :
         p[1] \in {"id", "name", "value", "unit", "confidence", "provenance"}
  BY <1>6, <1>13
<1>15. \A p \in A \cup B, q \in D : p[1] # q[1]
  BY <1>6, <1>12
<1>16. \A p \in (A \cup B) \cup D, q \in E : p[1] # q[1]
  BY <1>6, <1>13
<1>17. \A p \in ((A \cup B) \cup D) \cup E, q \in G : p[1] # q[1]
  BY <1>6, <1>14
<1>9. Object((a \o b) \o d, (A \cup B) \cup D)
  BY <1>4, <1>8, <1>15, Together
<1>10. Object(((a \o b) \o d) \o e, ((A \cup B) \cup D) \cup E)
  BY <1>4, <1>9, <1>16, Together
<1>11. Object((((a \o b) \o d) \o e) \o f, (((A \cup B) \cup D) \cup E) \cup G)
  BY <1>4, <1>10, <1>17, Together
<1> QED
  BY <1>5, <1>7, <1>11

\* find() of a member that may be missing.
AtMostOne(S) == S = {} \/ \E x : S = {x}
Holds(F, key, S) == /\ AtMostOne(S) /\ \A x \in S : <<key, x>> \in F
                    /\ \A p \in F : p[1] = key => S # {}

\* find() on an object with or without the key.
LEMMA Found ==
  ASSUME NEW o, NEW F, Object(o, F), NEW key, NEW S, Holds(F, key, S)
  PROVE  Find(Obj(o), key) = S
<1> USE DEF Holds, AtMostOne
<1>1. CASE S = {}
  <2>1. \A p \in F : p[1] # key
    BY <1>1
  <2> QED
    BY <1>1, <2>1, FindIn
<1>2. ASSUME NEW x, S = {x} PROVE Find(Obj(o), key) = S
  <2>1. <<key, x>> \in F
    BY <1>2
  <2>2. Find(Obj(o), key) = {x}
    BY <2>1, FindIn
  <2> QED
    BY <1>2, <2>2
<1> QED
  BY <1>1, <1>2

\* An optional text is an optional value.
LEMMA Mapped ==
  ASSUME NEW T, NEW S \in Maybe(T)
  PROVE  /\ {Str(x) : x \in S} = {} \/ \E x : {Str(y) : y \in S} = {x}
         /\ {Num(x) : x \in S} = {} \/ \E x : {Num(y) : y \in S} = {x}
<1>1. S = {} \/ \E x : S = {x}
  BY DEF Maybe
<1>2. ASSUME NEW x, S = {x} PROVE {Str(y) : y \in S} = {Str(x)} /\ {Num(y) : y \in S} = {Num(x)}
  BY <1>2
<1> QED
  BY <1>1, <1>2

\* What find() gives of a written claim.
LEMMA ClaimFound ==
  ASSUME NEW T, NEW N, NEW c \in ClaimsOf(T, N), NEW v, v = ClaimToJson(c)
  PROVE  /\ IsA(v, "object") /\ Deep2(v)
         /\ Find(v, "id") = {Str(c.id)}
         /\ Find(v, "name") = {Str(c.name)}
         /\ Find(v, "value") = {c.value}
         /\ Find(v, "method") = {Str(c.method)}
         /\ Find(v, "unit") = {Str(u) : u \in c.unit}
         /\ Find(v, "confidence") = {Num(n) : n \in c.confidence}
         /\ Find(v, "provenance") = List(c.provenance)
<1> DEFINE F == ClaimFields(c)
<1>1. PICK o : v = Obj(o) /\ Object(o, F)
  BY ClaimObject
<1>2. /\ c.unit \in Maybe(T) /\ c.confidence \in Maybe(N) /\ c.provenance \in Seq(T)
      /\ c.value \in Scalars(T, N)
  BY DEF ClaimsOf
<1>3. IsA(v, "object")
  BY <1>1 DEF IsA, Obj
<1>4. /\ <<"id", Str(c.id)>> \in F
      /\ <<"name", Str(c.name)>> \in F
      /\ <<"value", c.value>> \in F
      /\ <<"method", Str(c.method)>> \in F
  BY DEF ClaimFields
<1>5. /\ \A x \in {Str(u) : u \in c.unit} : <<"unit", x>> \in F
      /\ \A x \in {Num(n) : n \in c.confidence} : <<"confidence", x>> \in F
      /\ \A x \in List(c.provenance) : <<"provenance", x>> \in F
  BY DEF ClaimFields
<1>6. \A p \in F :
        \/ p = <<"id", Str(c.id)>>
        \/ p = <<"name", Str(c.name)>>
        \/ p = <<"value", c.value>>
        \/ p = <<"method", Str(c.method)>>
        \/ \E u \in c.unit : p = <<"unit", Str(u)>>
        \/ \E n \in c.confidence : p = <<"confidence", Num(n)>>
        \/ \E a \in List(c.provenance) : p = <<"provenance", a>>
  <2> TAKE p \in F
  <2>1. \/ p \in {<<"id", Str(c.id)>>, <<"name", Str(c.name)>>, <<"value", c.value>>,
                  <<"method", Str(c.method)>>}
        \/ p \in {<<"unit", Str(u)>> : u \in c.unit}
        \/ p \in {<<"confidence", Num(n)>> : n \in c.confidence}
        \/ p \in {<<"provenance", a>> : a \in List(c.provenance)}
    BY DEF ClaimFields
  <2> QED
    BY <2>1
<1>7. ASSUME NEW x PROVE Leaf(Str(x)) /\ Leaf(Num(x))
  BY DEF Leaf, Str, Num, IsA
<1>8. Leaf(c.value)
  BY <1>2 DEF Scalars, Leaf, IsA
<1>9. \A p \in F : Deep1(p[2])
  <2>1. \A a \in List(c.provenance) : Deep1(a)
    BY <1>2, Texts
  <2> TAKE p \in F
  <2>2. CASE p = <<"id", Str(c.id)>> \/ p = <<"name", Str(c.name)>>
             \/ p = <<"value", c.value>> \/ p = <<"method", Str(c.method)>>
    BY <1>7, <1>8, <2>2, Shallow
  <2>3. CASE \E u \in c.unit : p = <<"unit", Str(u)>>
    BY <1>7, <2>3, Shallow
  <2>4. CASE \E n \in c.confidence : p = <<"confidence", Num(n)>>
    BY <1>7, <2>4, Shallow
  <2>5. CASE \E a \in List(c.provenance) : p = <<"provenance", a>>
    BY <2>1, <2>5
  <2> HIDE DEF F
  <2> QED
    BY <1>6, <2>2, <2>3, <2>4, <2>5
<1>10. /\ \A p \in F : p[1] = "unit" => {Str(u) : u \in c.unit} # {}
       /\ \A p \in F : p[1] = "confidence" => {Num(n) : n \in c.confidence} # {}
       /\ \A p \in F : p[1] = "provenance" => List(c.provenance) # {}
  BY <1>6
<1> HIDE DEF F
<1>11. Deep2(v)
  BY <1>1, <1>9, DeepObject
<1>12. /\ Find(v, "id") = {Str(c.id)}
       /\ Find(v, "name") = {Str(c.name)}
       /\ Find(v, "value") = {c.value}
       /\ Find(v, "method") = {Str(c.method)}
  BY <1>1, <1>4, FindIn
<1>13. Find(v, "unit") = {Str(u) : u \in c.unit}
  <2> DEFINE S == {Str(u) : u \in c.unit}
  <2>1. Holds(F, "unit", S)
    BY <1>2, <1>5, <1>10, Mapped DEF Holds, AtMostOne
  <2> HIDE DEF S
  <2>2. Find(v, "unit") = S
    BY <1>1, <2>1, Found
  <2> QED
    BY <2>2 DEF S
<1>14. Find(v, "confidence") = {Num(n) : n \in c.confidence}
  <2> DEFINE S == {Num(n) : n \in c.confidence}
  <2>1. Holds(F, "confidence", S)
    BY <1>2, <1>5, <1>10, Mapped DEF Holds, AtMostOne
  <2> HIDE DEF S
  <2>2. Find(v, "confidence") = S
    BY <1>1, <2>1, Found
  <2> QED
    BY <2>2 DEF S
<1>15. Find(v, "provenance") = List(c.provenance)
  <2>1. List(c.provenance) = {} \/ \E x : List(c.provenance) = {x}
    BY <1>2, Texts
  <2>2. Holds(F, "provenance", List(c.provenance))
    BY <1>5, <1>10, <2>1 DEF Holds, AtMostOne
  <2> QED
    BY <1>1, <2>2, Found
<1> QED
  BY <1>3, <1>11, <1>12, <1>13, <1>14, <1>15

\* What is read from a member.
LEMMA Member ==
  ASSUME NEW v, NEW key
  PROVE  /\ Find(v, key) = {} => /\ TextOrNone(v, key) /\ Entries(v, key) = <<>>
                                 /\ \A d : Text(v, key, d) = d
         /\ \A x : Find(v, key) = {Str(x)} => /\ HasText(v, key) /\ TextOrNone(v, key)
                                              /\ \A d : Text(v, key, d) = x
         /\ \A x : Find(v, key) = {x} => Entries(v, key) = Of(x)
<1>1. ASSUME NEW x PROVE IsA(Str(x), "string") /\ Of(Str(x)) = x
  BY DEF Str, IsA, Of
<1>2. ASSUME NEW x, Find(v, key) = {Str(x)}
      PROVE  HasText(v, key) /\ TextOrNone(v, key) /\ \A d : Text(v, key, d) = x
  BY <1>1, <1>2 DEF HasText, TextOrNone, Text
<1>3. ASSUME NEW x, Find(v, key) = {x} PROVE Entries(v, key) = Of(x)
  BY <1>3 DEF Entries
<1>4. ASSUME Find(v, key) = {}
      PROVE  TextOrNone(v, key) /\ Entries(v, key) = <<>> /\ \A d : Text(v, key, d) = d
  BY <1>4 DEF TextOrNone, Entries, Text
<1> QED
  BY <1>2, <1>3, <1>4

\* A list of texts is read as it was written.
LEMMA ListBack ==
  ASSUME NEW T, NEW s \in Seq(T), NEW v, NEW key, Find(v, key) = List(s)
  PROVE  ArrayOf(v, key, IsText) /\ ReadTexts(v, key) = s
<1>1. ArrayOf(v, key, IsText)
  BY Texts DEF ArrayOf
<1>2. CASE List(s) = {}
  <2>1. Entries(v, key) = <<>> /\ s = <<>>
    BY <1>2, Member, Texts
  <2> QED
    BY <1>1, <2>1 DEF ReadTexts, Each
<1>3. ASSUME NEW a, List(s) = {a} PROVE ReadTexts(v, key) = s
  <2>1. Entries(v, key) = Of(a)
    BY <1>3, Member
  <2>2. DOMAIN Of(a) = DOMAIN s /\ \A i \in DOMAIN Of(a) : Of(Of(a)[i]) = s[i]
    BY <1>3, Texts
  <2>3. ReadTexts(v, key) = [i \in DOMAIN Of(a) |-> Of(Of(a)[i])]
    BY <2>1 DEF ReadTexts, Each
  <2>4. s = [i \in DOMAIN s |-> s[i]]
    OBVIOUS
  <2> QED
    BY <2>2, <2>3, <2>4
<1> QED
  BY <1>1, <1>2, <1>3, Texts

\* A claim is read as it was written.
LEMMA ClaimBack ==
  ASSUME NEW T, NEW N, NEW c \in ClaimsOf(T, N), NEW v, v = ClaimToJson(c)
  PROVE  ClaimOk(v) /\ ReadClaim(v) = c
<1>1. /\ Find(v, "id") = {Str(c.id)}
      /\ Find(v, "name") = {Str(c.name)}
      /\ Find(v, "value") = {c.value}
      /\ Find(v, "method") = {Str(c.method)}
      /\ Find(v, "unit") = {Str(u) : u \in c.unit}
      /\ Find(v, "confidence") = {Num(n) : n \in c.confidence}
      /\ Find(v, "provenance") = List(c.provenance)
      /\ IsA(v, "object")
  BY ClaimFound
<1>2. /\ c.value \in Scalars(T, N) /\ c.provenance \in Seq(T)
  BY DEF ClaimsOf
<1>3. ASSUME NEW x PROVE /\ IsA(Str(x), "string") /\ Of(Str(x)) = x
                         /\ IsA(Num(x), "number") /\ Of(Num(x)) = x
  BY DEF Str, Num, IsA, Of
<1>4. ArrayOf(v, "provenance", IsText) /\ ReadTexts(v, "provenance") = c.provenance
  BY <1>1, <1>2, ListBack
<1>5. HasText(v, "id") /\ HasText(v, "name") /\ TextOrNone(v, "method")
  BY <1>1, Member
<1>6. /\ Text(v, "id", "") = c.id
      /\ Text(v, "name", "") = c.name
      /\ Text(v, "method", "") = c.method
  <2>1. Text(v, "id", "") = c.id
    BY <1>1, <1>3 DEF Text
  <2>2. Text(v, "name", "") = c.name
    BY <1>1, <1>3 DEF Text
  <2>3. Text(v, "method", "") = c.method
    BY <1>1, <1>3 DEF Text
  <2> QED
    BY <2>1, <2>2, <2>3
<1>7. TextOrNone(v, "unit")
  BY <1>1, <1>3 DEF TextOrNone
<1>8. \A x \in Find(v, "confidence") : IsA(x, "number")
  BY <1>1, <1>3
<1>9. Find(v, "value") # {} /\ \A x \in Find(v, "value") : x[1] \in {"number", "bool", "string"}
  BY <1>1, <1>2 DEF Scalars
<1>10. ClaimOk(v)
  BY <1>1, <1>4, <1>5, <1>7, <1>8, <1>9 DEF ClaimOk
<1>11. (CHOOSE x \in Find(v, "value") : TRUE) = c.value
  BY <1>1
<1>12. {Of(u) : u \in Find(v, "unit")} = c.unit
  <2> DEFINE S == {Str(u) : u \in c.unit}
  <2>1. {Of(u) : u \in S} = c.unit
    BY <1>3
  <2> QED
    BY <1>1, <2>1
<1>13. {Of(n) : n \in Find(v, "confidence")} = c.confidence
  <2> DEFINE S == {Num(u) : u \in c.confidence}
  <2>1. {Of(u) : u \in S} = c.confidence
    BY <1>3
  <2> QED
    BY <1>1, <2>1
<1>14. ReadClaim(v) = [id |-> c.id, name |-> c.name, value |-> c.value, unit |-> c.unit,
                       confidence |-> c.confidence, provenance |-> c.provenance,
                       method |-> c.method]
  BY <1>4, <1>6, <1>11, <1>12, <1>13 DEF ReadClaim
<1> QED
  BY <1>10, <1>14 DEF ClaimsOf

\* So are the claims of a section.
LEMMA ClaimsBack ==
  ASSUME NEW T, NEW N, NEW s \in Seq(ClaimsOf(T, N))
  PROVE  /\ Deep3(Arr(Each(ClaimToJson, s)))
         /\ \A v, key : Find(v, key) = {Arr(Each(ClaimToJson, s))}
                         => ArrayOf(v, key, ClaimOk) /\ Each(ReadClaim, Entries(v, key)) = s
<1> DEFINE t == [i \in DOMAIN s |-> ClaimToJson(s[i])]
           a == Arr(t)
<1>1. Each(ClaimToJson, s) = t
  BY DEF Each
<1>6. DOMAIN t = DOMAIN s
  OBVIOUS
<1>2. \A i \in DOMAIN s : Deep2(t[i]) /\ ClaimOk(t[i]) /\ ReadClaim(t[i]) = s[i]
  <2> TAKE i \in DOMAIN s
  <2>1. s[i] \in ClaimsOf(T, N) /\ t[i] = ClaimToJson(s[i])
    OBVIOUS
  <2> QED
    BY <2>1, ClaimFound, ClaimBack
<1> HIDE DEF t
<1>3. IsA(a, "array") /\ ~IsA(a, "object") /\ Of(a) = t
  BY DEF Arr, IsA, Of
<1> HIDE DEF a
<1>4. Deep3(a)
  BY <1>2, <1>3, <1>6 DEF Deep3
<1>5. ASSUME NEW v, NEW key, Find(v, key) = {a}
      PROVE  ArrayOf(v, key, ClaimOk) /\ Each(ReadClaim, Entries(v, key)) = s
  <2>1. ArrayOf(v, key, ClaimOk)
    BY <1>2, <1>3, <1>5, <1>6 DEF ArrayOf
  <2>2. Entries(v, key) = t
    BY <1>3, <1>5, Member
  <2>3. Each(ReadClaim, Entries(v, key)) = [i \in DOMAIN t |-> ReadClaim(t[i])]
    BY <2>2 DEF Each
  <2>4. s = [i \in DOMAIN s |-> s[i]]
    OBVIOUS
  <2> QED
    BY <1>2, <1>6, <2>1, <2>3, <2>4
<1> QED
  BY <1>1, <1>4, <1>5 DEF a

\* The members of a written artifact.
ArtifactFields(a) == {<<"id", Str(a.id)>>, <<"kind", Str(a.kind)>>, <<"path", Str(a.path)>>}

\* So is an artifact.
LEMMA ArtifactBack ==
  ASSUME NEW T, NEW a \in ArtifactsOf(T), NEW v, v = ArtifactToJson(a)
  PROVE  ArtifactOk(v) /\ ReadArtifact(v) = a /\ Deep2(v)
<1> DEFINE F == ArtifactFields(a)
           o == << <<"id", Str(a.id)>>, <<"kind", Str(a.kind)>>, <<"path", Str(a.path)>> >>
<1>1. v = Obj(o)
  BY DEF ArtifactToJson
<1>2. Object(o, F)
  <2>1. o \in Seq(F) /\ DOMAIN o = 1 .. 3
    BY DEF ArtifactFields
  <2>2. o[1] = <<"id", Str(a.id)>> /\ o[2] = <<"kind", Str(a.kind)>> /\ o[3] = <<"path", Str(a.path)>>
    OBVIOUS
  <2> HIDE DEF o
  <2>3. o[1][1] = "id" /\ o[2][1] = "kind" /\ o[3][1] = "path"
    BY <2>2
  <2>4. \A i \in DOMAIN o : i = 1 \/ i = 2 \/ i = 3
    BY <2>1
  <2>5. NoKeyTwice(o)
    BY <2>3, <2>4 DEF NoKeyTwice
  <2>6. \A p \in F : \E i \in DOMAIN o : o[i] = p
    BY <2>1, <2>2 DEF ArtifactFields
  <2> QED
    BY <2>1, <2>5, <2>6 DEF Object
<1> HIDE DEF o
<1>3. ASSUME NEW x PROVE IsA(Str(x), "string") /\ Of(Str(x)) = x /\ Leaf(Str(x))
  BY DEF Str, IsA, Of, Leaf
<1>4. <<"id", Str(a.id)>> \in F /\ <<"kind", Str(a.kind)>> \in F /\ <<"path", Str(a.path)>> \in F
  BY DEF ArtifactFields
<1>5. \A p \in F : Deep1(p[2])
  BY <1>3, Shallow DEF ArtifactFields
<1> HIDE DEF F
<1>6. /\ Find(v, "id") = {Str(a.id)}
      /\ Find(v, "kind") = {Str(a.kind)}
      /\ Find(v, "path") = {Str(a.path)}
  BY <1>1, <1>2, <1>4, FindIn
<1>7. Deep2(v)
  BY <1>1, <1>2, <1>5, DeepObject
<1>8. ArtifactOk(v)
  <2>1. IsA(v, "object")
    BY <1>1 DEF IsA, Obj
  <2>2. HasText(v, "id") /\ TextOrNone(v, "kind") /\ TextOrNone(v, "path")
    BY <1>6, Member
  <2> QED
    BY <2>1, <2>2 DEF ArtifactOk
<1>9. Text(v, "id", "") = a.id /\ Text(v, "kind", "") = a.kind /\ Text(v, "path", "") = a.path
  BY <1>3, <1>6 DEF Text
<1>10. ReadArtifact(v) = [id |-> a.id, kind |-> a.kind, path |-> a.path]
  BY <1>9 DEF ReadArtifact
<1> QED
  BY <1>7, <1>8, <1>10 DEF ArtifactsOf

\* So are the artifacts.
LEMMA ArtifactsBack ==
  ASSUME NEW T, NEW s \in Seq(ArtifactsOf(T))
  PROVE  /\ Deep3(Arr(Each(ArtifactToJson, s)))
         /\ \A v, key : Find(v, key) = {Arr(Each(ArtifactToJson, s))}
                         => ArrayOf(v, key, ArtifactOk) /\ Each(ReadArtifact, Entries(v, key)) = s
<1> DEFINE t == [i \in DOMAIN s |-> ArtifactToJson(s[i])]
           a == Arr(t)
<1>1. Each(ArtifactToJson, s) = t
  BY DEF Each
<1>2. DOMAIN t = DOMAIN s
  OBVIOUS
<1>3. \A i \in DOMAIN s : Deep2(t[i]) /\ ArtifactOk(t[i]) /\ ReadArtifact(t[i]) = s[i]
  <2> TAKE i \in DOMAIN s
  <2>1. s[i] \in ArtifactsOf(T) /\ t[i] = ArtifactToJson(s[i])
    OBVIOUS
  <2> QED
    BY <2>1, ArtifactBack
<1> HIDE DEF t
<1>4. IsA(a, "array") /\ ~IsA(a, "object") /\ Of(a) = t
  BY DEF Arr, IsA, Of
<1> HIDE DEF a
<1>5. Deep3(a)
  BY <1>2, <1>3, <1>4 DEF Deep3
<1>6. ASSUME NEW v, NEW key, Find(v, key) = {a}
      PROVE  ArrayOf(v, key, ArtifactOk) /\ Each(ReadArtifact, Entries(v, key)) = s
  <2>1. ArrayOf(v, key, ArtifactOk)
    BY <1>2, <1>3, <1>4, <1>6 DEF ArrayOf
  <2>2. Entries(v, key) = t
    BY <1>4, <1>6, Member
  <2>3. Each(ReadArtifact, Entries(v, key)) = [i \in DOMAIN t |-> ReadArtifact(t[i])]
    BY <2>2 DEF Each
  <2>4. s = [i \in DOMAIN s |-> s[i]]
    OBVIOUS
  <2> QED
    BY <1>2, <1>3, <2>1, <2>3, <2>4
<1> QED
  BY <1>1, <1>5, <1>6 DEF a

\* The members of what is unresolved.
UnresolvedFields(u) == {<<"name", Str(u.name)>>, <<"reason", Str(u.reason)>>}

\* So is what is unresolved.
LEMMA UnresolvedBack ==
  ASSUME NEW T, NEW u \in UnresolvedOf(T), NEW v, v = UnresolvedToJson(u)
  PROVE  UnresolvedOk(v) /\ ReadUnresolved(v) = u /\ Deep2(v)
<1> DEFINE F == UnresolvedFields(u)
           o == << <<"name", Str(u.name)>>, <<"reason", Str(u.reason)>> >>
<1>1. v = Obj(o)
  BY DEF UnresolvedToJson
<1>2. Object(o, F)
  <2>1. o \in Seq(F) /\ DOMAIN o = 1 .. 2
    BY DEF UnresolvedFields
  <2>2. o[1] = <<"name", Str(u.name)>> /\ o[2] = <<"reason", Str(u.reason)>>
    OBVIOUS
  <2> HIDE DEF o
  <2>3. o[1][1] = "name" /\ o[2][1] = "reason"
    BY <2>2
  <2>4. \A i \in DOMAIN o : i = 1 \/ i = 2
    BY <2>1
  <2>5. NoKeyTwice(o)
    BY <2>3, <2>4 DEF NoKeyTwice
  <2>6. \A p \in F : \E i \in DOMAIN o : o[i] = p
    BY <2>1, <2>2 DEF UnresolvedFields
  <2> QED
    BY <2>1, <2>5, <2>6 DEF Object
<1> HIDE DEF o
<1>3. ASSUME NEW x PROVE IsA(Str(x), "string") /\ Of(Str(x)) = x /\ Leaf(Str(x))
  BY DEF Str, IsA, Of, Leaf
<1>4. <<"name", Str(u.name)>> \in F /\ <<"reason", Str(u.reason)>> \in F
  BY DEF UnresolvedFields
<1>5. \A p \in F : Deep1(p[2])
  BY <1>3, Shallow DEF UnresolvedFields
<1> HIDE DEF F
<1>6. Find(v, "name") = {Str(u.name)} /\ Find(v, "reason") = {Str(u.reason)}
  BY <1>1, <1>2, <1>4, FindIn
<1>7. Deep2(v)
  BY <1>1, <1>2, <1>5, DeepObject
<1>8. UnresolvedOk(v)
  <2>1. IsA(v, "object")
    BY <1>1 DEF IsA, Obj
  <2>2. HasText(v, "name") /\ TextOrNone(v, "reason")
    BY <1>6, Member
  <2> QED
    BY <2>1, <2>2 DEF UnresolvedOk
<1>9. Text(v, "name", "") = u.name /\ Text(v, "reason", "") = u.reason
  BY <1>3, <1>6 DEF Text
<1>10. ReadUnresolved(v) = [name |-> u.name, reason |-> u.reason]
  BY <1>9 DEF ReadUnresolved
<1> QED
  BY <1>7, <1>8, <1>10 DEF UnresolvedOf

\* So are all of them.
LEMMA UnresolvedsBack ==
  ASSUME NEW T, NEW s \in Seq(UnresolvedOf(T))
  PROVE  /\ Deep3(Arr(Each(UnresolvedToJson, s)))
         /\ \A v, key : Find(v, key) = {Arr(Each(UnresolvedToJson, s))}
                         => ArrayOf(v, key, UnresolvedOk) /\ Each(ReadUnresolved, Entries(v, key)) = s
<1> DEFINE t == [i \in DOMAIN s |-> UnresolvedToJson(s[i])]
           a == Arr(t)
<1>1. Each(UnresolvedToJson, s) = t
  BY DEF Each
<1>2. DOMAIN t = DOMAIN s
  OBVIOUS
<1>3. \A i \in DOMAIN s : Deep2(t[i]) /\ UnresolvedOk(t[i]) /\ ReadUnresolved(t[i]) = s[i]
  <2> TAKE i \in DOMAIN s
  <2>1. s[i] \in UnresolvedOf(T) /\ t[i] = UnresolvedToJson(s[i])
    OBVIOUS
  <2> QED
    BY <2>1, UnresolvedBack
<1> HIDE DEF t
<1>4. IsA(a, "array") /\ ~IsA(a, "object") /\ Of(a) = t
  BY DEF Arr, IsA, Of
<1> HIDE DEF a
<1>5. Deep3(a)
  BY <1>2, <1>3, <1>4 DEF Deep3
<1>6. ASSUME NEW v, NEW key, Find(v, key) = {a}
      PROVE  ArrayOf(v, key, UnresolvedOk) /\ Each(ReadUnresolved, Entries(v, key)) = s
  <2>1. ArrayOf(v, key, UnresolvedOk)
    BY <1>2, <1>3, <1>4, <1>6 DEF ArrayOf
  <2>2. Entries(v, key) = t
    BY <1>4, <1>6, Member
  <2>3. Each(ReadUnresolved, Entries(v, key)) = [i \in DOMAIN t |-> ReadUnresolved(t[i])]
    BY <2>2 DEF Each
  <2>4. s = [i \in DOMAIN s |-> s[i]]
    OBVIOUS
  <2> QED
    BY <1>2, <1>3, <2>1, <2>3, <2>4
<1> QED
  BY <1>1, <1>5, <1>6 DEF a

\* The members of a recommendation.
RecommendedFields(r) == {<<"action", Str(r.action)>>} \cup {<<"resolves", a>> : a \in List(r.resolves)}

\* So is a recommendation.
LEMMA RecommendedBack ==
  ASSUME NEW T, NEW r \in RecommendedOf(T), NEW v, v = RecommendedToJson(r)
  PROVE  RecommendedOk(v) /\ ReadRecommended(v) = r /\ Deep2(v)
<1> DEFINE F == RecommendedFields(r)
           G == {<<"resolves", a>> : a \in List(r.resolves)}
           o == << <<"action", Str(r.action)>> >> \o When(List(r.resolves), "resolves")
<1>1. v = Obj(o)
  BY DEF RecommendedToJson
<1>2. r.resolves \in Seq(T)
  BY DEF RecommendedOf
<1>3. Object(o, F)
  <2>1. Object(<< <<"action", Str(r.action)>> >>, {<<"action", Str(r.action)>>})
    BY OneMember
  <2>2. List(r.resolves) = {} \/ \E x : List(r.resolves) = {x}
    BY <1>2, Texts
  <2>3. Object(When(List(r.resolves), "resolves"), G)
    BY <2>2, Optional
  <2>4. \A p \in {<<"action", Str(r.action)>>}, q \in G : p[1] # q[1]
    OBVIOUS
  <2>5. F = {<<"action", Str(r.action)>>} \cup G
    BY DEF RecommendedFields
  <2> HIDE DEF F, G
  <2> QED
    BY <2>1, <2>3, <2>4, <2>5, Together
<1> HIDE DEF o
<1>4. ASSUME NEW x PROVE IsA(Str(x), "string") /\ Of(Str(x)) = x /\ Leaf(Str(x))
  BY DEF Str, IsA, Of, Leaf
<1>5. \A p \in F : p = <<"action", Str(r.action)>> \/ \E a \in List(r.resolves) : p = <<"resolves", a>>
  BY DEF RecommendedFields
<1>6. \A p \in F : Deep1(p[2])
  <2>1. \A a \in List(r.resolves) : Deep1(a)
    BY <1>2, Texts
  <2> QED
    BY <1>4, <1>5, <2>1, Shallow
<1>7. <<"action", Str(r.action)>> \in F /\ \A x \in List(r.resolves) : <<"resolves", x>> \in F
  BY DEF RecommendedFields
<1> HIDE DEF F
<1>8. Find(v, "action") = {Str(r.action)}
  BY <1>1, <1>3, <1>7, FindIn
<1>9. Find(v, "resolves") = List(r.resolves)
  <2>1. List(r.resolves) = {} \/ \E x : List(r.resolves) = {x}
    BY <1>2, Texts
  <2>2. \A p \in F : p[1] = "resolves" => List(r.resolves) # {}
    BY <1>5
  <2>3. Holds(F, "resolves", List(r.resolves))
    BY <1>7, <2>1, <2>2 DEF Holds, AtMostOne
  <2> QED
    BY <1>1, <1>3, <2>3, Found
<1>10. Deep2(v)
  BY <1>1, <1>3, <1>6, DeepObject
<1>11. ArrayOf(v, "resolves", IsText) /\ ReadTexts(v, "resolves") = r.resolves
  BY <1>2, <1>9, ListBack
<1>12. RecommendedOk(v)
  <2>1. IsA(v, "object")
    BY <1>1 DEF IsA, Obj
  <2>2. HasText(v, "action")
    BY <1>8, Member
  <2> QED
    BY <1>11, <2>1, <2>2 DEF RecommendedOk
<1>13. Text(v, "action", "") = r.action
  BY <1>4, <1>8 DEF Text
<1>14. ReadRecommended(v) = [action |-> r.action, resolves |-> r.resolves]
  BY <1>11, <1>13 DEF ReadRecommended
<1> QED
  BY <1>10, <1>12, <1>14 DEF RecommendedOf

\* So are the recommendations.
LEMMA RecommendedsBack ==
  ASSUME NEW T, NEW s \in Seq(RecommendedOf(T))
  PROVE  /\ Deep3(Arr(Each(RecommendedToJson, s)))
         /\ \A v, key : Find(v, key) = {Arr(Each(RecommendedToJson, s))}
                         => ArrayOf(v, key, RecommendedOk) /\ Each(ReadRecommended, Entries(v, key)) = s
<1> DEFINE t == [i \in DOMAIN s |-> RecommendedToJson(s[i])]
           a == Arr(t)
<1>1. Each(RecommendedToJson, s) = t
  BY DEF Each
<1>2. DOMAIN t = DOMAIN s
  OBVIOUS
<1>3. \A i \in DOMAIN s : Deep2(t[i]) /\ RecommendedOk(t[i]) /\ ReadRecommended(t[i]) = s[i]
  <2> TAKE i \in DOMAIN s
  <2>1. s[i] \in RecommendedOf(T) /\ t[i] = RecommendedToJson(s[i])
    OBVIOUS
  <2> QED
    BY <2>1, RecommendedBack
<1> HIDE DEF t
<1>4. IsA(a, "array") /\ ~IsA(a, "object") /\ Of(a) = t
  BY DEF Arr, IsA, Of
<1> HIDE DEF a
<1>5. Deep3(a)
  BY <1>2, <1>3, <1>4 DEF Deep3
<1>6. ASSUME NEW v, NEW key, Find(v, key) = {a}
      PROVE  ArrayOf(v, key, RecommendedOk) /\ Each(ReadRecommended, Entries(v, key)) = s
  <2>1. ArrayOf(v, key, RecommendedOk)
    BY <1>2, <1>3, <1>4, <1>6 DEF ArrayOf
  <2>2. Entries(v, key) = t
    BY <1>4, <1>6, Member
  <2>3. Each(ReadRecommended, Entries(v, key)) = [i \in DOMAIN t |-> ReadRecommended(t[i])]
    BY <2>2 DEF Each
  <2>4. s = [i \in DOMAIN s |-> s[i]]
    OBVIOUS
  <2> QED
    BY <1>2, <1>3, <2>1, <2>3, <2>4
<1> QED
  BY <1>1, <1>5, <1>6 DEF a

-----------------------------------------------------------------------------
(* The source                                                              *)

\* The numbers up to n are n.
LEMMA UpTo == ASSUME NEW n \in Nat PROVE IsFiniteSet(1 .. n) /\ Cardinality(1 .. n) = n
<1>1. 1 \in Int /\ n \in Int
  OBVIOUS
<1>2. IsFiniteSet(1 .. n) /\ Cardinality(1 .. n) = IF 1 > n THEN 0 ELSE n - 1 + 1
  BY <1>1, FS_Interval
<1> QED
  BY <1>2

\* A part of them is finite.
LEMMA PartUpTo ==
  ASSUME NEW n \in Nat, NEW S \in SUBSET (1 .. n)
  PROVE  IsFiniteSet(S) /\ Cardinality(S) \in Nat
<1>1. IsFiniteSet(S)
  BY UpTo, FS_Subset
<1> QED
  BY <1>1, FS_CardinalityType

\* The place of a position among some.
Rank(S, i) == Cardinality({j \in S : j <= i})

\* Every rank up to the size of a set of positions is that of one of them.
LEMMA Ranked ==
  ASSUME NEW n \in Nat, NEW S \in SUBSET (1 .. n), NEW k \in 1 .. Cardinality(S)
  PROVE  IsFiniteSet(S) /\ Cardinality(S) \in Nat /\ \E i \in S : Rank(S, i) = k
<1>1. IsFiniteSet(S) /\ Cardinality(S) \in Nat
  BY PartUpTo
<1> DEFINE R(i) == {j \in S : j <= i}
           U    == {i \in Nat : Cardinality(R(i)) >= k}
<1>2. ASSUME NEW i \in Nat PROVE IsFiniteSet(R(i)) /\ Cardinality(R(i)) \in Nat
  <2>1. R(i) \in SUBSET (1 .. n)
    OBVIOUS
  <2> QED
    BY <2>1, PartUpTo
<1>3. R(n) = S /\ R(0) = {}
  <2>1. \A j \in S : j \in 1 .. n
    OBVIOUS
  <2>2. \A j \in S : j <= n /\ ~(j <= 0)
    BY <2>1
  <2> QED
    BY <2>2
<1>4. n \in U /\ ~(0 \in U)
  <2>1. Cardinality(R(n)) >= k /\ ~(Cardinality(R(0)) >= k)
    BY <1>1, <1>3, FS_EmptySet
  <2> QED
    BY <2>1
<1> DEFINE m == Min(U)
<1>5. m \in U /\ \A y \in U : m <= y
  BY <1>4, LeastOf
<1> HIDE DEF m
<1>10. m \in Nat /\ m # 0
  BY <1>4, <1>5
<1>6. m \in Nat /\ m - 1 \in Nat /\ ~(m - 1 \in U)
  <2>1. m - 1 \in Nat /\ ~(m <= m - 1)
    BY <1>10
  <2> HIDE DEF U
  <2> QED
    BY <1>5, <1>10, <2>1
<1>7. Cardinality(R(m - 1)) < k /\ Cardinality(R(m)) >= k
  <2>1. Cardinality(R(m - 1)) \in Nat /\ ~(Cardinality(R(m - 1)) >= k)
    BY <1>2, <1>6
  <2> QED
    BY <1>5, <2>1
<1>8. CASE m \in S
  <2>3. \A j \in S : j \in Int
    OBVIOUS
  <2>1. R(m) = R(m - 1) \cup {m} /\ ~(m \in R(m - 1))
    <3>1. \A j \in S : j <= m <=> j <= m - 1 \/ j = m
      BY <1>10, <2>3
    <3>2. R(m) = R(m - 1) \cup {m}
      BY <1>8, <3>1
    <3>3. ~(m <= m - 1)
      BY <1>10
    <3> QED
      BY <3>2, <3>3
  <2> HIDE DEF R
  <2>2. Cardinality(R(m)) = Cardinality(R(m - 1)) + 1
    BY <1>2, <1>6, <2>1, FS_AddElement
  <2>4. Cardinality(R(m)) = k
    BY <1>2, <1>6, <1>7, <2>2
  <2> QED
    BY <1>1, <1>8, <2>4 DEF Rank, R
<1>9. CASE m \notin S
  <2>2. \A j \in S : j \in Int /\ j # m
    BY <1>9
  <2>1. R(m) = R(m - 1)
    <3>1. \A j \in S : j <= m <=> j <= m - 1
      BY <1>10, <2>2
    <3> QED
      BY <3>1
  <2> QED
    BY <1>2, <1>6, <1>7, <2>1
<1> QED
  BY <1>8, <1>9

\* The entries at some positions, in their order.
LEMMA Picked ==
  ASSUME NEW X, NEW s \in Seq(X), NEW S \in SUBSET DOMAIN s
  PROVE  /\ Pick(s, S) \in Seq(X)
         /\ \A k \in DOMAIN Pick(s, S) :
              \E i \in S : Rank(S, i) = k /\ Pick(s, S)[k] = s[i]
         /\ S = DOMAIN s => Pick(s, S) = s
<1> DEFINE Place(k) == CHOOSE i \in S : Rank(S, i) = k
           p == [k \in 1 .. Cardinality(S) |-> s[Place(k)]]
<1>1. Pick(s, S) = p
  BY DEF Pick, Rank
<1>2. Len(s) \in Nat /\ DOMAIN s = 1 .. Len(s) /\ \A i \in DOMAIN s : s[i] \in X
  OBVIOUS
<1>3. Cardinality(S) \in Nat
  BY <1>2, PartUpTo
<1>4. ASSUME NEW k \in 1 .. Cardinality(S) PROVE Place(k) \in S /\ Rank(S, Place(k)) = k
  <2>1. \E i \in S : Rank(S, i) = k
    BY <1>2, Ranked
  <2> QED
    BY <2>1
<1> HIDE DEF Place
<1>5. p \in Seq(X)
  <2>1. \A k \in 1 .. Cardinality(S) : s[Place(k)] \in X
    BY <1>2, <1>4
  <2>2. p \in [1 .. Cardinality(S) -> X]
    BY <2>1
  <2> QED
    BY <1>3, <2>2, SeqDef
<1>6. \A k \in DOMAIN p : \E i \in S : Rank(S, i) = k /\ p[k] = s[i]
  <2> TAKE k \in DOMAIN p
  <2>1. k \in 1 .. Cardinality(S) /\ p[k] = s[Place(k)]
    OBVIOUS
  <2> QED
    BY <1>4, <2>1
<1>7. ASSUME S = DOMAIN s PROVE p = s
  <2>1. Cardinality(S) = Len(s)
    BY <1>2, <1>7, UpTo
  <2>2. ASSUME NEW i \in 1 .. Len(s) PROVE Rank(S, i) = i
    <3>1. {j \in S : j <= i} = 1 .. i
      BY <1>2, <1>7, <2>2
    <3>2. Cardinality(1 .. i) = i
      BY <2>2, UpTo
    <3> QED
      BY <3>1, <3>2 DEF Rank
  <2>3. \A k \in 1 .. Len(s) : Place(k) = k
    BY <1>2, <1>4, <1>7, <2>1, <2>2
  <2>4. p = [k \in 1 .. Len(s) |-> s[k]]
    BY <2>1, <2>3
  <2>5. s = [k \in DOMAIN s |-> s[k]]
    OBVIOUS
  <2> QED
    BY <1>2, <2>4, <2>5
<1> QED
  BY <1>1, <1>5, <1>6, <1>7

\* The members of the written source.
SourceOf(r) == LET s == FirstSources(r.source) IN [i \in DOMAIN s |-> <<s[i][1], Str(s[i][2])>>]

\* The keys of a source, and of which each key has one entry.
OneEach(source) == \A i, j \in DOMAIN source : source[i][1] = source[j][1] => i = j

\* The source is read as it was written when each key has one entry.
LEMMA SourceBack ==
  ASSUME NEW T, NEW r, r.source \in Seq(T \X T)
  PROVE  /\ IsA(Obj(SourceOf(r)), "object") /\ Deep1(Obj(SourceOf(r)))
         /\ Of(Obj(SourceOf(r))) = SourceOf(r)
         /\ \A i \in DOMAIN SourceOf(r) : IsText(SourceOf(r)[i][2])
         /\ OneEach(r.source) =>
              [i \in DOMAIN SourceOf(r) |-> <<SourceOf(r)[i][1], Of(SourceOf(r)[i][2])>>] = r.source
<1> DEFINE q == r.source
           S == {i \in DOMAIN q : \A j \in 1 .. i - 1 : q[j][1] # q[i][1]}
           s == Pick(q, S)
           o == [i \in DOMAIN s |-> <<s[i][1], Str(s[i][2])>>]
<1>1. SourceOf(r) = o
  BY DEF SourceOf, FirstSources
<1>2. q \in Seq(T \X T) /\ S \in SUBSET DOMAIN q
  OBVIOUS
<1>3. DOMAIN q \in SUBSET Nat /\ \A i, j \in DOMAIN q : i < j => i \in 1 .. j - 1
  OBVIOUS
<1>4. \A i, j \in S : q[i][1] = q[j][1] => i = j
  BY <1>3
<1> HIDE DEF q, S
<1>5. s \in Seq(T \X T) /\ \A k \in DOMAIN s : \E i \in S : Rank(S, i) = k /\ s[k] = q[i]
  BY <1>2, Picked
<1>6. S = DOMAIN q => s = q
  BY <1>2, Picked
<1> HIDE DEF s
<1>7. ASSUME NEW x PROVE IsText(Str(x)) /\ Of(Str(x)) = x /\ Leaf(Str(x))
  BY DEF Str, IsText, IsA, Of, Leaf
<1>8. DOMAIN o = DOMAIN s
      /\ \A i \in DOMAIN s : o[i] = <<s[i][1], Str(s[i][2])>>
  OBVIOUS
<1> HIDE DEF o
<1>9. \A i \in DOMAIN o : IsText(o[i][2]) /\ Leaf(o[i][2]) /\ Of(o[i][2]) = s[i][2] /\ o[i][1] = s[i][1]
  BY <1>7, <1>8
<1>10. NoKeyTwice(o)
  <2> SUFFICES ASSUME NEW k \in DOMAIN o, NEW l \in DOMAIN o, o[k][1] = o[l][1] PROVE k = l
    BY DEF NoKeyTwice
  <2>1. PICK i \in S : Rank(S, i) = k /\ s[k] = q[i]
    BY <1>5, <1>8
  <2>2. PICK j \in S : Rank(S, j) = l /\ s[l] = q[j]
    BY <1>5, <1>8
  <2> QED
    BY <1>4, <1>9, <2>1, <2>2
<1>11. IsA(Obj(o), "object") /\ ~IsA(Obj(o), "array") /\ Of(Obj(o)) = o
  BY DEF IsA, Obj, Of
<1>12. Deep1(Obj(o))
  BY <1>9, <1>10, <1>11 DEF Deep1
<1>13. ASSUME OneEach(q) PROVE [i \in DOMAIN o |-> <<o[i][1], Of(o[i][2])>>] = q
  <2>1. S = DOMAIN q
    <3>1. \A i \in DOMAIN q : \A j \in 1 .. i - 1 : j \in DOMAIN q /\ j # i
      BY <1>2
    <3> QED
      BY <1>13, <3>1 DEF S, OneEach
  <2>2. s = q
    BY <1>6, <2>1
  <2>3. \A i \in DOMAIN q : q[i] = <<q[i][1], q[i][2]>>
    BY <1>2
  <2>4. [i \in DOMAIN o |-> <<o[i][1], Of(o[i][2])>>] = [i \in DOMAIN q |-> q[i]]
    BY <1>8, <1>9, <2>2, <2>3
  <2>5. q = [i \in DOMAIN q |-> q[i]]
    BY <1>2
  <2> QED
    BY <2>4, <2>5
<1> QED
  BY <1>1, <1>9, <1>11, <1>12, <1>13 DEF q

-----------------------------------------------------------------------------
(* The review and the whole record                                         *)

\* Depth 1 is depth 3.
LEMMA Deeper == \A x : Deep1(x) => Deep3(x)
<1>1. \A x : Deep1(x) => Deep2(x)
  BY Shallow DEF Deep1, Deep2
<1>2. \A x : Deep1(x) => Deep3(x)
  BY Shallow DEF Deep1, Deep3
<1> QED
  BY <1>2

\* The written review.
ReviewToJson(r) == Obj(<< <<"state", Str(r.review)>> >> \o When({Str(n) : n \in r.notes}, "notes"))

\* The review is read as it was written.
LEMMA ReviewBack ==
  ASSUME NEW T, NEW r, r.review \in ReviewStates, r.notes \in Maybe(T), NEW v, v = ReviewToJson(r)
  PROVE  /\ ReviewOk(v) /\ Deep3(v) /\ Text(v, "state", "") = r.review
         /\ {Of(n) : n \in Find(v, "notes")} = r.notes
<1> DEFINE S == {Str(n) : n \in r.notes}
           G == {<<"notes", x>> : x \in S}
           F == {<<"state", Str(r.review)>>} \cup G
           o == << <<"state", Str(r.review)>> >> \o When(S, "notes")
<1>1. v = Obj(o)
  BY DEF ReviewToJson
<1>2. S = {} \/ \E x : S = {x}
  BY Mapped
<1>3. ASSUME NEW x PROVE IsA(Str(x), "string") /\ Of(Str(x)) = x /\ Leaf(Str(x))
  BY DEF Str, IsA, Of, Leaf
<1>4. \A x \in S : IsA(x, "string") /\ Leaf(x)
  BY <1>3
<1>5. {Of(n) : n \in S} = r.notes
  BY <1>3
<1> HIDE DEF S
<1>6. Object(o, F)
  <2>1. Object(<< <<"state", Str(r.review)>> >>, {<<"state", Str(r.review)>>})
    BY OneMember
  <2>2. Object(When(S, "notes"), G)
    BY <1>2, Optional
  <2>3. \A p \in {<<"state", Str(r.review)>>}, q \in G : p[1] # q[1]
    OBVIOUS
  <2> HIDE DEF G
  <2> QED
    BY <2>1, <2>2, <2>3, Together
<1> HIDE DEF o
<1>7. \A p \in F : p = <<"state", Str(r.review)>> \/ \E x \in S : p = <<"notes", x>>
  OBVIOUS
<1>8. <<"state", Str(r.review)>> \in F /\ \A x \in S : <<"notes", x>> \in F
  OBVIOUS
<1> HIDE DEF F
<1>9. Find(v, "state") = {Str(r.review)}
  BY <1>1, <1>6, <1>8, FindIn
<1>10. Find(v, "notes") = S
  <2>1. \A p \in F : p[1] = "notes" => S # {}
    BY <1>7
  <2>2. Holds(F, "notes", S)
    BY <1>2, <1>8, <2>1 DEF Holds, AtMostOne
  <2> QED
    BY <1>1, <1>6, <2>2, Found
<1>11. \A p \in F : Leaf(p[2])
  BY <1>3, <1>4, <1>7
<1>12. Deep3(v)
  BY <1>1, <1>6, <1>11, DeepObject, Deeper
<1>13. Text(v, "state", "") = r.review
  BY <1>3, <1>9 DEF Text
<1>14. ReviewOk(v)
  <2>1. IsA(v, "object")
    BY <1>1 DEF IsA, Obj
  <2>2. TextOrNone(v, "state")
    BY <1>9, Member
  <2>3. TextOrNone(v, "notes")
    BY <1>4, <1>10 DEF TextOrNone
  <2> QED
    BY <1>13, <2>1, <2>2, <2>3 DEF ReviewOk
<1> QED
  BY <1>5, <1>10, <1>12, <1>13, <1>14

\* A document with any values.
Whole(x1, x2, x3, x4, x5, x6, x7, x8, x9, x10, x11) ==
  << <<"schema_version", x1>>,
     <<"observation_id", x2>>,
     <<"timestamp_utc", x3>>,
     <<"source", x4>>,
     <<"artifacts", x5>>,
     <<"observed", x6>>,
     <<"derived", x7>>,
     <<"inferred", x8>>,
     <<"unresolved", x9>>,
     <<"recommended_next_observations", x10>>,
     <<"human_review", x11>> >>
WholeFields(x1, x2, x3, x4, x5, x6, x7, x8, x9, x10, x11) ==
  { <<"schema_version", x1>>,
    <<"observation_id", x2>>,
    <<"timestamp_utc", x3>>,
    <<"source", x4>>,
    <<"artifacts", x5>>,
    <<"observed", x6>>,
    <<"derived", x7>>,
    <<"inferred", x8>>,
    <<"unresolved", x9>>,
    <<"recommended_next_observations", x10>>,
    <<"human_review", x11>> }

\* The eleven members of a document.
LEMMA WholeObject ==
  ASSUME NEW x1, NEW x2, NEW x3, NEW x4, NEW x5, NEW x6, NEW x7, NEW x8, NEW x9, NEW x10, NEW x11
  PROVE  Object(Whole(x1, x2, x3, x4, x5, x6, x7, x8, x9, x10, x11),
                WholeFields(x1, x2, x3, x4, x5, x6, x7, x8, x9, x10, x11))
<1> DEFINE o == Whole(x1, x2, x3, x4, x5, x6, x7, x8, x9, x10, x11)
           F == WholeFields(x1, x2, x3, x4, x5, x6, x7, x8, x9, x10, x11)
<1>1. o \in Seq(F) /\ DOMAIN o = 1 .. 11
  BY DEF Whole, WholeFields
<1>2. /\ o[1] = <<"schema_version", x1>>
      /\ o[2] = <<"observation_id", x2>>
      /\ o[3] = <<"timestamp_utc", x3>>
      /\ o[4] = <<"source", x4>>
      /\ o[5] = <<"artifacts", x5>>
      /\ o[6] = <<"observed", x6>>
      /\ o[7] = <<"derived", x7>>
      /\ o[8] = <<"inferred", x8>>
      /\ o[9] = <<"unresolved", x9>>
      /\ o[10] = <<"recommended_next_observations", x10>>
      /\ o[11] = <<"human_review", x11>>
  BY DEF Whole
<1> HIDE DEF o
<1>3. \A i \in DOMAIN o : \/ i = 1 \/ i = 2 \/ i = 3 \/ i = 4 \/ i = 5 \/ i = 6
                           \/ i = 7 \/ i = 8 \/ i = 9 \/ i = 10 \/ i = 11
  BY <1>1
<1>4. /\ o[1][1] = "schema_version"
      /\ o[2][1] = "observation_id"
      /\ o[3][1] = "timestamp_utc"
      /\ o[4][1] = "source"
      /\ o[5][1] = "artifacts"
      /\ o[6][1] = "observed"
      /\ o[7][1] = "derived"
      /\ o[8][1] = "inferred"
      /\ o[9][1] = "unresolved"
      /\ o[10][1] = "recommended_next_observations"
      /\ o[11][1] = "human_review"
  BY <1>2
<1>5. NoKeyTwice(o)
  BY <1>3, <1>4 DEF NoKeyTwice
<1>6. \A p \in F : \E i \in DOMAIN o : o[i] = p
  <2>1. /\ 1 \in DOMAIN o /\ 2 \in DOMAIN o /\ 3 \in DOMAIN o /\ 4 \in DOMAIN o
        /\ 5 \in DOMAIN o /\ 6 \in DOMAIN o /\ 7 \in DOMAIN o /\ 8 \in DOMAIN o
        /\ 9 \in DOMAIN o /\ 10 \in DOMAIN o /\ 11 \in DOMAIN o
    BY <1>1
  <2>2. \A p \in F : \/ p = o[1] \/ p = o[2] \/ p = o[3] \/ p = o[4] \/ p = o[5] \/ p = o[6]
                     \/ p = o[7] \/ p = o[8] \/ p = o[9] \/ p = o[10] \/ p = o[11]
    BY <1>2 DEF WholeFields
  <2> HIDE DEF F
  <2> QED
    BY <2>1, <2>2
<1> HIDE DEF F
<1> QED
  BY <1>1, <1>5, <1>6 DEF Object, o, F

\* What find() gives of a written record.
LEMMA RecordFound ==
  ASSUME NEW T, NEW N, NEW r \in Records(T, N), NEW v, v = ToJson(r)
  PROVE  /\ IsA(v, "object") /\ Deep4(v)
         /\ Find(v, "observation_id") = {Str(r.observationId)}
         /\ Find(v, "timestamp_utc") = {Str(r.timestampUtc)}
         /\ Find(v, "source") = {Obj(SourceOf(r))}
         /\ Find(v, "artifacts") = {Arr(Each(ArtifactToJson, r.artifacts))}
         /\ Find(v, "observed") = {Arr(Each(ClaimToJson, r.observed))}
         /\ Find(v, "derived") = {Arr(Each(ClaimToJson, r.derived))}
         /\ Find(v, "inferred") = {Arr(Each(ClaimToJson, r.inferred))}
         /\ Find(v, "unresolved") = {Arr(Each(UnresolvedToJson, r.unresolved))}
         /\ Find(v, "recommended_next_observations") = {Arr(Each(RecommendedToJson, r.recommended))}
         /\ Find(v, "human_review") = {ReviewToJson(r)}
<1> DEFINE version == Str("0.1")
           id    == Str(r.observationId)
           time  == Str(r.timestampUtc)
           src   == Obj(SourceOf(r))
           art   == Arr(Each(ArtifactToJson, r.artifacts))
           obs   == Arr(Each(ClaimToJson, r.observed))
           drv   == Arr(Each(ClaimToJson, r.derived))
           inf   == Arr(Each(ClaimToJson, r.inferred))
           unr   == Arr(Each(UnresolvedToJson, r.unresolved))
           rec   == Arr(Each(RecommendedToJson, r.recommended))
           rev   == ReviewToJson(r)
           o == Whole(version, id, time, src, art, obs, drv, inf, unr, rec, rev)
           F == WholeFields(version, id, time, src, art, obs, drv, inf, unr, rec, rev)
<1>1. v = Obj(o)
  BY DEF ToJson, Whole, SourceOf, ReviewToJson
<1>2. /\ r.source \in Seq(T \X T) /\ r.artifacts \in Seq(ArtifactsOf(T))
      /\ r.observed \in Seq(ClaimsOf(T, N)) /\ r.derived \in Seq(ClaimsOf(T, N))
      /\ r.inferred \in Seq(ClaimsOf(T, N)) /\ r.unresolved \in Seq(UnresolvedOf(T))
      /\ r.recommended \in Seq(RecommendedOf(T)) /\ r.review \in ReviewStates
      /\ r.notes \in Maybe(T)
  BY DEF Records
<1>3. Deep3(version) /\ Deep3(id) /\ Deep3(time)
  <2>1. ASSUME NEW x PROVE Leaf(Str(x))
    BY DEF Str, IsA, Leaf
  <2> QED
    BY <2>1, Shallow
<1>4. Deep3(src)
  BY <1>2, SourceBack, Deeper
<1>5. Deep3(art)
  BY <1>2, ArtifactsBack
<1>6. Deep3(obs) /\ Deep3(drv) /\ Deep3(inf)
  BY <1>2, ClaimsBack
<1>7. Deep3(unr) /\ Deep3(rec)
  BY <1>2, UnresolvedsBack, RecommendedsBack
<1>8. Deep3(rev)
  BY <1>2, ReviewBack
<1> HIDE DEF version, id, time, src, art, obs, drv, inf, unr, rec, rev
<1>9. Object(o, F)
  BY WholeObject
<1>10. \A p \in F : Deep3(p[2])
  BY <1>3, <1>4, <1>5, <1>6, <1>7, <1>8 DEF WholeFields
<1>11. /\ <<"observation_id", id>> \in F
       /\ <<"timestamp_utc", time>> \in F
       /\ <<"source", src>> \in F
       /\ <<"artifacts", art>> \in F
       /\ <<"observed", obs>> \in F
       /\ <<"derived", drv>> \in F
       /\ <<"inferred", inf>> \in F
       /\ <<"unresolved", unr>> \in F
       /\ <<"recommended_next_observations", rec>> \in F
       /\ <<"human_review", rev>> \in F
  BY DEF WholeFields
<1> HIDE DEF o, F
<1>12. Deep4(v)
  BY <1>1, <1>9, <1>10, DeepObject
<1>13. IsA(v, "object")
  BY <1>1 DEF IsA, Obj
<1>14. /\ Find(v, "observation_id") = {id}
       /\ Find(v, "timestamp_utc") = {time}
       /\ Find(v, "source") = {src}
       /\ Find(v, "artifacts") = {art}
       /\ Find(v, "observed") = {obs}
       /\ Find(v, "derived") = {drv}
       /\ Find(v, "inferred") = {inf}
       /\ Find(v, "unresolved") = {unr}
       /\ Find(v, "recommended_next_observations") = {rec}
       /\ Find(v, "human_review") = {rev}
  BY <1>1, <1>9, <1>11, FindIn
<1> QED
  BY <1>12, <1>13, <1>14 DEF id, time, src, art, obs, drv, inf, unr, rec, rev

\* toJson() never emits a document that fromJson() refuses (Observation.cpp:132-134),
\* whatever is in the record.
THEOREM WrittenIsAccepted ==
  ASSUME NEW T, NEW N, NEW r \in Records(T, N)
  PROVE  Accepts(ToJson(r))
<1> DEFINE v == ToJson(r)
<1> HIDE DEF v
<1>1. /\ r.source \in Seq(T \X T) /\ r.artifacts \in Seq(ArtifactsOf(T))
      /\ r.observed \in Seq(ClaimsOf(T, N)) /\ r.derived \in Seq(ClaimsOf(T, N))
      /\ r.inferred \in Seq(ClaimsOf(T, N)) /\ r.unresolved \in Seq(UnresolvedOf(T))
      /\ r.recommended \in Seq(RecommendedOf(T)) /\ r.review \in ReviewStates
      /\ r.notes \in Maybe(T)
  BY DEF Records
<1>2. IsA(v, "object") /\ KeysOnce(v)
  BY RecordFound, DeepOnce DEF v
<1>3. HasText(v, "observation_id") /\ TextOrNone(v, "timestamp_utc")
  BY RecordFound, Member DEF v
<1>4. \A s \in Find(v, "source") : /\ IsA(s, "object")
                                   /\ \A i \in DOMAIN Of(s) : IsText(Of(s)[i][2])
  <2>1. Find(v, "source") = {Obj(SourceOf(r))}
    BY RecordFound DEF v
  <2> QED
    BY <1>1, <2>1, SourceBack
<1>5. ArrayOf(v, "artifacts", ArtifactOk)
  <2>1. Find(v, "artifacts") = {Arr(Each(ArtifactToJson, r.artifacts))}
    BY RecordFound DEF v
  <2> QED
    BY <1>1, <2>1, ArtifactsBack
<1>6. \A key \in {"observed", "derived", "inferred"} : ArrayOf(v, key, ClaimOk)
  <2>1. ArrayOf(v, "observed", ClaimOk)
    <3>1. Find(v, "observed") = {Arr(Each(ClaimToJson, r.observed))}
      BY RecordFound DEF v
    <3> QED
      BY <1>1, <3>1, ClaimsBack
  <2>2. ArrayOf(v, "derived", ClaimOk)
    <3>1. Find(v, "derived") = {Arr(Each(ClaimToJson, r.derived))}
      BY RecordFound DEF v
    <3> QED
      BY <1>1, <3>1, ClaimsBack
  <2>3. ArrayOf(v, "inferred", ClaimOk)
    <3>1. Find(v, "inferred") = {Arr(Each(ClaimToJson, r.inferred))}
      BY RecordFound DEF v
    <3> QED
      BY <1>1, <3>1, ClaimsBack
  <2> QED
    BY <2>1, <2>2, <2>3
<1>7. ArrayOf(v, "unresolved", UnresolvedOk)
  <2>1. Find(v, "unresolved") = {Arr(Each(UnresolvedToJson, r.unresolved))}
    BY RecordFound DEF v
  <2> QED
    BY <1>1, <2>1, UnresolvedsBack
<1>8. ArrayOf(v, "recommended_next_observations", RecommendedOk)
  <2>1. Find(v, "recommended_next_observations") = {Arr(Each(RecommendedToJson, r.recommended))}
    BY RecordFound DEF v
  <2> QED
    BY <1>1, <2>1, RecommendedsBack
<1>9. \A h \in Find(v, "human_review") : ReviewOk(h)
  <2>1. Find(v, "human_review") = {ReviewToJson(r)}
    BY RecordFound DEF v
  <2> QED
    BY <1>1, <2>1, ReviewBack
<1>10. Accepts(v)
  BY <1>2, <1>3, <1>4, <1>5, <1>6, <1>7, <1>8, <1>9 DEF Accepts
<1> QED
  BY <1>10 DEF v

\* A record whose source has each key once is read as it was written.
THEOREM ReadAsWritten ==
  ASSUME NEW T, NEW N, NEW r \in Records(T, N), OneEach(r.source)
  PROVE  Read(ToJson(r)) = r
<1> DEFINE v == ToJson(r)
<1> HIDE DEF v
<1>1. /\ r.source \in Seq(T \X T) /\ r.artifacts \in Seq(ArtifactsOf(T))
      /\ r.observed \in Seq(ClaimsOf(T, N)) /\ r.derived \in Seq(ClaimsOf(T, N))
      /\ r.inferred \in Seq(ClaimsOf(T, N)) /\ r.unresolved \in Seq(UnresolvedOf(T))
      /\ r.recommended \in Seq(RecommendedOf(T)) /\ r.review \in ReviewStates
      /\ r.notes \in Maybe(T)
  BY DEF Records
<1>2. Text(v, "observation_id", "") = r.observationId /\ Text(v, "timestamp_utc", "") = r.timestampUtc
  <2>1. Find(v, "observation_id") = {Str(r.observationId)}
        /\ Find(v, "timestamp_utc") = {Str(r.timestampUtc)}
    BY RecordFound DEF v
  <2>2. Of(Str(r.observationId)) = r.observationId /\ Of(Str(r.timestampUtc)) = r.timestampUtc
    BY DEF Of, Str
  <2>3. Text(v, "observation_id", "") = r.observationId
    BY <2>1, <2>2 DEF Text
  <2>4. Text(v, "timestamp_utc", "") = r.timestampUtc
    BY <2>1, <2>2 DEF Text
  <2> QED
    BY <2>3, <2>4
<1>3. LET source == Entries(v, "source")
      IN  [i \in DOMAIN source |-> <<source[i][1], Of(source[i][2])>>] = r.source
  <2>1. Find(v, "source") = {Obj(SourceOf(r))}
    BY RecordFound DEF v
  <2>2. Entries(v, "source") = SourceOf(r)
    BY <1>1, <2>1, Member, SourceBack
  <2> QED
    BY <1>1, <2>2, SourceBack
<1>4. Each(ReadArtifact, Entries(v, "artifacts")) = r.artifacts
  <2>1. Find(v, "artifacts") = {Arr(Each(ArtifactToJson, r.artifacts))}
    BY RecordFound DEF v
  <2> QED
    BY <1>1, <2>1, ArtifactsBack
<1>5. /\ Each(ReadClaim, Entries(v, "observed")) = r.observed
      /\ Each(ReadClaim, Entries(v, "derived")) = r.derived
      /\ Each(ReadClaim, Entries(v, "inferred")) = r.inferred
  <2>1. Each(ReadClaim, Entries(v, "observed")) = r.observed
    <3>1. Find(v, "observed") = {Arr(Each(ClaimToJson, r.observed))}
      BY RecordFound DEF v
    <3> QED
      BY <1>1, <3>1, ClaimsBack
  <2>2. Each(ReadClaim, Entries(v, "derived")) = r.derived
    <3>1. Find(v, "derived") = {Arr(Each(ClaimToJson, r.derived))}
      BY RecordFound DEF v
    <3> QED
      BY <1>1, <3>1, ClaimsBack
  <2>3. Each(ReadClaim, Entries(v, "inferred")) = r.inferred
    <3>1. Find(v, "inferred") = {Arr(Each(ClaimToJson, r.inferred))}
      BY RecordFound DEF v
    <3> QED
      BY <1>1, <3>1, ClaimsBack
  <2> QED
    BY <2>1, <2>2, <2>3
<1>6. Each(ReadUnresolved, Entries(v, "unresolved")) = r.unresolved
  <2>1. Find(v, "unresolved") = {Arr(Each(UnresolvedToJson, r.unresolved))}
    BY RecordFound DEF v
  <2> QED
    BY <1>1, <2>1, UnresolvedsBack
<1>7. Each(ReadRecommended, Entries(v, "recommended_next_observations")) = r.recommended
  <2>1. Find(v, "recommended_next_observations") = {Arr(Each(RecommendedToJson, r.recommended))}
    BY RecordFound DEF v
  <2> QED
    BY <1>1, <2>1, RecommendedsBack
<1> DEFINE review == Find(v, "human_review")
           state  == {Text(h, "state", "") : h \in review} \ {""}
<1>8. /\ (IF state = {} THEN "pending" ELSE CHOOSE s \in state : TRUE) = r.review
      /\ UNION {{Of(n) : n \in Find(h, "notes")} : h \in review} = r.notes
  <2>1. review = {ReviewToJson(r)}
    BY RecordFound DEF v
  <2> DEFINE h == ReviewToJson(r)
  <2>2. Text(h, "state", "") = r.review /\ {Of(n) : n \in Find(h, "notes")} = r.notes
    BY <1>1, ReviewBack
  <2>3. r.review # ""
    BY <1>1 DEF ReviewStates
  <2> HIDE DEF h, review
  <2>4. state = {r.review}
    BY <2>1, <2>2, <2>3 DEF h
  <2>5. {{Of(n) : n \in Find(g, "notes")} : g \in review} = {r.notes}
    BY <2>1, <2>2 DEF h
  <2> QED
    BY <2>4, <2>5
<1>9. Read(v) = [observationId |-> r.observationId, timestampUtc |-> r.timestampUtc,
                 source |-> r.source, artifacts |-> r.artifacts, observed |-> r.observed,
                 derived |-> r.derived, inferred |-> r.inferred, unresolved |-> r.unresolved,
                 recommended |-> r.recommended, review |-> r.review, notes |-> r.notes]
  BY <1>2, <1>3, <1>4, <1>5, <1>6, <1>7, <1>8 DEF Read
<1>10. Read(v) = r
  BY <1>9 DEF Records
<1> QED
  BY <1>10 DEF v

-----------------------------------------------------------------------------
(* Cells                                                                   *)

\* The frames a grid stands for.
GridOK(g) == g.w \in Nat \ {0} /\ g.h \in Nat \ {0}
Cells(g) == 0 .. g.w * g.h - 1

\* The pixel in a column of a row.
LEMMA RowIs == ASSUME NEW w \in Nat \ {0}, NEW x \in 0 .. w - 1, NEW y \in Nat
  PROVE (y * w + x) % w = x /\ (y * w + x) \div w = y /\ y * w + x \in Nat
  OBVIOUS

\* The row and the column of a pixel.
LEMMA RowOf == ASSUME NEW w \in Nat \ {0}, NEW i \in Nat
  PROVE /\ i % w \in 0 .. w - 1 /\ i \div w \in Nat /\ i = (i \div w) * w + (i % w)
<1> DEFINE y == i \div w
           x == i - y * w
<1>1. y \in Nat /\ y * w <= i /\ i < y * w + w
  OBVIOUS
<1>2. y * w \in Nat
  BY <1>1
<1>3. x \in 0 .. w - 1 /\ i = y * w + x
  BY <1>1, <1>2
<1>4. y * w + x = i
  BY <1>3
<1> HIDE DEF x
<1>5. (y * w + x) % w = x
  BY <1>1, <1>3, RowIs
<1>6. i % w = x
  BY <1>4, <1>5, Zenon
<1> QED
  BY <1>1, <1>3, <1>6

\* The rows of the grid are those whose pixels are on it.
LEMMA RowIn == ASSUME NEW w \in Nat \ {0}, NEW h \in Nat \ {0}, NEW x \in 0 .. w - 1, NEW y \in Nat
  PROVE y * w + x <= w * h - 1 <=> y <= h - 1
  OBVIOUS

\* A cell of the grid: its index and its coordinates are the same thing.
Cell(g, c) == c \in [x : 0 .. g.w - 1, y : 0 .. g.h - 1]

\* A pixel is on the grid, at the place whose pixel it is.
LEMMA AtIs ==
  ASSUME NEW g, GridOK(g), NEW i \in Cells(g)
  PROVE  Cell(g, At(g, i)) /\ Index(g, At(g, i)) = i
<1> DEFINE w == g.w
           h == g.h
<1>1. w \in Nat \ {0} /\ h \in Nat \ {0}
  BY DEF GridOK
<1>2. w * h \in Nat /\ i \in Nat /\ i <= w * h - 1
  BY <1>1 DEF Cells
<1> HIDE DEF w, h
<1>3. i % w \in 0 .. w - 1 /\ i \div w \in Nat /\ i = (i \div w) * w + (i % w)
  BY <1>1, <1>2, RowOf
<1>4. i \div w <= h - 1
  BY <1>1, <1>2, <1>3, RowIn
<1>5. i \div w \in 0 .. h - 1
  BY <1>1, <1>3, <1>4
<1> DEFINE c == At(g, i)
<1>6. c = [x |-> i % w, y |-> i \div w]
  BY DEF At, w
<1>7. At(g, i) \in [x : 0 .. w - 1, y : 0 .. h - 1]
  BY <1>3, <1>5, <1>6
<1>9. Index(g, c) = c.y * w + c.x
  BY DEF Index, w
<1> HIDE DEF c
<1>8. Index(g, c) = (i \div w) * w + (i % w)
  BY <1>6, <1>9
<1> QED
  BY <1>3, <1>7, <1>8 DEF Cell, w, h, c

\* A place on the grid is that of its pixel.
LEMMA IndexIs ==
  ASSUME NEW g, GridOK(g), NEW c, Cell(g, c)
  PROVE  Index(g, c) \in Cells(g) /\ At(g, Index(g, c)) = c
<1> DEFINE w == g.w
           h == g.h
           x == c.x
           y == c.y
           i == y * w + x
<1>1. w \in Nat \ {0} /\ h \in Nat \ {0}
  BY DEF GridOK
<1>2. x \in 0 .. w - 1 /\ y \in 0 .. h - 1 /\ c = [x |-> x, y |-> y] /\ y \in Nat /\ y <= h - 1
  BY <1>1 DEF Cell
<1>3. Index(g, c) = i /\ At(g, i) = [x |-> i % w, y |-> i \div w]
  BY DEF Index, At
<1> HIDE DEF w, h, x, y
<1>4. i % w = x /\ i \div w = y /\ i \in Nat
  BY <1>1, <1>2, RowIs
<1>5. i <= w * h - 1
  BY <1>1, <1>2, RowIn
<1>6. w * h \in Nat
  BY <1>1
<1> HIDE DEF i
<1>7. i \in 0 .. w * h - 1
  BY <1>4, <1>5, <1>6
<1> QED
  BY <1>2, <1>3, <1>4, <1>7 DEF Cells, w, h

\* The neighbours of a pixel are the pixels beside it.
LEMMA LinkedIs ==
  ASSUME NEW g, GridOK(g), NEW i \in Cells(g)
  PROVE  Linked(g, i) = {j \in Cells(g) : Beside(At(g, i), At(g, j))}
<1> DEFINE c == At(g, i)
           four == ToSet(Four(c))
<1>1. Cell(g, c) /\ c.x \in Int /\ c.y \in Int /\ c = [x |-> c.x, y |-> c.y]
      /\ g.w \in Nat \ {0} /\ g.h \in Nat \ {0}
  BY AtIs DEF Cell, GridOK
<1> HIDE DEF c
<1>2. four = {[x |-> c.x - 1, y |-> c.y], [x |-> c.x + 1, y |-> c.y],
              [x |-> c.x, y |-> c.y - 1], [x |-> c.x, y |-> c.y + 1]}
  <2> DEFINE f == Four(c)
  <2>1. DOMAIN f = 1 .. 4 /\ f[1] = [x |-> c.x - 1, y |-> c.y] /\ f[2] = [x |-> c.x + 1, y |-> c.y]
        /\ f[3] = [x |-> c.x, y |-> c.y - 1] /\ f[4] = [x |-> c.x, y |-> c.y + 1]
    BY DEF Four
  <2>2. 1 .. 4 = {1, 2, 3, 4}
    OBVIOUS
  <2>3. four = {f[k] : k \in 1 .. 4}
    BY <2>1 DEF ToSet
  <2> HIDE DEF f
  <2>4. {f[k] : k \in {1, 2, 3, 4}} = {f[1], f[2], f[3], f[4]}
    OBVIOUS
  <2> QED
    BY <2>1, <2>2, <2>3, <2>4
<1> HIDE DEF four
<1>3. \A d \in four : d = [x |-> d.x, y |-> d.y] /\ d.x \in Int /\ d.y \in Int /\ Beside(c, d)
  BY <1>1, <1>2 DEF Beside
<1>4. \A d \in four : OnGrid(g, d) <=> Cell(g, d)
  <2> TAKE d \in four
  <2>1. d = [x |-> d.x, y |-> d.y] /\ d.x \in Int /\ d.y \in Int
    BY <1>3
  <2> QED
    BY <1>1, <2>1 DEF OnGrid, Cell
<1>5. \A d : Cell(g, d) /\ Beside(c, d) => d \in four
  <2> SUFFICES ASSUME NEW d, Cell(g, d), Beside(c, d) PROVE d \in four
    OBVIOUS
  <2>1. d = [x |-> d.x, y |-> d.y] /\ d.x \in Int /\ d.y \in Int
    BY <1>1 DEF Cell
  <2> QED
    BY <1>1, <1>2, <2>1 DEF Beside
<1>6. Linked(g, i) = {Index(g, d) : d \in {n \in four : OnGrid(g, n)}}
  BY DEF Linked, four, c
<1>7. ASSUME NEW j \in Linked(g, i) PROVE j \in Cells(g) /\ Beside(c, At(g, j))
  <2>1. PICK d \in four : OnGrid(g, d) /\ j = Index(g, d)
    BY <1>6, <1>7
  <2>2. Cell(g, d) /\ Beside(c, d)
    BY <1>3, <1>4, <2>1
  <2> QED
    BY <2>1, <2>2, IndexIs
<1>8. ASSUME NEW j \in Cells(g), Beside(c, At(g, j)) PROVE j \in Linked(g, i)
  <2>1. Cell(g, At(g, j)) /\ Index(g, At(g, j)) = j
    BY AtIs
  <2>2. At(g, j) \in four /\ OnGrid(g, At(g, j))
    BY <1>4, <1>5, <1>8, <2>1
  <2> QED
    BY <1>6, <2>1, <2>2
<1> QED
  BY <1>7, <1>8 DEF c

\* Neighbours are mutual.
LEMMA LinkedBack ==
  ASSUME NEW g, GridOK(g), NEW i \in Cells(g), NEW j \in Cells(g), j \in Linked(g, i)
  PROVE  i \in Linked(g, j)
<1>1. Cell(g, At(g, i)) /\ Cell(g, At(g, j)) /\ Beside(At(g, i), At(g, j))
  BY AtIs, LinkedIs
<1>2. /\ At(g, i).x \in Int /\ At(g, i).y \in Int /\ At(g, j).x \in Int /\ At(g, j).y \in Int
  BY <1>1 DEF Cell
<1>3. Beside(At(g, j), At(g, i))
  BY <1>1, <1>2 DEF Beside
<1> QED
  BY <1>3, LinkedIs

-----------------------------------------------------------------------------
(* The flood fill                                                          *)

\* A part of a region that no step between neighbours leaves.
Closed(g, region, S) == \A i \in S : Linked(g, i) \cap region \subseteq S

\* What is in every closed part that has the pixels one starts from.
Reach(g, region, from) ==
  {j \in region : \A S \in SUBSET region : from \subseteq S /\ Closed(g, region, S) => j \in S}

\* The pixels of a region that are beside a part of it.
Rim(g, region, r) == {j \in region \ r : Linked(g, j) \cap r # {}}

\* Without a rim, a part is closed; and a closed part takes in the rim of what it holds.
LEMMA RimClosed ==
  ASSUME NEW g, GridOK(g), NEW region \in SUBSET Cells(g), NEW r \in SUBSET region
  PROVE  /\ Rim(g, region, r) = {} => Closed(g, region, r)
         /\ \A S \in SUBSET region : r \subseteq S /\ Closed(g, region, S)
                                       => Rim(g, region, r) \subseteq S
<1>1. ASSUME Rim(g, region, r) = {} PROVE Closed(g, region, r)
  <2>1. ASSUME NEW i \in r, NEW j \in Linked(g, i) \cap region PROVE j \in r
    <3>1. i \in Linked(g, j)
      BY <2>1, LinkedBack
    <3> QED
      BY <1>1, <2>1, <3>1 DEF Rim
  <2> QED
    BY <2>1 DEF Closed
<1>2. ASSUME NEW S \in SUBSET region, r \subseteq S, Closed(g, region, S),
             NEW j \in Rim(g, region, r)
      PROVE  j \in S
  <2>1. PICK i \in r : i \in Linked(g, j) /\ j \in region
    BY <1>2 DEF Rim
  <2>2. j \in Linked(g, i) /\ i \in S
    BY <1>2, <2>1, LinkedBack
  <2> QED
    BY <1>2, <2>1, <2>2 DEF Closed
<1> QED
  BY <1>1, <1>2

\* One round of the fill reaches no more than the whole fill does.
LEMMA ReachStep ==
  ASSUME NEW g, GridOK(g), NEW region \in SUBSET Cells(g), NEW r \in SUBSET region
  PROVE  Reach(g, region, r) = IF Rim(g, region, r) = {} THEN r
                               ELSE Reach(g, region, r \cup Rim(g, region, r))
<1>1. ASSUME Rim(g, region, r) = {} PROVE Reach(g, region, r) = r
  <2>1. Closed(g, region, r)
    BY <1>1, RimClosed
  <2> QED
    BY <2>1 DEF Reach
<1>2. Reach(g, region, r) = Reach(g, region, r \cup Rim(g, region, r))
  <2>1. \A S \in SUBSET region : Closed(g, region, S) =>
          (r \subseteq S <=> r \cup Rim(g, region, r) \subseteq S)
    BY RimClosed
  <2> QED
    BY <2>1 DEF Reach
<1> QED
  BY <1>1, <1>2

\* What of a grid's cells is a finite set.
LEMMA CellsFinite ==
  ASSUME NEW g, GridOK(g), NEW S \in SUBSET Cells(g)
  PROVE  IsFiniteSet(S) /\ Cardinality(S) \in Nat
<1>1. g.w * g.h - 1 \in Int
  BY DEF GridOK
<1>2. IsFiniteSet(Cells(g))
  BY <1>1, FS_Interval DEF Cells
<1> QED
  BY <1>2, FS_Subset, FS_CardinalityType

\* The flood fill finds the least closed part: what is connected to its start, and no more.
LEMMA FloodIs ==
  ASSUME NEW g, GridOK(g), NEW region \in SUBSET Cells(g), NEW from \in SUBSET region
  PROVE  Flood(g, region, from) = Reach(g, region, from)
<1> DEFINE Round(f) == [r \in SUBSET region |->
                          LET next == {j \in region \ r : Linked(g, j) \cap r # {}}
                          IN  IF next = {} THEN r ELSE f[r \cup next]]
           reach == [r \in SUBSET region |-> Reach(g, region, r)]
           fill  == CHOOSE f : f = Round(f)
<1>1. reach = Round(reach)
  <2>1. ASSUME NEW r \in SUBSET region
        PROVE  reach[r] = LET next == {j \in region \ r : Linked(g, j) \cap r # {}}
                          IN  IF next = {} THEN r ELSE reach[r \cup next]
    <3>1. r \cup Rim(g, region, r) \in SUBSET region
      BY DEF Rim
    <3> QED
      BY <3>1, ReachStep DEF Rim
  <2> QED
    BY <2>1
<1>2. fill = Round(fill)
  <2> HIDE DEF Round, reach
  <2> QED
    BY <1>1
<1>3. ASSUME NEW r \in SUBSET region
      PROVE  fill[r] = IF Rim(g, region, r) = {} THEN r ELSE fill[r \cup Rim(g, region, r)]
  <2> HIDE DEF fill
  <2> QED
    BY <1>2 DEF Rim
<1>4. Flood(g, region, from) = fill[from]
  BY DEF Flood
<1> HIDE DEF fill, Round
<1> DEFINE Bad  == {r \in SUBSET region : fill[r] # Reach(g, region, r)}
           Left(r) == Cardinality(region \ r)
           Sizes == {Left(r) : r \in Bad}
<1>5. \A r \in SUBSET region : Left(r) \in Nat
  BY CellsFinite
<1>6. ASSUME NEW r \in Bad PROVE \E s \in Bad : Left(s) < Left(r)
  <2> DEFINE s == r \cup Rim(g, region, r)
  <2>6. r \in SUBSET region /\ fill[r] # Reach(g, region, r)
    BY <1>6
  <2>7. Rim(g, region, r) \subseteq region
    BY DEF Rim
  <2>8. Rim(g, region, r) # {}
    BY <1>3, <2>6, ReachStep
  <2>1. Rim(g, region, r) # {} /\ s \in SUBSET region
    BY <2>6, <2>7, <2>8
  <2>2. s \in Bad
    BY <1>3, <2>6, <2>1, ReachStep
  <2>3. region \ s \subseteq region \ r /\ region \ s # region \ r
    BY <2>1 DEF Rim
  <2>4. IsFiniteSet(region \ r)
    BY CellsFinite
  <2>5. Left(s) < Left(r)
    <3>1. Left(s) \in Nat /\ Left(r) \in Nat
      BY <1>5, <2>1, <2>6
    <3>2. Left(s) <= Left(r) /\ Left(s) # Left(r)
      BY <2>3, <2>4, FS_Subset
    <3> HIDE DEF Left, s
    <3> QED
      BY <3>1, <3>2
  <2> QED
    BY <2>2, <2>5
<1> HIDE DEF Left
<1>7. Bad = {}
  <2> SUFFICES ASSUME Bad # {} PROVE FALSE
    OBVIOUS
  <2>1. Sizes \in SUBSET Nat /\ Sizes # {}
    BY <1>5
  <2>2. Min(Sizes) \in Sizes /\ \A y \in Sizes : Min(Sizes) <= y
    BY <2>1, LeastOf
  <2>3. PICK r \in Bad : Left(r) = Min(Sizes)
    BY <2>2
  <2>4. PICK s \in Bad : Left(s) < Left(r)
    BY <1>6
  <2>5. Left(s) \in Sizes /\ Left(s) \in Nat /\ Left(r) \in Nat
    BY <1>5
  <2>6. Left(r) <= Left(s)
    BY <2>2, <2>3, <2>5
  <2> HIDE DEF Bad, Sizes
  <2> QED
    BY <2>4, <2>5, <2>6
<1> QED
  BY <1>4, <1>7

\* What is reached from a pixel: it is there, and no step leaves the rest.
LEMMA ReachClosed ==
  ASSUME NEW g, GridOK(g), NEW region \in SUBSET Cells(g), NEW from \in SUBSET region
  PROVE  /\ Reach(g, region, from) \in SUBSET region /\ from \subseteq Reach(g, region, from)
         /\ Closed(g, region, Reach(g, region, from))
         /\ Closed(g, region, region \ Reach(g, region, from))
         /\ \A S \in SUBSET region : from \subseteq S /\ Closed(g, region, S)
                                       => Reach(g, region, from) \subseteq S
<1> DEFINE R == Reach(g, region, from)
<1>1. R \in SUBSET region /\ from \subseteq R
  BY DEF Reach
<1>2. \A S \in SUBSET region : from \subseteq S /\ Closed(g, region, S) => R \subseteq S
  BY DEF Reach
<1>3. Closed(g, region, R)
  <2>1. ASSUME NEW i \in R, NEW j \in Linked(g, i) \cap region PROVE j \in R
    <3>1. ASSUME NEW S \in SUBSET region, from \subseteq S, Closed(g, region, S) PROVE j \in S
      BY <1>2, <2>1, <3>1 DEF Closed
    <3> QED
      BY <2>1, <3>1 DEF Reach
  <2> HIDE DEF R
  <2> QED
    BY <2>1 DEF Closed
<1> HIDE DEF R
<1>4. Closed(g, region, region \ R)
  <2>1. ASSUME NEW i \in region \ R, NEW j \in Linked(g, i) \cap region PROVE j \in region \ R
    <3>1. i \in Linked(g, j)
      BY <2>1, LinkedBack
    <3> QED
      BY <1>3, <2>1, <3>1 DEF Closed
  <2> QED
    BY <2>1 DEF Closed
<1> QED
  BY <1>1, <1>2, <1>3, <1>4 DEF R

\* A closed part with a pixel has all that is reached from it.
LEMMA ReachLeast ==
  ASSUME NEW g, NEW region, NEW S \in SUBSET region, Closed(g, region, S), NEW i \in S
  PROVE  Reach(g, region, {i}) \subseteq S
  BY DEF Reach

\* The connected parts of a region.
Parts(g, region) == {Reach(g, region, {i}) : i \in region}

\* Each is the same from any of its pixels.
LEMMA PartFrom ==
  ASSUME NEW g, GridOK(g), NEW region \in SUBSET Cells(g), NEW m \in region,
         NEW i \in Reach(g, region, {m})
  PROVE  i \in region /\ Reach(g, region, {i}) = Reach(g, region, {m})
<1>1. i \in region /\ {i} \in SUBSET region /\ {m} \in SUBSET region
  BY ReachClosed
<1>5. /\ Reach(g, region, {i}) \in SUBSET region /\ Reach(g, region, {m}) \in SUBSET region
      /\ i \in Reach(g, region, {i}) /\ Closed(g, region, Reach(g, region, {i}))
      /\ Closed(g, region, Reach(g, region, {m}))
      /\ Closed(g, region, region \ Reach(g, region, {i}))
  BY <1>1, ReachClosed
<1>2. Reach(g, region, {i}) \subseteq Reach(g, region, {m})
  BY <1>5, ReachLeast
<1>3. m \in Reach(g, region, {i})
  <2> SUFFICES ASSUME m \in region \ Reach(g, region, {i}) PROVE FALSE
    OBVIOUS
  <2>1. Reach(g, region, {m}) \subseteq region \ Reach(g, region, {i})
    BY <1>5, ReachLeast
  <2> QED
    BY <1>5, <2>1
<1>4. Reach(g, region, {m}) \subseteq Reach(g, region, {i})
  BY <1>3, <1>5, ReachLeast
<1> QED
  BY <1>1, <1>2, <1>4

\* A pixel outside a part is in another, and the two have nothing in common.
LEMMA PartsApart ==
  ASSUME NEW g, GridOK(g), NEW region \in SUBSET Cells(g), NEW P \in Parts(g, region),
         NEW i \in region \ P
  PROVE  Reach(g, region, {i}) \cap P = {}
<1>1. PICK m \in region : P = Reach(g, region, {m})
  BY DEF Parts
<1>2. {m} \in SUBSET region /\ {i} \in SUBSET region
  OBVIOUS
<1>4. Closed(g, region, region \ P)
  BY <1>1, <1>2, ReachClosed
<1>3. Reach(g, region, {i}) \subseteq region \ P
  BY <1>4, ReachLeast
<1> QED
  BY <1>3

-----------------------------------------------------------------------------
(* The labels                                                              *)

\* A value before a loop and after each of its rounds.
Runs(h, N, a, G) == h[0] = a /\ \A n \in 1 .. N : h[n] = G[n][h[n - 1]]

\* There are such values when the rounds keep them of a kind.
LEMMA Loop ==
  ASSUME NEW N \in Nat, NEW S, NEW a \in S, NEW G \in [1 .. N -> [S -> S]]
  PROVE  \E h \in [0 .. N -> S] : Runs(h, N, a, G)
<1> DEFINE First(m, h) == h[0] = a /\ \A n \in 1 .. m : h[n] = G[n][h[n - 1]]
           Bad == {m \in 0 .. N : ~ \E h \in [0 .. m -> S] : First(m, h)}
<1>1. 0 \notin Bad
  <2> DEFINE h == [n \in 0 .. 0 |-> a]
  <2>1. h \in [0 .. 0 -> S] /\ First(0, h)
    OBVIOUS
  <2> QED
    BY <2>1
<1>2. ASSUME NEW m \in 1 .. N, m - 1 \notin Bad PROVE m \notin Bad
  <2>1. m - 1 \in 0 .. N /\ m \in Nat /\ m - 1 \in Nat
    OBVIOUS
  <2>2. PICK h \in [0 .. m - 1 -> S] : First(m - 1, h)
    BY <1>2, <2>1
  <2> DEFINE v == G[m][h[m - 1]]
             k == [n \in 0 .. m |-> IF n = m THEN v ELSE h[n]]
  <2>3. v \in S
    BY <2>1
  <2>4. k \in [0 .. m -> S]
    BY <2>1, <2>3
  <2>5. k[0] = a
    BY <2>1, <2>2
  <2>6. ASSUME NEW n \in 1 .. m PROVE k[n] = G[n][k[n - 1]]
    <3>1. n - 1 \in 0 .. m - 1 /\ n - 1 # m /\ k[n - 1] = h[n - 1]
      BY <2>1
    <3>2. CASE n = m
      BY <2>1, <3>1, <3>2
    <3>3. CASE n # m
      <4>1. n \in 1 .. m - 1 /\ n \in 0 .. m
        BY <2>1, <3>3
      <4> QED
        BY <2>2, <3>1, <3>3, <4>1
    <3> QED
      BY <3>2, <3>3
  <2> HIDE DEF k
  <2> QED
    BY <2>4, <2>5, <2>6
<1> HIDE DEF First
<1>3. Bad = {}
  <2> SUFFICES ASSUME Bad # {} PROVE FALSE
    OBVIOUS
  <2> DEFINE m == Min(Bad)
  <2>5. Bad \in SUBSET Nat
    OBVIOUS
  <2> HIDE DEF Bad
  <2>1. m \in Bad /\ \A y \in Bad : m <= y
    BY <2>5, LeastOf
  <2> USE DEF Bad
  <2> HIDE DEF m
  <2>6. \A y \in Bad : y \in 0 .. N /\ y # 0
    BY <1>1
  <2>2. m \in 1 .. N
    <3> HIDE DEF Bad
    <3> QED
      BY <2>1, <2>6
  <2>3. m - 1 \in Bad
    BY <1>2, <2>1, <2>2
  <2>4. m <= m - 1 /\ m \in Nat
    BY <2>1, <2>2, <2>3
  <2> QED
    BY <2>4
<1>4. N \in 0 .. N /\ N \notin Bad
  BY <1>3
<1> QED
  BY <1>4 DEF First, Runs

\* What holds before a loop and is kept by its steps holds after each of them.
LEMMA Counted ==
  ASSUME NEW N \in Nat, NEW Good \in SUBSET (0 .. N), 0 \in Good,
         \A n \in 1 .. N : n - 1 \in Good => n \in Good
  PROVE  Good = 0 .. N
<1> DEFINE Bad == (0 .. N) \ Good
<1> SUFFICES ASSUME Bad # {} PROVE FALSE
  OBVIOUS
<1> DEFINE m == Min(Bad)
<1>1. m \in Bad /\ \A y \in Bad : m <= y
  BY LeastOf
<1> HIDE DEF m
<1>2. m \in 1 .. N /\ m - 1 \in 0 .. N
  BY <1>1
<1>3. m - 1 \in Bad
  BY <1>1, <1>2
<1>4. m <= m - 1 /\ m \in Nat
  BY <1>1, <1>2, <1>3
<1> QED
  BY <1>4

\* A part is not empty and has a first pixel.
LEMMA PartHas ==
  ASSUME NEW g, GridOK(g), NEW dark \in SUBSET Cells(g), NEW P \in Parts(g, dark)
  PROVE  /\ P \in SUBSET dark /\ P \in SUBSET Nat /\ P # {}
         /\ Min(P) \in P /\ \A j \in P : Min(P) <= j
<1>1. PICK m \in dark : P = Reach(g, dark, {m})
  BY DEF Parts
<1>4. {m} \in SUBSET dark
  OBVIOUS
<1>2. P \in SUBSET dark /\ P # {}
  BY <1>1, <1>4, ReachClosed
<1>3. P \in SUBSET Nat
  BY <1>2 DEF Cells
<1> QED
  BY <1>2, <1>3, LeastOf

\* The labels given when the first n pixels were looked at: parts in the order of their
\* first pixels, which are among the n, and none of the dark ones among the n is left.
Labelled(g, dark, s, n) ==
  /\ s \in Seq(Parts(g, dark))
  /\ \A k \in DOMAIN s : Min(s[k]) < n
  /\ \A k, l \in DOMAIN s : k < l => Min(s[k]) < Min(s[l])
  /\ \A i \in dark : i < n => \E k \in DOMAIN s : i \in s[k]

\* A pixel with a label, and a new label.
LEMMA SeedLabels ==
  ASSUME NEW g, GridOK(g), NEW dark \in SUBSET Cells(g), NEW s, NEW i \in Cells(g),
         Labelled(g, dark, s, i)
  PROVE  Labelled(g, dark, Seed(g, dark, s, i), i + 1)
<1>1. i \in Nat /\ dark \in SUBSET Nat
  BY DEF Cells
<1>2. s \in Seq(Parts(g, dark)) /\ Len(s) \in Nat /\ DOMAIN s = 1 .. Len(s)
  BY DEF Labelled
<1>3. \A k \in DOMAIN s : Min(s[k]) \in Nat
  <2> TAKE k \in DOMAIN s
  <2>1. s[k] \in Parts(g, dark)
    BY <1>2
  <2> QED
    BY <2>1, PartHas
<1>4. CASE i \notin dark \/ \E k \in DOMAIN s : i \in s[k]
  <2>1. Seed(g, dark, s, i) = s
    BY <1>4 DEF Seed
  <2>2. \A j \in dark : j < i + 1 <=> j < i \/ j = i
    BY <1>1
  <2>3. \A k \in DOMAIN s : Min(s[k]) < i + 1
    BY <1>1, <1>3 DEF Labelled
  <2> QED
    BY <1>4, <2>1, <2>2, <2>3 DEF Labelled
<1>5. CASE i \in dark /\ \A k \in DOMAIN s : i \notin s[k]
  <2> DEFINE P == Reach(g, dark, {i})
             t == Append(s, P)
  <2>1. Seed(g, dark, s, i) = t
    BY <1>5, FloodIs DEF Seed
  <2>2. P \in Parts(g, dark) /\ i \in P
    <3>1. i \in dark /\ {i} \in SUBSET dark
      BY <1>5
    <3> QED
      BY <3>1, ReachClosed DEF Parts
  <2>3. Min(P) = i
    <3>1. Min(P) \in P /\ Min(P) <= i /\ Min(P) \in dark
      BY <2>2, PartHas
    <3>2. ASSUME Min(P) < i PROVE FALSE
      <4>1. PICK k \in DOMAIN s : Min(P) \in s[k]
        BY <3>1, <3>2 DEF Labelled
      <4>2. s[k] \in Parts(g, dark) /\ i \in dark \ s[k]
        BY <1>2, <1>5
      <4>3. P \cap s[k] = {}
        BY <4>2, PartsApart
      <4> QED
        BY <3>1, <4>1, <4>3
    <3>3. Min(P) \in Nat
      BY <1>1, <3>1
    <3> HIDE DEF P
    <3> QED
      BY <1>1, <3>1, <3>2, <3>3
  <2> HIDE DEF P
  <2>4. /\ t \in Seq(Parts(g, dark)) /\ DOMAIN t = 1 .. Len(s) + 1
        /\ t[Len(s) + 1] = P /\ \A k \in DOMAIN s : t[k] = s[k]
    BY <1>2, <2>2
  <2> HIDE DEF t
  <2>5. \A k \in DOMAIN t : k \in DOMAIN s \/ k = Len(s) + 1
    BY <1>2, <2>4
  <2>6. \A k \in DOMAIN t : Min(t[k]) < i + 1
    BY <1>1, <1>3, <2>3, <2>4, <2>5 DEF Labelled
  <2>7. ASSUME NEW k \in DOMAIN t, NEW l \in DOMAIN t, k < l PROVE Min(t[k]) < Min(t[l])
    <3>1. k \in DOMAIN s
      BY <1>2, <2>4, <2>7
    <3>2. CASE l \in DOMAIN s
      BY <2>4, <2>7, <3>1, <3>2 DEF Labelled
    <3>3. CASE l = Len(s) + 1
      BY <2>3, <2>4, <3>1, <3>3 DEF Labelled
    <3> QED
      BY <2>5, <3>2, <3>3
  <2>8. ASSUME NEW j \in dark, j < i + 1 PROVE \E k \in DOMAIN t : j \in t[k]
    <3>1. CASE j < i
      <4>1. PICK k \in DOMAIN s : j \in s[k]
        BY <3>1 DEF Labelled
      <4>2. k \in DOMAIN t
        BY <1>2, <2>4
      <4> QED
        BY <2>4, <4>1, <4>2
    <3>2. CASE j = i
      <4>1. Len(s) + 1 \in DOMAIN t
        BY <1>2, <2>4
      <4> QED
        BY <2>2, <2>4, <3>2, <4>1
    <3> QED
      BY <1>1, <2>8, <3>1, <3>2
  <2> QED
    BY <2>1, <2>4, <2>6, <2>7, <2>8 DEF Labelled
<1> QED
  BY <1>4, <1>5

\* labelComponents() labels every pixel of the grid.
LEMMA AllLabelled ==
  ASSUME NEW g, GridOK(g), NEW dark \in SUBSET Cells(g)
  PROVE  Labelled(g, dark, LabelComponents(g, dark), g.w * g.h)
<1> DEFINE N == g.w * g.h
           S == Seq(SUBSET Nat)
           G == [n \in 1 .. N |-> [s \in S |-> Seed(g, dark, s, n - 1)]]
           Round(f) == [n \in 0 .. N |-> IF n = 0 THEN <<>> ELSE Seed(g, dark, f[n - 1], n - 1)]
           found == CHOOSE f : f = Round(f)
<1>1. N \in Nat /\ Cells(g) = 0 .. N - 1 /\ dark \in SUBSET Nat
  BY DEF GridOK, Cells
<1> HIDE DEF N
<1>2. <<>> \in S
  OBVIOUS
<1>3. G \in [1 .. N -> [S -> S]]
  <2>1. ASSUME NEW n \in 1 .. N, NEW s \in S PROVE Seed(g, dark, s, n - 1) \in S
    <3>1. CASE n - 1 \in dark
      <4>1. {n - 1} \in SUBSET dark
        BY <3>1
      <4> DEFINE i == n - 1
      <4> HIDE DEF i
      <4>4. Reach(g, dark, {i}) \in SUBSET dark
        BY <4>1, ReachClosed DEF i
      <4>2. Flood(g, dark, {n - 1}) \in SUBSET dark
        BY <4>1, <4>4, FloodIs DEF i
      <4>3. Flood(g, dark, {n - 1}) \in SUBSET Nat
        BY <1>1, <4>2
      <4> DEFINE F == Flood(g, dark, {n - 1})
      <4> HIDE DEF F
      <4>5. Append(s, F) \in S
        BY <4>3, AppendProperties DEF F
      <4>6. Seed(g, dark, s, n - 1) \in {s, Append(s, F)}
        BY DEF Seed, F
      <4> HIDE DEF S
      <4> QED
        BY <4>5, <4>6
    <3>2. CASE n - 1 \notin dark
      BY <3>2 DEF Seed
    <3> QED
      BY <3>1, <3>2
  <2> HIDE DEF S
  <2> QED
    BY <2>1
<1>4. PICK h \in [0 .. N -> S] : h[0] = <<>> /\ \A n \in 1 .. N : h[n] = G[n][h[n - 1]]
  <2> HIDE DEF G, S
  <2>1. \E f \in [0 .. N -> S] : Runs(f, N, <<>>, G)
    BY <1>1, <1>2, <1>3, Loop
  <2> QED
    BY <2>1, Zenon DEF Runs
<1>5. h = Round(h)
  <2>1. ASSUME NEW n \in 1 .. N PROVE h[n] = Seed(g, dark, h[n - 1], n - 1)
    <3>1. n - 1 \in 0 .. N
      BY <1>1
    <3>2. h[n - 1] \in S
      BY <3>1
    <3> HIDE DEF S
    <3> QED
      BY <1>4, <3>2
  <2>2. \A n \in 0 .. N : n = 0 \/ n \in 1 .. N
    BY <1>1
  <2>3. \A n \in 0 .. N : h[n] = IF n = 0 THEN <<>> ELSE Seed(g, dark, h[n - 1], n - 1)
    BY <1>4, <2>1, <2>2
  <2> HIDE DEF S
  <2> QED
    BY <2>3
<1>6. found = Round(found)
  <2> HIDE DEF Round
  <2> QED
    BY <1>5
<1>7. LabelComponents(g, dark) = found[N]
  BY DEF LabelComponents, N
<1> HIDE DEF found
<1>8. found[0] = <<>> /\ \A n \in 1 .. N : found[n] = Seed(g, dark, found[n - 1], n - 1)
  <2>1. /\ 0 \in 0 .. N
        /\ \A n \in 1 .. N : n \in 0 .. N /\ n # 0
    BY <1>1
  <2>2. \A n \in 0 .. N : found[n] = IF n = 0 THEN <<>> ELSE Seed(g, dark, found[n - 1], n - 1)
    BY <1>6
  <2> QED
    BY <2>1, <2>2
<1> DEFINE Good == {n \in 0 .. N : Labelled(g, dark, found[n], n)}
<1>9. 0 \in Good
  <2>1. Labelled(g, dark, <<>>, 0)
    BY <1>1 DEF Labelled
  <2> QED
    BY <1>1, <1>8, <2>1
<1>10. ASSUME NEW n \in 1 .. N, n - 1 \in Good PROVE n \in Good
  <2>1. n - 1 \in Cells(g) /\ Labelled(g, dark, found[n - 1], n - 1) /\ n - 1 + 1 = n
    BY <1>1, <1>10
  <2>2. Labelled(g, dark, Seed(g, dark, found[n - 1], n - 1), n - 1 + 1)
    BY <2>1, SeedLabels
  <2>3. Labelled(g, dark, found[n], n)
    BY <1>8, <2>1, <2>2
  <2> QED
    BY <2>3
<1>11. Good = 0 .. N
  <2>1. Good \in SUBSET (0 .. N)
    OBVIOUS
  <2> HIDE DEF Good
  <2> QED
    BY <1>1, <1>9, <1>10, <2>1, Counted
<1>12. N \in Good
  BY <1>1, <1>11
<1> QED
  BY <1>7, <1>12 DEF N

\* labelComponents() gives one label to each connected part of what is dark, and to
\* nothing else, in the order of the parts' first pixels, for every grid and every
\* set of dark pixels.
THEOREM ComponentsLabelled ==
  ASSUME NEW g, GridOK(g), NEW dark \in SUBSET Cells(g)
  PROVE  LET found == LabelComponents(g, dark)
         IN  /\ found \in Seq(SUBSET dark) /\ ToSet(found) = Parts(g, dark)
             /\ \A k, l \in DOMAIN found : /\ k < l => Min(found[k]) < Min(found[l])
                                           /\ k # l => found[k] \cap found[l] = {}
<1> DEFINE found == LabelComponents(g, dark)
<1>1. Labelled(g, dark, found, g.w * g.h)
  BY AllLabelled
<1> HIDE DEF found
<1>2. found \in Seq(Parts(g, dark)) /\ Len(found) \in Nat /\ DOMAIN found = 1 .. Len(found)
  BY <1>1 DEF Labelled
<1>3. Parts(g, dark) \subseteq SUBSET dark
  BY PartHas
<1>4. found \in Seq(SUBSET dark)
  BY <1>2, <1>3, SeqMonotonic
<1>5. \A k, l \in DOMAIN found : k < l => Min(found[k]) < Min(found[l])
  BY <1>1 DEF Labelled
<1>6. \A k \in DOMAIN found : found[k] \in Parts(g, dark)
  BY <1>2
<1>7. ASSUME NEW i \in dark PROVE \E k \in DOMAIN found : found[k] = Reach(g, dark, {i})
  <2>1. i < g.w * g.h
    BY DEF Cells, GridOK
  <2>2. PICK k \in DOMAIN found : i \in found[k]
    BY <1>1, <2>1 DEF Labelled
  <2>3. PICK m \in dark : found[k] = Reach(g, dark, {m})
    BY <1>6 DEF Parts
  <2> QED
    BY <2>2, <2>3, PartFrom
<1>8. ToSet(found) = Parts(g, dark)
  BY <1>6, <1>7 DEF ToSet, Parts
<1>9. ASSUME NEW k \in DOMAIN found, NEW l \in DOMAIN found, k # l
      PROVE  found[k] \cap found[l] = {}
  <2>1. found[k] # found[l]
    <3>1. k < l \/ l < k
      BY <1>2, <1>9
    <3>2. Min(found[k]) \in Nat /\ Min(found[l]) \in Nat
      BY <1>6, PartHas
    <3> QED
      BY <1>5, <3>1, <3>2
  <2>2. PICK m \in dark : found[k] = Reach(g, dark, {m})
    BY <1>6 DEF Parts
  <2>3. PICK n \in dark : found[l] = Reach(g, dark, {n})
    BY <1>6 DEF Parts
  <2> SUFFICES ASSUME NEW i \in found[k], i \in found[l] PROVE FALSE
    OBVIOUS
  <2>4. Reach(g, dark, {i}) = found[k] /\ Reach(g, dark, {i}) = found[l]
    BY <2>2, <2>3, PartFrom
  <2> QED
    BY <2>1, <2>4
<1> QED
  BY <1>4, <1>5, <1>8, <1>9 DEF found

\* The greatest of some numbers that have a bound.
LEMMA GreatestOf ==
  ASSUME NEW n \in Nat, NEW S \in SUBSET (0 .. n), S # {}
  PROVE  Max(S) \in S /\ \A y \in S : y <= Max(S)
<1> DEFINE T == {n - x : x \in S}
<1>1. T \in SUBSET Nat /\ T # {}
  <2>1. \A x \in S : n - x \in Nat
    OBVIOUS
  <2> QED
    BY <2>1
<1>2. Min(T) \in T /\ \A t \in T : Min(T) <= t
  BY <1>1, LeastOf
<1>3. PICK x \in S : Min(T) = n - x
  BY <1>2
<1>4. \A y \in S : y <= x
  <2> TAKE y \in S
  <2>1. n - y \in T
    OBVIOUS
  <2>2. n - x <= n - y
    BY <1>2, <1>3, <2>1
  <2> QED
    BY <2>2
<1>5. \A y \in S : x >= y
  BY <1>4
<1>6. Max(S) \in S /\ \A y \in S : Max(S) >= y
  BY <1>3, <1>5, Zenon DEF Max
<1> QED
  BY <1>6

-----------------------------------------------------------------------------
(* Extents                                                                 *)

\* Of numbers within bounds there is a least and a greatest.
LEMMA BoundsOf ==
  ASSUME NEW n \in Nat, NEW S \in SUBSET (-n .. n), S # {}
  PROVE  /\ Min(S) \in S /\ \A y \in S : Min(S) <= y
         /\ Max(S) \in S /\ \A y \in S : y <= Max(S)
<1> DEFINE T == {x + n : x \in S}
<1>1. T \in SUBSET (0 .. 2 * n) /\ T \in SUBSET Nat /\ T # {}
  <2>1. \A x \in S : x + n \in 0 .. 2 * n /\ x + n \in Nat
    OBVIOUS
  <2> QED
    BY <2>1
<1>2. 2 * n \in Nat
  OBVIOUS
<1> HIDE DEF T
<1>3. /\ Min(T) \in T /\ \A y \in T : Min(T) <= y
      /\ Max(T) \in T /\ \A y \in T : y <= Max(T)
  BY <1>1, <1>2, LeastOf, GreatestOf
<1> USE DEF T
<1>4. PICK a \in S : Min(T) = a + n
  BY <1>3
<1>5. PICK b \in S : Max(T) = b + n
  BY <1>3
<1>6. ASSUME NEW y \in S PROVE a <= y /\ b >= y
  <2>1. y + n \in T
    OBVIOUS
  <2>2. a + n <= y + n /\ y + n <= b + n
    BY <1>3, <1>4, <1>5, <2>1
  <2> QED
    BY <2>2
<1>7. Min(S) \in S /\ \A y \in S : Min(S) <= y
  BY <1>6, Zenon DEF Min
<1>8. Max(S) \in S /\ \A y \in S : Max(S) >= y
  BY <1>6, Zenon DEF Max
<1> QED
  BY <1>7, <1>8

\* A direction of the sweep, or one across it.
Directed(n) == n[1] \in -5 .. 5 /\ n[2] \in -5 .. 5

\* The sweep.
LEMMA SweepIs ==
  /\ DOMAIN Sweep = 1 .. 6 /\ Len(Sweep) = 6
  /\ \A k \in 1 .. 6 : Directed(Sweep[k]) /\ Directed(<<Sweep[k][2], - Sweep[k][1]>>)
<1>1. /\ DOMAIN Sweep = 1 .. 6 /\ Len(Sweep) = 6
      /\ Sweep[1] = <<0, 5>> /\ Sweep[2] = <<-3, 4>> /\ Sweep[3] = <<-4, 3>>
      /\ Sweep[4] = <<-5, 0>> /\ Sweep[5] = <<-4, -3>> /\ Sweep[6] = <<-3, -4>>
  BY DEF Sweep
<1>2. \A k \in 1 .. 6 : k = 1 \/ k = 2 \/ k = 3 \/ k = 4 \/ k = 5 \/ k = 6
  OBVIOUS
<1>3. ASSUME NEW a \in -5 .. 5, NEW b \in -5 .. 5, NEW n, n = <<a, b>>
      PROVE  Directed(n) /\ Directed(<<n[2], - n[1]>>)
  BY <1>3 DEF Directed
<1>5. /\ 0 \in -5 .. 5 /\ 5 \in -5 .. 5 /\ -3 \in -5 .. 5 /\ 4 \in -5 .. 5
      /\ -4 \in -5 .. 5 /\ 3 \in -5 .. 5 /\ -5 \in -5 .. 5
  OBVIOUS
<1>4. /\ Directed(Sweep[1]) /\ Directed(<<Sweep[1][2], - Sweep[1][1]>>)
      /\ Directed(Sweep[2]) /\ Directed(<<Sweep[2][2], - Sweep[2][1]>>)
      /\ Directed(Sweep[3]) /\ Directed(<<Sweep[3][2], - Sweep[3][1]>>)
      /\ Directed(Sweep[4]) /\ Directed(<<Sweep[4][2], - Sweep[4][1]>>)
      /\ Directed(Sweep[5]) /\ Directed(<<Sweep[5][2], - Sweep[5][1]>>)
      /\ Directed(Sweep[6]) /\ Directed(<<Sweep[6][2], - Sweep[6][1]>>)
  <2>1. Directed(Sweep[1]) /\ Directed(<<Sweep[1][2], - Sweep[1][1]>>)
    BY <1>1, <1>3, <1>5
  <2>2. Directed(Sweep[2]) /\ Directed(<<Sweep[2][2], - Sweep[2][1]>>)
    BY <1>1, <1>3, <1>5
  <2>3. Directed(Sweep[3]) /\ Directed(<<Sweep[3][2], - Sweep[3][1]>>)
    BY <1>1, <1>3, <1>5
  <2>4. Directed(Sweep[4]) /\ Directed(<<Sweep[4][2], - Sweep[4][1]>>)
    BY <1>1, <1>3, <1>5
  <2>5. Directed(Sweep[5]) /\ Directed(<<Sweep[5][2], - Sweep[5][1]>>)
    BY <1>1, <1>3, <1>5
  <2>6. Directed(Sweep[6]) /\ Directed(<<Sweep[6][2], - Sweep[6][1]>>)
    BY <1>1, <1>3, <1>5
  <2> QED
    BY <2>1, <2>2, <2>3, <2>4, <2>5, <2>6
<1> QED
  BY <1>1, <1>2, <1>4

\* A coordinate times a part of a direction.
LEMMA Scaled ==
  ASSUME NEW w \in Nat, NEW x \in 0 .. w - 1, NEW n \in -5 .. 5
  PROVE  x * n \in -(5 * w) .. 5 * w
<1>1. n = -5 \/ n = -4 \/ n = -3 \/ n = -2 \/ n = -1 \/ n = 0 \/ n = 1 \/ n = 2 \/ n = 3 \/ n = 4 \/ n = 5
  OBVIOUS
<1> QED
  BY <1>1

\* How wide a blob is in a direction is a number.
LEMMA ExtentType ==
  ASSUME NEW g, GridOK(g), NEW px \in SUBSET Cells(g), px # {}, NEW n, Directed(n)
  PROVE  Extent(g, px, n) \in Int
<1> DEFINE along == {At(g, i).x * n[1] + At(g, i).y * n[2] : i \in px}
           b == 5 * g.w + 5 * g.h
<1>1. b \in Nat /\ g.w \in Nat /\ g.h \in Nat
  BY DEF GridOK
<1>2. ASSUME NEW i \in px PROVE At(g, i).x * n[1] + At(g, i).y * n[2] \in -b .. b
  <2>1. At(g, i).x \in 0 .. g.w - 1 /\ At(g, i).y \in 0 .. g.h - 1
    BY AtIs DEF Cell
  <2>2. /\ At(g, i).x * n[1] \in -(5 * g.w) .. 5 * g.w
        /\ At(g, i).y * n[2] \in -(5 * g.h) .. 5 * g.h
    BY <1>1, <2>1, Scaled DEF Directed
  <2> QED
    BY <1>1, <2>2
<1>3. along \in SUBSET (-b .. b) /\ along # {}
  BY <1>2
<1>4. Extent(g, px, n) = Max(along) - Min(along) + 5
  BY DEF Extent
<1> HIDE DEF along, b
<1>6. Max(along) \in along /\ Min(along) \in along
  BY <1>1, <1>3, BoundsOf
<1>5. Max(along) \in Int /\ Min(along) \in Int
  <2>1. \A x \in along : x \in -b .. b
    BY <1>3
  <2>2. \A x \in -b .. b : x \in Int
    BY <1>1
  <2> QED
    BY <1>6, <2>1, <2>2
<1> QED
  BY <1>4, <1>5

\* The loop over the sweep ends with one of its directions.
LEMMA SupportsIs ==
  ASSUME NEW g, NEW px
  PROVE  \E k \in 1 .. 6 : LET n == Sweep[k]
                               r == SupportExtents(g, px)
                           IN  /\ r.widthPx = Extent(g, px, n)
                               /\ r.lengthPx = Extent(g, px, <<n[2], - n[1]>>)
<1> DEFINE S == {Sweep[k] : k \in 1 .. 6}
           Keep(k, s) == k > 1 /\ Extent(g, px, Sweep[k]) >= Extent(g, px, s)
           G == [k \in 1 .. 6 |-> [s \in S |-> IF Keep(k, s) THEN s ELSE Sweep[k]]]
           Round(f) == [k \in DOMAIN Sweep |->
                          IF k > 1 /\ Extent(g, px, Sweep[k]) >= Extent(g, px, f[k - 1])
                          THEN f[k - 1] ELSE Sweep[k]]
           best == CHOOSE f : f = Round(f)
<1>1. DOMAIN Sweep = 1 .. 6 /\ Len(Sweep) = 6 /\ \A k \in 1 .. 6 : Sweep[k] \in S
  BY SweepIs
<1>2. G \in [1 .. 6 -> [S -> S]]
  <2> HIDE DEF S, Keep
  <2> QED
    BY <1>1
<1>3. PICK h \in [0 .. 6 -> S] : \A k \in 1 .. 6 : h[k] = G[k][h[k - 1]]
  <2> HIDE DEF G, S
  <2>1. Sweep[1] \in S /\ 6 \in Nat
    BY <1>1
  <2>2. \E f \in [0 .. 6 -> S] : Runs(f, 6, Sweep[1], G)
    BY <1>2, <2>1, Loop
  <2> QED
    BY <2>2 DEF Runs
<1> DEFINE f0 == [k \in 1 .. 6 |-> h[k]]
<1>4. f0 = Round(f0)
  <2>1. ASSUME NEW k \in 1 .. 6
        PROVE  f0[k] = IF k > 1 /\ Extent(g, px, Sweep[k]) >= Extent(g, px, f0[k - 1])
                       THEN f0[k - 1] ELSE Sweep[k]
    <3>1. k - 1 \in 0 .. 6 /\ h[k - 1] \in S
      BY <2>1
    <3>2. h[k] = IF Keep(k, h[k - 1]) THEN h[k - 1] ELSE Sweep[k]
      <4> HIDE DEF Keep, S
      <4> QED
        BY <1>3, <3>1
    <3>3. k > 1 => f0[k - 1] = h[k - 1]
      BY <2>1
    <3> QED
      BY <3>2, <3>3
  <2> HIDE DEF f0
  <2>2. f0 = [k \in 1 .. 6 |-> f0[k]]
    BY DEF f0
  <2> QED
    BY <1>1, <2>1, <2>2
<1>5. best = Round(best)
  <2> HIDE DEF Round, f0
  <2> QED
    BY <1>4
<1>6. /\ SupportExtents(g, px).widthPx = Extent(g, px, best[6])
      /\ SupportExtents(g, px).lengthPx = Extent(g, px, <<best[6][2], - best[6][1]>>)
  BY <1>1 DEF SupportExtents
<1> HIDE DEF best
<1>7. \A k \in 1 .. 6 : best[k] = Sweep[k] \/ (k > 1 /\ best[k] = best[k - 1])
  BY <1>1, <1>5
<1> DEFINE Good == {k \in 0 .. 6 : k = 0 \/ best[k] \in S}
<1>8. Good = 0 .. 6
  <2>1. 0 \in Good /\ Good \in SUBSET (0 .. 6) /\ 6 \in Nat
    OBVIOUS
  <2>2. ASSUME NEW k \in 1 .. 6, k - 1 \in Good PROVE k \in Good
    <3>1. k \in 0 .. 6 /\ (k > 1 => k - 1 # 0)
      OBVIOUS
    <3> HIDE DEF S
    <3> QED
      BY <1>1, <1>7, <2>2, <3>1
  <2> HIDE DEF Good
  <2> QED
    BY <2>1, <2>2, Counted
<1>9. best[6] \in S
  <2>1. 6 \in 0 .. 6 /\ 6 # 0
    OBVIOUS
  <2> QED
    BY <1>8, <2>1
<1> QED
  BY <1>6, <1>9

-----------------------------------------------------------------------------
(* The scale                                                               *)

\* The root of an area of a pixel or more is a positive number.
LEMMA RootIs == ASSUME NEW a \in Nat \ {0} PROVE Root(a) \in Nat \ {0}
<1> DEFINE U == {n \in Nat : n * n > 10000 * a}
           m == Min(U)
<1>1. 100 * a + 1 \in U
  <2>1. (100 * a + 1) * (100 * a + 1) > 10000 * a
    OBVIOUS
  <2> QED
    BY <2>1
<1>11. U \in SUBSET Nat
  OBVIOUS
<1>2. m \in U /\ \A y \in U : m <= y
  <2> HIDE DEF U
  <2> QED
    BY <1>1, <1>11, LeastOf
<1> HIDE DEF m
<1>3. m \in Nat /\ m * m > 10000 * a /\ m <= 100 * a + 1
  BY <1>1, <1>2
<1>4. m # 0
  BY <1>3
<1>5. m - 1 \in 0 .. 100 * a /\ m - 1 \in Nat /\ m - 1 + 1 = m
  BY <1>3, <1>4
<1>6. m - 1 \notin U
  <2> HIDE DEF U
  <2> QED
    BY <1>2, <1>3, <1>5
<1>7. (m - 1) * (m - 1) <= 10000 * a /\ (m - 1 + 1) * (m - 1 + 1) > 10000 * a
  <2>1. (m - 1) * (m - 1) \in Int
    BY <1>5
  <2> QED
    BY <1>3, <1>5, <1>6, <2>1
<1>8. /\ Root(a) \in 0 .. 100 * a
      /\ (Root(a) + 1) * (Root(a) + 1) > 10000 * a
  BY <1>5, <1>7 DEF Root
<1> DEFINE r == Root(a)
<1> HIDE DEF r
<1>9. r \in Nat /\ (r + 1) * (r + 1) > 10000 * a
  BY <1>8 DEF r
<1>10. r # 0
  <2> SUFFICES ASSUME r = 0 PROVE FALSE
    OBVIOUS
  <2>1. (r + 1) * (r + 1) = 1
    OBVIOUS
  <2> QED
    BY <1>9, <2>1
<1> QED
  BY <1>9, <1>10 DEF r

\* What is measured of a blob and the reference is a number.
LEMMA MeasureType ==
  ASSUME NEW g, GridOK(g), NEW threshold, NEW reference, NEW subject, NEW side \in Int,
         reference.areaPx \in Nat \ {0}, subject.px \in SUBSET Cells(g), subject.px # {}
  PROVE  LET a == Measure(g, threshold, reference, subject, side)
         IN  a.lengthMm \in Int /\ a.widthMm \in Int
<1> DEFINE r == SupportExtents(g, subject.px)
           q == Root(reference.areaPx)
           scale == (side * 100) \div q
<1>1. r.widthPx \in Int /\ r.lengthPx \in Int
  <2>1. PICK k \in 1 .. 6 : /\ r.widthPx = Extent(g, subject.px, Sweep[k])
                            /\ r.lengthPx = Extent(g, subject.px, <<Sweep[k][2], - Sweep[k][1]>>)
    BY SupportsIs
  <2>2. Directed(Sweep[k]) /\ Directed(<<Sweep[k][2], - Sweep[k][1]>>)
    BY SweepIs
  <2> HIDE DEF r
  <2> QED
    BY <2>1, <2>2, ExtentType
<1>2. q \in Nat \ {0}
  BY RootIs
<1> HIDE DEF q
<1>3. scale \in Int
  <2>1. side * 100 \in Int
    OBVIOUS
  <2> QED
    BY <1>2, <2>1
<1>4. /\ Measure(g, threshold, reference, subject, side).lengthMm = (r.lengthPx * scale) \div 5
      /\ Measure(g, threshold, reference, subject, side).widthMm = (r.widthPx * scale) \div 5
  BY DEF Measure, q
<1> HIDE DEF r, scale
<1>5. r.lengthPx * scale \in Int /\ r.widthPx * scale \in Int
  BY <1>1, <1>3
<1>6. (r.lengthPx * scale) \div 5 \in Int /\ (r.widthPx * scale) \div 5 \in Int
  BY <1>5
<1> QED
  BY <1>4, <1>6

-----------------------------------------------------------------------------
(* Blobs                                                                   *)

\* A blob is a connected part of what is dark, with what is counted of it.
BlobOf(g, dark, b) ==
  /\ b.px \in Parts(g, dark) /\ b.areaPx = Cardinality(b.px) /\ b.label \in Nat
  /\ b.touchesBorder <=> b.px \cap Edge(g) # {}
  /\ IsSquareCandidate(b) <=> IsSquareCandidate(BlobStats(g, b.px, 0, 0))

\* There is one blob for each part.
LEMMA BlobsAre ==
  ASSUME NEW g, GridOK(g), NEW dark \in SUBSET Cells(g)
  PROVE  /\ \A b \in FindBlobs(g, dark) : BlobOf(g, dark, b)
         /\ \A b, c \in FindBlobs(g, dark) : b.px = c.px \/ b.label = c.label => b = c
         /\ \A P \in Parts(g, dark) : \E b \in FindBlobs(g, dark) : b.px = P
<1> DEFINE found == LabelComponents(g, dark)
           holes(k) == HolesOf(CountHoles(g, dark), found[k])
           blob(k) == BlobStats(g, found[k], k - 1, holes(k))
<1>1. /\ found \in Seq(SUBSET dark) /\ ToSet(found) = Parts(g, dark)
      /\ \A k, l \in DOMAIN found : k # l => found[k] \cap found[l] = {}
  <2>1. /\ found \in Seq(SUBSET dark) /\ ToSet(found) = Parts(g, dark)
        /\ \A k, l \in DOMAIN found : /\ k < l => Min(found[k]) < Min(found[l])
                                      /\ k # l => found[k] \cap found[l] = {}
    BY ComponentsLabelled
  <2> HIDE DEF found
  <2>2. ASSUME NEW k \in DOMAIN found, NEW l \in DOMAIN found, k # l
        PROVE  found[k] \cap found[l] = {}
    BY <2>1, <2>2
  <2> QED
    BY <2>1, <2>2
<1>2. FindBlobs(g, dark) = {blob(k) : k \in DOMAIN found}
  BY DEF FindBlobs
<1>3. Len(found) \in Nat /\ DOMAIN found = 1 .. Len(found)
  BY <1>1
<1> HIDE DEF found
<1>4. Parts(g, dark) = {found[k] : k \in DOMAIN found}
  BY <1>1 DEF ToSet
<1>5. ASSUME NEW k \in DOMAIN found
      PROVE  /\ BlobOf(g, dark, blob(k)) /\ blob(k).px = found[k] /\ blob(k).label = k - 1
             /\ k - 1 \in Nat
  <2>1. k - 1 \in Nat
    BY <1>3
  <2>2. found[k] \in Parts(g, dark)
    BY <1>4
  <2>3. /\ blob(k).px = found[k] /\ blob(k).label = k - 1
        /\ blob(k).areaPx = Cardinality(found[k])
        /\ blob(k).touchesBorder = (found[k] \cap Edge(g) # {})
    BY DEF BlobStats
  <2>4. IsSquareCandidate(blob(k)) <=> IsSquareCandidate(BlobStats(g, found[k], 0, 0))
    <3>1. ASSUME NEW px, NEW l, NEW n
          PROVE  /\ BlobStats(g, px, l, n).boxW = BlobStats(g, px, 0, 0).boxW
                 /\ BlobStats(g, px, l, n).boxH = BlobStats(g, px, 0, 0).boxH
                 /\ BlobStats(g, px, l, n).areaPx = BlobStats(g, px, 0, 0).areaPx
      BY DEF BlobStats
    <3> QED
      BY <3>1 DEF IsSquareCandidate
  <2> HIDE DEF blob
  <2> QED
    BY <2>1, <2>2, <2>3, <2>4 DEF BlobOf
<1> HIDE DEF blob
<1>6. \A b \in FindBlobs(g, dark) : BlobOf(g, dark, b)
  BY <1>2, <1>5
<1>7. ASSUME NEW k \in DOMAIN found, NEW l \in DOMAIN found,
             blob(k).px = blob(l).px \/ blob(k).label = blob(l).label
      PROVE  k = l
  <2>1. CASE blob(k).label = blob(l).label
    BY <1>3, <1>5, <2>1
  <2>2. CASE blob(k).px = blob(l).px
    <3>1. found[k] = found[l] /\ found[k] # {}
      BY <1>4, <1>5, <2>2, PartHas
    <3> QED
      BY <1>1, <3>1
  <2> QED
    BY <1>7, <2>1, <2>2
<1>8. \A b, c \in FindBlobs(g, dark) : b.px = c.px \/ b.label = c.label => b = c
  BY <1>2, <1>7
<1>9. \A P \in Parts(g, dark) : \E b \in FindBlobs(g, dark) : b.px = P
  BY <1>2, <1>4, <1>5
<1> QED
  BY <1>6, <1>8, <1>9

\* What is kept is what is large enough and off the edge.
KeptBlobs(g, dark) == {b \in FindBlobs(g, dark) : Measurable(b)}
WholeParts(g, dark) == {P \in Parts(g, dark) : Cardinality(P) >= MinBlobArea /\ P \cap Edge(g) = {}}

\* A measurable blob for each such part.
LEMMA KeptAre ==
  ASSUME NEW g, GridOK(g), NEW dark \in SUBSET Cells(g)
  PROVE  /\ \A b \in KeptBlobs(g, dark) : BlobOf(g, dark, b) /\ b.px \in WholeParts(g, dark)
         /\ \A b, c \in KeptBlobs(g, dark) : b.px = c.px \/ b.label = c.label => b = c
         /\ \A P \in WholeParts(g, dark) : \E b \in KeptBlobs(g, dark) : b.px = P
<1>1. /\ \A b \in FindBlobs(g, dark) : BlobOf(g, dark, b)
      /\ \A b, c \in FindBlobs(g, dark) : b.px = c.px \/ b.label = c.label => b = c
      /\ \A P \in Parts(g, dark) : \E b \in FindBlobs(g, dark) : b.px = P
  BY BlobsAre
<1>2. \A b \in FindBlobs(g, dark) : Measurable(b) <=> b.px \in WholeParts(g, dark)
  BY <1>1 DEF BlobOf, Measurable, WholeParts
<1> QED
  BY <1>1, <1>2 DEF KeptBlobs, WholeParts

\* Blobs that can be compared.
Comparable(B) == /\ \E n \in Nat : \A b \in B : b.areaPx \in 1 .. n
                 /\ \A b \in B : b.label \in Nat

\* One of them is the largest.
LEMMA LargestIs ==
  ASSUME NEW B, Comparable(B), B # {}
  PROVE  Largest(B) \in B /\ \A c \in B : c.areaPx <= Largest(B).areaPx
<1>1. PICK n \in Nat : \A b \in B : b.areaPx \in 1 .. n
  BY DEF Comparable
<1> DEFINE A == {b.areaPx : b \in B}
           m == Max(A)
           L == {b.label : b \in {c \in B : c.areaPx = m}}
           l == Min(L)
<1>2. A \in SUBSET (0 .. n) /\ A # {}
  BY <1>1
<1>3. m \in A /\ \A y \in A : y <= m
  <2> HIDE DEF A
  <2> QED
    BY <1>2, GreatestOf
<1> HIDE DEF m
<1>4. L \in SUBSET Nat /\ L # {}
  BY <1>3 DEF Comparable
<1>5. l \in L /\ \A y \in L : l <= y
  <2> HIDE DEF L
  <2> QED
    BY <1>4, LeastOf
<1> HIDE DEF l
<1>6. PICK b \in B : b.areaPx = m /\ b.label = l
  BY <1>5
<1>7. \A c \in B : b.areaPx > c.areaPx \/ (b.areaPx = c.areaPx /\ b.label <= c.label)
  <2> TAKE c \in B
  <2>1. c.areaPx <= m /\ c.areaPx \in Nat /\ m \in Nat
    BY <1>1, <1>2, <1>3
  <2>2. c.areaPx = m => l <= c.label
    BY <1>5
  <2> QED
    BY <1>6, <2>1, <2>2
<1> DEFINE First(x) == \A c \in B : \/ x.areaPx > c.areaPx
                                    \/ x.areaPx = c.areaPx /\ x.label <= c.label
<1>8. Largest(B) = CHOOSE x \in B : First(x)
  BY DEF Largest
<1>9. Largest(B) \in B /\ First(Largest(B))
  <2>1. First(b)
    BY <1>7
  <2> HIDE DEF First
  <2> QED
    BY <1>8, <2>1
<1> HIDE DEF First
<1>10. \A c \in B : c.areaPx <= Largest(B).areaPx
  <2> TAKE c \in B
  <2>1. \/ Largest(B).areaPx > c.areaPx
        \/ Largest(B).areaPx = c.areaPx /\ Largest(B).label <= c.label
    BY <1>9 DEF First
  <2>2. c.areaPx \in Nat /\ Largest(B).areaPx \in Nat
    BY <1>1, <1>9
  <2> QED
    BY <2>1, <2>2
<1> QED
  BY <1>9, <1>10

-----------------------------------------------------------------------------
(* The reference and the subject                                           *)

\* Among blobs, r is the only square, any other being less than half its size, and s
\* the largest of the rest, and not too small to be a part.
Chosen(B, r, s, side) ==
  /\ r \in B /\ s \in B /\ r # s /\ IsSquareCandidate(r)
  /\ \A o \in B \ {r} : /\ IsSquareCandidate(o) => 2 * o.areaPx < r.areaPx
                        /\ o.areaPx <= s.areaPx
  /\ s.areaPx * side * side >= MinSubject * r.areaPx

\* A quotient is below a bound when the dividend is below the product.
LEMMA QuotientBelow ==
  ASSUME NEW x \in Nat, NEW c \in Nat \ {0}, NEW m \in Nat
  PROVE  x \div c < m <=> x < m * c
<1> DEFINE q == x \div c
<1>1. q \in Nat /\ q * c <= x /\ x < q * c + c
  OBVIOUS
<1> HIDE DEF q
<1>2. ASSUME q < m PROVE x < m * c
  <2>1. q + 1 <= m
    BY <1>1, <1>2
  <2>2. (q + 1) * c <= m * c
    BY <1>1, <2>1
  <2>3. (q + 1) * c = q * c + c /\ q * c \in Nat /\ m * c \in Nat
    BY <1>1
  <2> QED
    BY <1>1, <2>2, <2>3
<1>3. ASSUME ~(q < m) PROVE ~(x < m * c)
  <2>1. m <= q
    BY <1>1, <1>3
  <2>2. m * c <= q * c /\ q * c \in Nat /\ m * c \in Nat
    BY <1>1, <2>1
  <2> QED
    BY <1>1, <2>2
<1> QED
  BY <1>2, <1>3 DEF q

\* The subject of such a pair is not too small, and that of no other reference.
LEMMA SmallIs ==
  ASSUME NEW s, s.areaPx \in Nat, NEW r, r.areaPx \in Nat \ {0}, NEW side \in Nat \ {0}
  PROVE  /\ s.areaPx * side * side \in Nat
         /\ (s.areaPx * side * side) \div r.areaPx < MinSubject
              <=> ~(s.areaPx * side * side >= MinSubject * r.areaPx)
<1> DEFINE x == s.areaPx * side * side
           y == MinSubject * r.areaPx
<1>1. MinSubject \in Nat
  BY AnalyzerAssumption
<1>2. x \in Nat /\ y \in Nat
  BY <1>1
<1> HIDE DEF x
<1>3. x \div r.areaPx < MinSubject <=> x < y
  BY <1>1, <1>2, QuotientBelow
<1> HIDE DEF y
<1>4. x < y <=> ~(x >= y)
  BY <1>2
<1> QED
  BY <1>2, <1>3, <1>4 DEF x, y

\* The reference of such a pair is the largest square.
LEMMA ReferenceIs ==
  ASSUME NEW B, Comparable(B), NEW r, NEW s, NEW side, Chosen(B, r, s, side),
         NEW Q, Q = {b \in B : IsSquareCandidate(b)}
  PROVE  Q # {} /\ r = Largest(Q) /\ ~ Ambiguous(Q, r)
<1>1. r \in Q /\ Comparable(Q)
  BY DEF Chosen, Comparable
<1>2. \A b \in B : b.areaPx \in Nat \ {0}
  BY DEF Comparable
<1>3. Largest(Q) \in Q /\ r.areaPx <= Largest(Q).areaPx
  BY <1>1, LargestIs
<1>4. ASSUME NEW o \in Q, o # r PROVE 2 * o.areaPx < r.areaPx
  BY <1>4 DEF Chosen
<1>5. r = Largest(Q)
  <2> SUFFICES ASSUME Largest(Q) # r PROVE FALSE
    OBVIOUS
  <2>1. 2 * Largest(Q).areaPx < r.areaPx
    BY <1>3, <1>4
  <2>2. Largest(Q).areaPx \in Nat /\ r.areaPx \in Nat
    BY <1>1, <1>2, <1>3
  <2> QED
    BY <1>3, <2>1, <2>2
<1>6. ~ Ambiguous(Q, r)
  <2> SUFFICES ASSUME NEW b \in Q \ {r}, 2 * b.areaPx >= r.areaPx PROVE FALSE
    BY DEF Ambiguous
  <2>1. 2 * b.areaPx < r.areaPx /\ b.areaPx \in Nat /\ r.areaPx \in Nat
    BY <1>1, <1>2, <1>4
  <2> QED
    BY <2>1
<1> QED
  BY <1>1, <1>5, <1>6

\* Whatever is located is such a pair, and when nothing is there is none.
LEMMA LocateIs ==
  ASSUME NEW g, NEW t, NEW B, Comparable(B), NEW side \in Nat \ {0},
         NEW o, o = Locate(g, t, B, side)
  PROVE  /\ o.analysis = {} => \A r, s : ~ Chosen(B, r, s, side)
         /\ \A a \in o.analysis : /\ Chosen(B, a.reference, a.subject, side)
                                  /\ a = Measure(g, t, a.reference, a.subject, side)
<1> DEFINE Q == {b \in B : IsSquareCandidate(b)}
           r == Largest(Q)
           R == B \ {r}
           s == Largest(R)
           a == Measure(g, t, r, s, side)
<1>1. \A b \in B : b.areaPx \in Nat \ {0}
  BY DEF Comparable
<1>2. Comparable(Q) /\ Comparable(R)
  BY DEF Comparable
<1>3. \/ Q = {} /\ o.analysis = {}
      \/ Q # {} /\ Ambiguous(Q, r) /\ o.analysis = {}
      \/ Q # {} /\ R = {} /\ o.analysis = {}
      \/ Q # {} /\ R # {} /\ TooSmall(R, r, side) /\ o.analysis = {}
      \/ Q # {} /\ ~ Ambiguous(Q, r) /\ R # {} /\ ~ TooSmall(R, r, side) /\ o.analysis = {a}
  <2> DEFINE m == [error |-> "None", analysis |-> {a}]
  <2>1. o = IF Q = {} THEN Error("NoReferenceTarget")
            ELSE IF Ambiguous(Q, r) THEN Error("ReferenceAmbiguous")
            ELSE IF R = {} \/ TooSmall(R, r, side) THEN Error("NoSubject")
            ELSE m
    BY DEF Locate
  <2>2. /\ Error("NoReferenceTarget").analysis = {} /\ Error("ReferenceAmbiguous").analysis = {}
        /\ Error("NoSubject").analysis = {} /\ m.analysis = {a}
    BY DEF Error
  <2> HIDE DEF Q, r, R, a, m
  <2>3. Q = {} /\ Ambiguous(Q, r) => FALSE
    BY DEF Ambiguous
  <2> QED
    BY <2>1, <2>2, <2>3
<1>4. ASSUME Q # {} PROVE r \in Q /\ r \in B /\ \A c \in Q : c.areaPx <= r.areaPx
  BY <1>2, <1>4, LargestIs
<1>5. ASSUME R # {} PROVE s \in R /\ \A c \in R : c.areaPx <= s.areaPx
  <2> HIDE DEF R
  <2> QED
    BY <1>2, <1>5, LargestIs
<1>6. TooSmall(R, r, side) <=> (s.areaPx * side * side) \div r.areaPx < MinSubject
  BY DEF TooSmall
<1>7. ASSUME NEW x, NEW y, Chosen(B, x, y, side)
      PROVE  Q # {} /\ x = r /\ ~ Ambiguous(Q, r) /\ R # {} /\ ~ TooSmall(R, r, side)
  <2>1. Q # {} /\ x = r /\ ~ Ambiguous(Q, r)
    BY <1>7, ReferenceIs
  <2>2. x \in B /\ y \in R /\ y.areaPx * side * side >= MinSubject * x.areaPx
        /\ \A c \in R : c.areaPx <= y.areaPx
    BY <1>7, <2>1 DEF Chosen
  <2>3. s \in R /\ s.areaPx = y.areaPx
    <3>1. s \in R /\ y.areaPx <= s.areaPx /\ s.areaPx <= y.areaPx
      BY <1>5, <2>2
    <3>2. s.areaPx \in Nat /\ y.areaPx \in Nat
      BY <1>1, <2>2, <3>1
    <3> HIDE DEF s, R
    <3> QED
      BY <3>1, <3>2
  <2> HIDE DEF s, R, r, Q
  <2>4. r.areaPx \in Nat \ {0} /\ y.areaPx \in Nat
    BY <1>1, <1>4, <2>1, <2>2, <1>7 DEF Chosen
  <2>5. ~ ((y.areaPx * side * side) \div r.areaPx < MinSubject)
    BY <2>1, <2>2, <2>4, SmallIs
  <2> QED
    BY <1>6, <2>1, <2>2, <2>3, <2>5
<1>8. ASSUME o.analysis = {} PROVE \A x, y : ~ Chosen(B, x, y, side)
  BY <1>3, <1>7, <1>8
<1>9. ASSUME NEW b \in o.analysis
      PROVE  Chosen(B, b.reference, b.subject, side)
             /\ b = Measure(g, t, b.reference, b.subject, side)
  <2>1. /\ Q # {} /\ ~ Ambiguous(Q, r) /\ R # {} /\ ~ TooSmall(R, r, side) /\ b = a
    BY <1>3, <1>9
  <2>2. a.reference = r /\ a.subject = s
    BY DEF Measure
  <2>3. r \in Q /\ r \in B /\ s \in R /\ \A c \in R : c.areaPx <= s.areaPx
    BY <1>4, <1>5, <2>1
  <2>4. s.areaPx \in Nat /\ r.areaPx \in Nat \ {0}
    BY <1>1, <2>3
  <2>5. \A c \in R : IsSquareCandidate(c) => 2 * c.areaPx < r.areaPx
    <3> TAKE c \in R
    <3>1. IsSquareCandidate(c) => ~(2 * c.areaPx >= r.areaPx)
      BY <2>1 DEF Ambiguous
    <3>2. c.areaPx \in Nat
      BY <1>1
    <3> HIDE DEF r, R
    <3> QED
      BY <2>4, <3>1, <3>2
  <2>6. s.areaPx * side * side >= MinSubject * r.areaPx
    <3> HIDE DEF r, R, s
    <3> QED
      BY <1>6, <2>1, <2>4, SmallIs
  <2>7. Chosen(B, r, s, side)
    BY <2>3, <2>5, <2>6 DEF Chosen
  <2> HIDE DEF r, s
  <2> QED
    BY <2>1, <2>2, <2>7
<1> QED
  BY <1>8, <1>9

\* Blobs have from one pixel to all of them.
LEMMA KeptComparable ==
  ASSUME NEW g, GridOK(g), NEW dark \in SUBSET Cells(g)
  PROVE  Comparable(KeptBlobs(g, dark))
<1>1. IsFiniteSet(Cells(g)) /\ Cardinality(Cells(g)) \in Nat
  BY CellsFinite
<1>2. ASSUME NEW b \in KeptBlobs(g, dark)
      PROVE  b.areaPx \in 1 .. Cardinality(Cells(g)) /\ b.label \in Nat
  <2>1. BlobOf(g, dark, b)
    BY KeptAre
  <2>2. b.px \in SUBSET Cells(g) /\ b.px # {}
    BY <2>1, PartHas DEF BlobOf
  <2>3. /\ IsFiniteSet(b.px) /\ Cardinality(b.px) \in Nat
        /\ Cardinality(b.px) <= Cardinality(Cells(g))
    BY <1>1, <2>2, FS_Subset, FS_CardinalityType
  <2>4. Cardinality(b.px) # 0
    BY <2>2, <2>3, FS_EmptySet
  <2> QED
    BY <1>1, <2>1, <2>3, <2>4 DEF BlobOf
<1> QED
  BY <1>1, <1>2 DEF Comparable

\* Whether a set of pixels passes for a square.
Passes(g, P) == IsSquareCandidate(BlobStats(g, P, 0, 0))

\* Among the connected parts of what is dark that are large enough and off the edge, r
\* is the only square, any other being less than half its size, and s the largest of
\* the rest, and not too small to be a part.
PairOf(g, dark, side, r, s) ==
  /\ r \in WholeParts(g, dark) /\ s \in WholeParts(g, dark) /\ r # s /\ Passes(g, r)
  /\ \A o \in WholeParts(g, dark) \ {r} : /\ Passes(g, o) => 2 * Cardinality(o) < Cardinality(r)
                                     /\ Cardinality(o) <= Cardinality(s)
  /\ Cardinality(s) * side * side >= MinSubject * Cardinality(r)

\* The pair that is chosen among the blobs.
LEMMA ChosenIsPair ==
  ASSUME NEW g, GridOK(g), NEW dark \in SUBSET Cells(g), NEW side,
         NEW r \in KeptBlobs(g, dark), NEW s \in KeptBlobs(g, dark)
  PROVE  Chosen(KeptBlobs(g, dark), r, s, side) <=> PairOf(g, dark, side, r.px, s.px)
<1> DEFINE B == KeptBlobs(g, dark)
           W == WholeParts(g, dark)
<1>1. /\ \A b \in B : b.px \in W /\ b.areaPx = Cardinality(b.px)
                      /\ (IsSquareCandidate(b) <=> Passes(g, b.px))
      /\ \A b, c \in B : b.px = c.px => b = c
      /\ \A P \in W : \E b \in B : b.px = P
  BY KeptAre DEF BlobOf, Passes
<1> HIDE DEF B, W
<1>2. r \in B /\ s \in B
  BY DEF B
<1> DEFINE Rival(o) == (IsSquareCandidate(o) => 2 * o.areaPx < r.areaPx) /\ o.areaPx <= s.areaPx
           RivalPart(o) == /\ Passes(g, o) => 2 * Cardinality(o) < Cardinality(r.px)
                           /\ Cardinality(o) <= Cardinality(s.px)
<1>3. \A o \in B : Rival(o) <=> RivalPart(o.px)
  BY <1>1, <1>2
<1> HIDE DEF Rival, RivalPart
<1>4. (\A o \in B \ {r} : Rival(o)) <=> (\A o \in W \ {r.px} : RivalPart(o))
  <2>1. ASSUME \A o \in B \ {r} : Rival(o), NEW P \in W \ {r.px} PROVE RivalPart(P)
    <3>1. PICK b \in B : b.px = P
      BY <1>1
    <3>2. b \in B \ {r}
      BY <2>1, <3>1
    <3> QED
      BY <1>3, <2>1, <3>1, <3>2
  <2>2. ASSUME \A o \in W \ {r.px} : RivalPart(o), NEW b \in B \ {r} PROVE Rival(b)
    <3>1. b.px \in W \ {r.px}
      BY <1>1, <1>2
    <3> QED
      BY <1>3, <2>2, <3>1
  <2> QED
    BY <2>1, <2>2
<1>5. (r # s <=> r.px # s.px) /\ r.px \in W /\ s.px \in W
  BY <1>1, <1>2
<1>6. /\ IsSquareCandidate(r) <=> Passes(g, r.px)
      /\ r.areaPx = Cardinality(r.px) /\ s.areaPx = Cardinality(s.px)
  BY <1>1, <1>2
<1>7. Chosen(B, r, s, side) <=>
        /\ r # s /\ IsSquareCandidate(r) /\ \A o \in B \ {r} : Rival(o)
        /\ s.areaPx * side * side >= MinSubject * r.areaPx
  BY <1>2, Zenon DEF Chosen, Rival
<1>8. PairOf(g, dark, side, r.px, s.px) <=>
        /\ r.px # s.px /\ Passes(g, r.px) /\ \A o \in W \ {r.px} : RivalPart(o)
        /\ Cardinality(s.px) * side * side >= MinSubject * Cardinality(r.px)
  <2>1. r.px \in WholeParts(g, dark) /\ s.px \in WholeParts(g, dark)
    BY <1>5 DEF W
  <2> QED
    BY <2>1, Zenon DEF PairOf, RivalPart, W
<1>9. Chosen(B, r, s, side) <=> PairOf(g, dark, side, r.px, s.px)
  BY <1>4, <1>5, <1>6, <1>7, <1>8
<1> QED
  BY <1>9 DEF B

-----------------------------------------------------------------------------
(* The frame                                                               *)

\* A frame whose numbers are numbers; and one as a camera sends it.
Numbered(frame) == frame.width \in Nat /\ frame.height \in Nat /\ Len(frame.pixels) \in Nat
Sent(frame) == /\ Numbered(frame) /\ frame.pixels # <<>> /\ frame.width # 0 /\ frame.height # 0
               /\ frame.format \in {"rgb888", "gray8", "yuyv"} /\ ~ Damaged(frame)

\* It with its light evened out, and what is dark in it then.
Flat(frame)   == FlattenIllumination(Grid(frame), ToGray(frame))
DarkOf(frame) == Dark(Flat(frame), OtsuThreshold(Flat(frame)))

\* A level that is divided by that of the paper is a byte.
LEMMA FlattenedIs ==
  ASSUME NEW v \in Nat, NEW p \in Nat \ {0}
  PROVE  Flattened(v, p) \in 0 .. 255
<1> DEFINE q == (200 * v * PaperLevel + p) \div (2 * p)
<1>1. PaperLevel \in Nat
  BY LightAssumption
<1>2. q \in Nat
  <2>1. 200 * v * PaperLevel \in Nat
    BY <1>1
  <2>2. \A a \in Nat, b \in Nat \ {0} : a \div b \in Nat
    BY SMT
  <2> DEFINE a == 200 * v * PaperLevel + p
             b == 2 * p
  <2>3. a \in Nat /\ b \in Nat \ {0}
    BY <2>1
  <2> HIDE DEF a, b
  <2>4. a \div b \in Nat
    BY <2>2, <2>3
  <2> QED
    BY <2>4 DEF a, b
<1> HIDE DEF q
<1>3. {255, q} \in SUBSET Nat /\ {255, q} # {}
  BY <1>2
<1>4. Min({255, q}) \in {255, q} /\ Min({255, q}) <= 255
  BY <1>3, LeastOf
<1> QED
  BY <1>2, <1>4 DEF Flattened, q

\* Whatever surface is fitted, the light is evened out in place: every pixel has a level
\* again, and it is a byte.
LEMMA FlattenType ==
  ASSUME NEW g, NEW gray, gray \in [DOMAIN gray -> 0 .. 255]
  PROVE  FlattenIllumination(g, gray) \in [DOMAIN gray -> 0 .. 255]
<1> DEFINE light == IF Min({g.w, g.h}) < MinSide THEN {} ELSE PaperSurface(g, gray)
           paper == CHOOSE s \in light : TRUE
           flat  == [i \in DOMAIN gray |-> Flattened(gray[i], Max({100, paper[i]}))]
<1>1. FlattenIllumination(g, gray) = IF light = {} THEN gray ELSE flat
  BY DEF FlattenIllumination
<1>2. light \in SUBSET [DOMAIN gray -> Int]
  BY DEF PaperSurface, Fit
<1>3. ASSUME light # {}, NEW i \in DOMAIN gray
      PROVE  Flattened(gray[i], Max({100, paper[i]})) \in 0 .. 255
  <2>1. paper[i] \in Int
    <3> HIDE DEF light
    <3> QED
      BY <1>2, <1>3
  <2> HIDE DEF paper
  <2>2. Max({100, paper[i]}) \in Nat \ {0}
    <3> DEFINE S == {100, paper[i]}
    <3>1. \E x \in S : \A y \in S : x >= y
      BY <2>1
    <3> HIDE DEF S
    <3>2. Max(S) \in S /\ \A y \in S : Max(S) >= y
      BY <3>1, Zenon DEF Max
    <3> QED
      BY <2>1, <3>2 DEF S
  <2> QED
    BY <2>2, FlattenedIs
<1> HIDE DEF light, paper
<1>4. light # {} => flat \in [DOMAIN gray -> 0 .. 255]
  BY <1>3
<1> QED
  BY <1>1, <1>4

\* The pixels of the grid are those of the frame.
LEMMA DarkIn ==
  ASSUME NEW frame, Sent(frame)
  PROVE  GridOK(Grid(frame)) /\ DarkOf(frame) \in SUBSET Cells(Grid(frame))
<1> DEFINE g == Grid(frame)
<1>1. g.w = frame.width /\ g.h = frame.height
  BY DEF Grid
<1>2. Len(frame.pixels) = g.w * g.h
  BY <1>1 DEF Sent, Damaged
<1>3. DOMAIN ToGray(frame) = Cells(g)
  BY <1>2 DEF ToGray, Cells
<1>5. DOMAIN Flat(frame) = DOMAIN ToGray(frame)
  BY DEF Flat, FlattenIllumination
<1>4. DarkOf(frame) \in SUBSET DOMAIN ToGray(frame)
  BY <1>5 DEF DarkOf, Dark
<1> QED
  BY <1>1, <1>3, <1>4 DEF GridOK, Sent, Numbered

\* A frame is refused, or what is dark in it is searched.
LEMMA AnalyzeIs ==
  ASSUME NEW frame, NEW side \in Int
  PROVE  \/ /\ AnalyzeFrame(frame, side).analysis = {}
            /\ ~ (Sent(frame) /\ side > 0)
         \/ /\ frame.pixels # <<>> /\ frame.width # 0 /\ frame.height # 0 /\ ~ (side <= 0)
            /\ frame.format \in {"rgb888", "gray8", "yuyv"} /\ ~ Damaged(frame)
            /\ AnalyzeFrame(frame, side) =
                 Locate(Grid(frame), OtsuThreshold(Flat(frame)),
                        KeptBlobs(Grid(frame), DarkOf(frame)), side)
<1> DEFINE o == AnalyzeFrame(frame, side)
           A == frame.pixels = <<>> \/ frame.width = 0 \/ frame.height = 0 \/ side <= 0
           F == frame.format \notin {"rgb888", "gray8", "yuyv"}
           found == AnalyzeGray(Grid(frame), ToGray(frame), side)
<1>1. o = IF A THEN Error("InvalidFrame")
          ELSE IF F THEN Error("UnsupportedFormat")
          ELSE IF Damaged(frame) THEN Error("InvalidFrame")
          ELSE found
  BY DEF AnalyzeFrame
<1>2. Error("InvalidFrame").analysis = {} /\ Error("UnsupportedFormat").analysis = {}
  BY DEF Error
<1>3. found = Locate(Grid(frame), OtsuThreshold(Flat(frame)),
                     KeptBlobs(Grid(frame), DarkOf(frame)), side)
  BY Zenon DEF AnalyzeGray, Binarize, KeptBlobs, DarkOf, Flat
<1> HIDE DEF A, F, found
<1>4. \/ o.analysis = {} /\ (A \/ F \/ Damaged(frame))
      \/ ~A /\ ~F /\ ~ Damaged(frame) /\ o = found
  <2> HIDE DEF o
  <2> QED
    BY <1>1, <1>2
<1>5. A => ~ (Sent(frame) /\ side > 0)
  BY DEF A, Sent
<1> QED
  BY <1>3, <1>4, <1>5 DEF A, F, Sent

\* The analysis of a frame as a camera sends it, with a reference that has a side: what
\* is measured are two connected parts of what is dark once the light is evened out, each
\* wholly in the frame and large enough, the reference being the only square (any other is
\* less than half its size) and the subject the largest of the rest, not too small to be a
\* part; and a frame with such a pair is never refused (analyzeFrame()).
THEOREM MeasuresTheSubject ==
  ASSUME NEW frame, Sent(frame), NEW side \in Nat \ {0}
  PROVE  LET g    == Grid(frame)
             dark == DarkOf(frame)
             o    == AnalyzeFrame(frame, side)
         IN  /\ \A a \in o.analysis : PairOf(g, dark, side, a.reference.px, a.subject.px)
             /\ o.analysis = {} => \A r, s : ~ PairOf(g, dark, side, r, s)
<1> DEFINE g    == Grid(frame)
           dark == DarkOf(frame)
           o    == AnalyzeFrame(frame, side)
           B    == KeptBlobs(g, dark)
<1>1. GridOK(g) /\ dark \in SUBSET Cells(g)
  BY DarkIn
<1>2. o = Locate(g, OtsuThreshold(Flat(frame)), B, side)
  BY AnalyzeIs
<1> HIDE DEF g, dark, o
<1>3. Comparable(B)
  BY <1>1, KeptComparable
<1>4. /\ o.analysis = {} => \A r, s : ~ Chosen(B, r, s, side)
      /\ \A a \in o.analysis : Chosen(B, a.reference, a.subject, side)
  <2> HIDE DEF B
  <2> QED
    BY <1>2, <1>3, LocateIs
<1>5. ASSUME NEW a \in o.analysis PROVE PairOf(g, dark, side, a.reference.px, a.subject.px)
  <2>1. Chosen(B, a.reference, a.subject, side)
    BY <1>4
  <2>2. a.reference \in B /\ a.subject \in B
    BY <2>1 DEF Chosen
  <2> QED
    BY <1>1, <2>1, <2>2, ChosenIsPair
<1>6. ASSUME o.analysis = {}, NEW r, NEW s, PairOf(g, dark, side, r, s) PROVE FALSE
  <2>1. r \in WholeParts(g, dark) /\ s \in WholeParts(g, dark)
    BY <1>6 DEF PairOf
  <2>2. PICK b \in B : b.px = r
    BY <1>1, <2>1, KeptAre
  <2>3. PICK c \in B : c.px = s
    BY <1>1, <2>1, KeptAre
  <2>4. Chosen(B, b, c, side)
    BY <1>1, <1>6, <2>2, <2>3, ChosenIsPair
  <2> QED
    BY <1>4, <1>6, <2>4
<1> QED
  BY <1>5, <1>6 DEF g, dark, o

\* Whatever a frame holds, the lengths of what is measured are numbers.
LEMMA LengthsAreNumbers ==
  ASSUME NEW frame, Numbered(frame), NEW side \in Int, NEW a \in AnalyzeFrame(frame, side).analysis
  PROVE  a.lengthMm \in Int /\ a.widthMm \in Int
<1> DEFINE g    == Grid(frame)
           dark == DarkOf(frame)
           t    == OtsuThreshold(Flat(frame))
           B    == KeptBlobs(g, dark)
<1>1. Sent(frame) /\ side \in Nat \ {0} /\ AnalyzeFrame(frame, side) = Locate(g, t, B, side)
  BY AnalyzeIs DEF Sent
<1>2. GridOK(g) /\ dark \in SUBSET Cells(g)
  BY <1>1, DarkIn
<1>5. a \in Locate(g, t, B, side).analysis
  BY <1>1
<1> HIDE DEF g, dark, t
<1>3. Comparable(B)
  BY <1>2, KeptComparable
<1>4. Chosen(B, a.reference, a.subject, side) /\ a = Measure(g, t, a.reference, a.subject, side)
  <2> HIDE DEF B
  <2> QED
    BY <1>1, <1>3, <1>5, LocateIs
<1>6. a.reference \in B /\ a.subject \in B
  BY <1>4 DEF Chosen
<1>7. a.reference.areaPx \in Nat \ {0}
  BY <1>3, <1>6 DEF Comparable
<1>8. a.subject.px \in SUBSET Cells(g) /\ a.subject.px # {}
  BY <1>2, <1>6, KeptAre, PartHas DEF BlobOf
<1> DEFINE r == a.reference
           s == a.subject
<1> HIDE DEF r, s
<1>9. /\ Measure(g, t, r, s, side).lengthMm \in Int
      /\ Measure(g, t, r, s, side).widthMm \in Int
  BY <1>1, <1>2, <1>7, <1>8, MeasureType DEF r, s
<1> QED
  BY <1>4, <1>9 DEF r, s

-----------------------------------------------------------------------------
(* Holes                                                                   *)

\* What may be on the stack, visited and told, of a part R of the background.
Stacks(R, known, dark) == [stack : Seq(R), visited : SUBSET (known \cup R), owner : dark \cup {-1}]

\* A pixel is on the stack once, and was visited; and the owner is beside the part.
Tidy(g, dark, R, known, s) ==
  /\ s \in Stacks(R, known, dark)
  /\ \A k, l \in DOMAIN s.stack : s.stack[k] = s.stack[l] => k = l
  /\ known \subseteq s.visited /\ ToSet(s.stack) \subseteq s.visited \ known
  /\ s.owner # -1 => \E i \in R : s.owner \in Linked(g, i)

\* The pixels that were taken off the stack.
Done(known, s) == (s.visited \ known) \ ToSet(s.stack)

\* The neighbour was looked at.
Seen(dark, s, j) == IF j \in dark THEN s.owner # -1 ELSE j \in s.visited

\* What was seen remains so.
Later(s, t) == s.visited \subseteq t.visited /\ (s.owner # -1 => t.owner # -1)

\* What a step does.
Looked(g, dark, R, known, s, t) ==
  Tidy(g, dark, R, known, t) /\ Done(known, t) = Done(known, s) /\ Later(s, t)

\* What is appended is there, after the rest.
LEMMA OneAppended ==
  ASSUME NEW R, NEW st \in Seq(R), NEW j \in R
  PROVE  /\ Append(st, j) \in Seq(R) /\ ToSet(Append(st, j)) = ToSet(st) \cup {j}
         /\ (\A k, l \in DOMAIN st : st[k] = st[l] => k = l) /\ j \notin ToSet(st) =>
              \A k, l \in DOMAIN Append(st, j) : Append(st, j)[k] = Append(st, j)[l] => k = l
<1> DEFINE t == Append(st, j)
           n == Len(st)
<1>1. n \in Nat /\ DOMAIN st = 1 .. n
  OBVIOUS
<1>2. /\ t \in Seq(R) /\ DOMAIN t = 1 .. n + 1 /\ t[n + 1] = j
      /\ \A k \in 1 .. n : t[k] = st[k]
  OBVIOUS
<1> HIDE DEF t, n
<1>3. \A k \in DOMAIN t : k \in DOMAIN st \/ k = n + 1
  BY <1>1, <1>2
<1>4. ToSet(t) = ToSet(st) \cup {j}
  <2>1. n + 1 \in DOMAIN t /\ \A k \in DOMAIN st : k \in DOMAIN t
    BY <1>1, <1>2
  <2> QED
    BY <1>1, <1>2, <1>3, <2>1 DEF ToSet
<1>5. ASSUME \A k, l \in DOMAIN st : st[k] = st[l] => k = l, j \notin ToSet(st),
             NEW k \in DOMAIN t, NEW l \in DOMAIN t, t[k] = t[l]
      PROVE  k = l
  <2>1. \A m \in DOMAIN st : t[m] = st[m] /\ st[m] # j
    BY <1>1, <1>2, <1>5 DEF ToSet
  <2> QED
    BY <1>2, <1>3, <1>5, <2>1
<1> QED
  BY <1>2, <1>4, <1>5 DEF t

\* drain() at a neighbour.
LEMMA LookIs ==
  ASSUME NEW g, GridOK(g), NEW dark \in SUBSET Cells(g), NEW R, NEW known,
         Closed(g, Background(g, dark), R), NEW i \in R, i \in Cells(g),
         NEW c \in ToSet(Four(At(g, i))), NEW s, Tidy(g, dark, R, known, s)
  PROVE  /\ Looked(g, dark, R, known, s, Look(g, dark, s, c))
         /\ OnGrid(g, c) => Seen(dark, Look(g, dark, s, c), Index(g, c))
<1> DEFINE j == Index(g, c)
           t == Look(g, dark, s, c)
<1>1. /\ s \in Stacks(R, known, dark) /\ s.stack \in Seq(R) /\ s.visited \in SUBSET (known \cup R)
      /\ s.owner \in dark \cup {-1}
      /\ s = [stack |-> s.stack, visited |-> s.visited, owner |-> s.owner]
  BY DEF Tidy, Stacks
<1>2. OnGrid(g, c) => j \in Linked(g, i) /\ j \in Cells(g) /\ (j \notin dark => j \in R)
  <2>1. OnGrid(g, c) => j \in Linked(g, i)
    BY DEF Linked
  <2>2. j \in Linked(g, i) => j \in Cells(g)
    BY LinkedIs
  <2>3. j \in Cells(g) /\ j \notin dark => j \in Background(g, dark)
    BY DEF Background, Cells
  <2> QED
    BY <2>1, <2>2, <2>3 DEF Closed
<1>3. -1 \notin dark
  BY DEF Cells
<1> HIDE DEF j
<1>4. CASE ~ OnGrid(g, c)
  <2>1. t = s
    BY <1>4 DEF Look
  <2> QED
    BY <1>4, <2>1 DEF Looked, Later
<1>5. CASE OnGrid(g, c) /\ j \in dark
  <2>1. t = [stack |-> s.stack, visited |-> s.visited,
             owner |-> IF s.owner = -1 THEN j ELSE s.owner]
    BY <1>1, <1>5 DEF Look, j
  <2>2. t.stack = s.stack /\ t.visited = s.visited /\ t.owner \in {s.owner, j} /\ t.owner # -1
    BY <1>3, <1>5, <2>1
  <2>3. t \in Stacks(R, known, dark)
    BY <1>1, <1>5, <2>1 DEF Stacks
  <2>4. \E k \in R : t.owner \in Linked(g, k)
    BY <1>2, <1>5, <2>1 DEF Tidy
  <2> HIDE DEF t
  <2>5. Tidy(g, dark, R, known, t)
    BY <2>2, <2>3, <2>4 DEF Tidy
  <2>6. Looked(g, dark, R, known, s, t) /\ Seen(dark, t, j)
    BY <1>5, <2>2, <2>5 DEF Looked, Done, Later, Seen
  <2> QED
    BY <2>6 DEF t, j
<1>6. CASE OnGrid(g, c) /\ j \notin dark /\ j \in s.visited
  <2>1. t = s
    BY <1>6 DEF Look, j
  <2> QED
    BY <1>6, <2>1 DEF Looked, Later, Seen, j
<1>7. CASE OnGrid(g, c) /\ j \notin dark /\ j \notin s.visited
  <2>1. t = [stack |-> Append(s.stack, j), visited |-> s.visited \cup {j}, owner |-> s.owner]
    BY <1>1, <1>7 DEF Look, j
  <2>2. j \in R /\ j \notin known /\ j \notin ToSet(s.stack)
    BY <1>2, <1>7 DEF Tidy
  <2>3. /\ t.stack \in Seq(R) /\ ToSet(t.stack) = ToSet(s.stack) \cup {j}
        /\ \A k, l \in DOMAIN t.stack : t.stack[k] = t.stack[l] => k = l
    BY <1>1, <2>1, <2>2, OneAppended DEF Tidy
  <2>4. t.visited = s.visited \cup {j} /\ t.owner = s.owner
    BY <2>1
  <2>5. t \in Stacks(R, known, dark)
    <3>1. t = [stack |-> t.stack, visited |-> t.visited, owner |-> t.owner]
      BY <2>1
    <3> HIDE DEF t
    <3>2. t.visited \in SUBSET (known \cup R) /\ t.owner \in dark \cup {-1}
      BY <1>1, <2>2, <2>4
    <3> QED
      BY <2>3, <3>1, <3>2 DEF Stacks
  <2> HIDE DEF t
  <2>6. Tidy(g, dark, R, known, t)
    BY <2>2, <2>3, <2>4, <2>5 DEF Tidy
  <2>7. Done(known, t) = Done(known, s) /\ Later(s, t) /\ Seen(dark, t, j)
    BY <1>7, <2>2, <2>3, <2>4 DEF Done, Later, Seen
  <2> QED
    BY <2>6, <2>7 DEF Looked, t, j
<1> QED
  BY <1>4, <1>5, <1>6, <1>7

\* All neighbours of a pixel were looked at.
Handled(g, dark, s, i) == \A j \in Linked(g, i) : Seen(dark, s, j)

\* The stack without its last.
LEMMA OnePopped ==
  ASSUME NEW R, NEW st \in Seq(R), st # <<>>, \A k, l \in DOMAIN st : st[k] = st[l] => k = l
  PROVE  /\ Front(st) \in Seq(R) /\ Last(st) \in R /\ Last(st) \in ToSet(st)
         /\ ToSet(Front(st)) = ToSet(st) \ {Last(st)}
         /\ \A k, l \in DOMAIN Front(st) : Front(st)[k] = Front(st)[l] => k = l
<1> DEFINE f == Front(st)
           n == Len(st)
<1>1. n \in Nat \ {0} /\ DOMAIN st = 1 .. n /\ Last(st) = st[n] /\ n \in DOMAIN st
  BY DEF Last
<1>2. f \in Seq(R) /\ DOMAIN f = 1 .. n - 1 /\ \A k \in 1 .. n - 1 : f[k] = st[k]
  <2>1. 1 \in Int /\ n - 1 \in Int /\ f = SubSeq(st, 1, n - 1)
    BY <1>1 DEF Front
  <2>2. \A k \in 1 .. n - 1 : st[k] \in R
    BY <1>1
  <2> HIDE DEF f, n
  <2>3. /\ f \in Seq(R) /\ Len(f) = IF 1 <= n - 1 THEN n - 1 - 1 + 1 ELSE 0
        /\ \A k \in 1 .. n - 1 - 1 + 1 : f[k] = st[1 + k - 1]
    BY <2>1, <2>2, SubSeqProperties
  <2> QED
    BY <1>1, <2>3
<1> HIDE DEF f, n
<1>3. \A k \in DOMAIN f : k \in DOMAIN st /\ k # n /\ f[k] = st[k]
  BY <1>1, <1>2
<1>4. \A k \in DOMAIN st : k = n \/ k \in DOMAIN f
  BY <1>1, <1>2
<1>5. ToSet(f) = ToSet(st) \ {Last(st)}
  <2>1. ASSUME NEW k \in DOMAIN f PROVE f[k] \in ToSet(st) \ {Last(st)}
    BY <1>1, <1>3 DEF ToSet
  <2>2. ASSUME NEW k \in DOMAIN st, st[k] # Last(st) PROVE st[k] \in ToSet(f)
    <3>1. k \in DOMAIN f /\ f[k] = st[k]
      BY <1>1, <1>3, <1>4, <2>2
    <3> QED
      BY <3>1 DEF ToSet
  <2> QED
    BY <2>1, <2>2 DEF ToSet
<1>6. \A k, l \in DOMAIN f : f[k] = f[l] => k = l
  BY <1>3
<1>7. Last(st) \in R /\ Last(st) \in ToSet(st)
  BY <1>1 DEF ToSet
<1> QED
  BY <1>2, <1>5, <1>6, <1>7 DEF f

\* A round of drain().
LEMMA PopIs ==
  ASSUME NEW g, GridOK(g), NEW dark \in SUBSET Cells(g), NEW R \in SUBSET Cells(g), NEW known,
         Closed(g, Background(g, dark), R), NEW s, Tidy(g, dark, R, known, s), s.stack # <<>>
  PROVE  LET t == Pop(g, dark, s)
             i == Last(s.stack)
         IN  /\ Tidy(g, dark, R, known, t) /\ Later(s, t) /\ Handled(g, dark, t, i)
             /\ i \notin Done(known, s) /\ Done(known, t) = Done(known, s) \cup {i}
<1> DEFINE i    == Last(s.stack)
           four == Four(At(g, i))
           u    == [s EXCEPT !.stack = Front(@)]
           a    == Look(g, dark, u, four[1])
           b    == Look(g, dark, a, four[2])
           c    == Look(g, dark, b, four[3])
           d    == Look(g, dark, c, four[4])
<1>1. Pop(g, dark, s) = d
  BY DEF Pop
<1>2. /\ s.stack \in Seq(R) /\ s.visited \in SUBSET (known \cup R) /\ s.owner \in dark \cup {-1}
      /\ s = [stack |-> s.stack, visited |-> s.visited, owner |-> s.owner]
  BY DEF Tidy, Stacks
<1>3. /\ Front(s.stack) \in Seq(R) /\ i \in R /\ i \in ToSet(s.stack)
      /\ ToSet(Front(s.stack)) = ToSet(s.stack) \ {i}
      /\ \A k, l \in DOMAIN Front(s.stack) : Front(s.stack)[k] = Front(s.stack)[l] => k = l
  BY <1>2, OnePopped DEF Tidy
<1>4. u = [stack |-> Front(s.stack), visited |-> s.visited, owner |-> s.owner]
  BY <1>2
<1>5. u.stack = Front(s.stack) /\ u.visited = s.visited /\ u.owner = s.owner
  BY <1>4
<1>6. u \in Stacks(R, known, dark)
  BY <1>2, <1>3, <1>4 DEF Stacks
<1> HIDE DEF i, u
<1>7. Tidy(g, dark, R, known, u)
  BY <1>3, <1>5, <1>6 DEF Tidy
<1>8. i \notin Done(known, s) /\ Done(known, u) = Done(known, s) \cup {i}
  BY <1>3, <1>5 DEF Done, Tidy
<1>9. /\ four[1] \in ToSet(four) /\ four[2] \in ToSet(four) /\ four[3] \in ToSet(four)
      /\ four[4] \in ToSet(four) /\ \A e \in ToSet(four) : e \in {four[1], four[2], four[3], four[4]}
  BY DEF Four, ToSet
<1>10. i \in R /\ i \in Cells(g)
  BY <1>3
<1> HIDE DEF four
<1>11. /\ Looked(g, dark, R, known, u, a)
       /\ OnGrid(g, four[1]) => Seen(dark, a, Index(g, four[1]))
  BY <1>7, <1>9, <1>10, LookIs DEF four
<1>12. Tidy(g, dark, R, known, a)
  BY <1>11 DEF Looked
<1> HIDE DEF a
<1>13. /\ Looked(g, dark, R, known, a, b)
       /\ OnGrid(g, four[2]) => Seen(dark, b, Index(g, four[2]))
  BY <1>9, <1>10, <1>12, LookIs DEF four
<1>14. Tidy(g, dark, R, known, b)
  BY <1>13 DEF Looked
<1> HIDE DEF b
<1>15. /\ Looked(g, dark, R, known, b, c)
       /\ OnGrid(g, four[3]) => Seen(dark, c, Index(g, four[3]))
  BY <1>9, <1>10, <1>14, LookIs DEF four
<1>16. Tidy(g, dark, R, known, c)
  BY <1>15 DEF Looked
<1> HIDE DEF c
<1>17. /\ Looked(g, dark, R, known, c, d)
       /\ OnGrid(g, four[4]) => Seen(dark, d, Index(g, four[4]))
  BY <1>9, <1>10, <1>16, LookIs DEF four
<1> HIDE DEF d
<1>18. /\ Later(u, a) /\ Later(a, b) /\ Later(b, c) /\ Later(c, d)
       /\ Done(known, d) = Done(known, u) /\ Tidy(g, dark, R, known, d)
  BY <1>11, <1>13, <1>15, <1>17 DEF Looked
<1>19. Later(s, d) /\ Later(a, d) /\ Later(b, d)
  BY <1>5, <1>18 DEF Later
<1>20. Handled(g, dark, d, i)
  <2> SUFFICES ASSUME NEW j \in Linked(g, i) PROVE Seen(dark, d, j)
    BY DEF Handled
  <2>1. PICK e \in ToSet(four) : OnGrid(g, e) /\ j = Index(g, e)
    BY DEF Linked, four
  <2>2. e \in {four[1], four[2], four[3], four[4]}
    BY <1>9
  <2> QED
    BY <1>11, <1>13, <1>15, <1>17, <1>18, <1>19, <2>1, <2>2 DEF Later, Seen
<1>21. /\ Tidy(g, dark, R, known, d) /\ Later(s, d) /\ Handled(g, dark, d, i)
       /\ i \notin Done(known, s) /\ Done(known, d) = Done(known, s) \cup {i}
  BY <1>8, <1>18, <1>19, <1>20
<1> QED
  BY <1>1, <1>21 DEF i

\* After n rounds of drain().
Draining(g, dark, R, known, s, n) ==
  /\ Tidy(g, dark, R, known, s)
  /\ \A i \in Done(known, s) : Handled(g, dark, s, i)
  /\ s.stack = <<>> \/ Cardinality(Done(known, s)) = n

\* One more.
LEMMA RoundIs ==
  ASSUME NEW g, GridOK(g), NEW dark \in SUBSET Cells(g), NEW R \in SUBSET Cells(g), NEW known,
         Closed(g, Background(g, dark), R), NEW n \in Nat, NEW s,
         Draining(g, dark, R, known, s, n)
  PROVE  /\ Draining(g, dark, R, known, Pop(g, dark, s), n + 1)
         /\ s.visited \subseteq Pop(g, dark, s).visited
<1> DEFINE t == Pop(g, dark, s)
           i == Last(s.stack)
<1>1. CASE s.stack = <<>>
  <2>1. t = s
    BY <1>1 DEF Pop
  <2> QED
    BY <1>1, <2>1 DEF Draining
<1>2. CASE s.stack # <<>>
  <2>1. /\ Tidy(g, dark, R, known, t) /\ Later(s, t) /\ Handled(g, dark, t, i)
        /\ i \notin Done(known, s) /\ Done(known, t) = Done(known, s) \cup {i}
    BY <1>2, PopIs DEF Draining
  <2>2. ASSUME NEW k \in Done(known, s) PROVE Handled(g, dark, t, k)
    BY <2>1 DEF Draining, Handled, Seen, Later
  <2>3. Cardinality(Done(known, t)) = n + 1
    <3>1. Done(known, s) \in SUBSET Cells(g)
      BY DEF Done, Draining, Tidy, Stacks
    <3>2. IsFiniteSet(Done(known, s))
      BY <3>1, CellsFinite
    <3>3. Cardinality(Done(known, s)) = n
      BY <1>2 DEF Draining
    <3> QED
      BY <2>1, <3>2, <3>3, FS_AddElement
  <2> HIDE DEF t, i
  <2>4. Draining(g, dark, R, known, t, n + 1)
    BY <2>1, <2>2, <2>3 DEF Draining
  <2> QED
    BY <2>1, <2>4 DEF t, Later
<1> QED
  BY <1>1, <1>2

\* What is reached is closed, and so is what is left.
LEMMA ReachHas ==
  ASSUME NEW g, GridOK(g), NEW region \in SUBSET Cells(g), NEW from \in SUBSET region
  PROVE  /\ Reach(g, region, from) \in SUBSET region /\ from \subseteq Reach(g, region, from)
         /\ Closed(g, region, Reach(g, region, from))
         /\ Closed(g, region, region \ Reach(g, region, from))
<1> DEFINE R == Reach(g, region, from)
<1>1. /\ R \in SUBSET region /\ from \subseteq R /\ Closed(g, region, R)
      /\ Closed(g, region, region \ R)
  BY ReachClosed
<1> QED
  BY <1>1

\* drain() ends: it has visited no more than the part of the background in which it
\* starts, and looked at all neighbours of what it visited.
LEMMA Drained ==
  ASSUME NEW g, GridOK(g), NEW dark \in SUBSET Cells(g), NEW known,
         NEW start \in Background(g, dark) \ known
  PROVE  LET R == Reach(g, Background(g, dark), {start})
             d == Drain(g, dark, start, known)
         IN  /\ Tidy(g, dark, R, known, d) /\ start \in d.visited
             /\ \A i \in d.visited \ known : Handled(g, dark, d, i)
<1> DEFINE light == Background(g, dark)
           R     == Reach(g, light, {start})
           N     == Cardinality(light \ known)
           first == [stack |-> <<start>>, visited |-> known \cup {start}, owner |-> -1]
           S     == {s \in Stacks(R, known, dark) :
                       \E n \in Nat : Draining(g, dark, R, known, s, n)}
           G     == [n \in 1 .. N |-> [s \in S |-> Pop(g, dark, s)]]
           Round(f) == [n \in 0 .. N |-> IF n = 0 THEN first ELSE Pop(g, dark, f[n - 1])]
           drain == CHOOSE f : f = Round(f)
<1>1. light \in SUBSET Cells(g) /\ start \in light /\ {start} \in SUBSET light
  BY DEF Background, Cells
<1>2. /\ R \in SUBSET light /\ start \in R /\ Closed(g, light, R) /\ R \in SUBSET Cells(g)
  <2> DEFINE from == {start}
  <2> HIDE DEF light
  <2>1. from \in SUBSET light /\ R = Reach(g, light, from) /\ start \in from
    BY <1>1
  <2> HIDE DEF from, R
  <2>2. /\ R \in SUBSET light /\ from \subseteq R /\ Closed(g, light, R)
    BY <1>1, <2>1, ReachHas
  <2> QED
    BY <1>1, <2>1, <2>2
<1>3. IsFiniteSet(light \ known) /\ N \in Nat
  BY <1>1, CellsFinite
<1> HIDE DEF R
<1>4. Draining(g, dark, R, known, first, 0)
  <2>1. /\ first.stack = <<start>> /\ first.visited = known \cup {start} /\ first.owner = -1
        /\ DOMAIN <<start>> = {1} /\ <<start>>[1] = start /\ <<start>> \in Seq(R)
        /\ <<start>> # <<>>
    BY <1>2
  <2>2. ToSet(<<start>>) = {start}
    BY <2>1 DEF ToSet
  <2>3. first \in Stacks(R, known, dark)
    BY <1>2, <2>1 DEF Stacks
  <2> HIDE DEF first
  <2>4. Tidy(g, dark, R, known, first)
    BY <1>1, <2>1, <2>2, <2>3 DEF Tidy
  <2>5. Done(known, first) = {}
    BY <2>1, <2>2 DEF Done
  <2> QED
    BY <2>4, <2>5, FS_EmptySet DEF Draining
<1> HIDE DEF first
<1>5. first \in S
  BY <1>4 DEF Draining, Tidy
<1>6. G \in [1 .. N -> [S -> S]]
  <2>1. ASSUME NEW s \in S PROVE Pop(g, dark, s) \in S
    <3>1. PICK n \in Nat : Draining(g, dark, R, known, s, n)
      OBVIOUS
    <3>2. Draining(g, dark, R, known, Pop(g, dark, s), n + 1) /\ n + 1 \in Nat
      BY <1>2, <3>1, RoundIs
    <3>3. Pop(g, dark, s) \in Stacks(R, known, dark)
      BY <3>2 DEF Draining, Tidy
    <3> QED
      BY <3>2, <3>3
  <2> HIDE DEF S
  <2> QED
    BY <2>1
<1> HIDE DEF S
<1>7. PICK h \in [0 .. N -> S] : h[0] = first /\ \A n \in 1 .. N : h[n] = G[n][h[n - 1]]
  <2> HIDE DEF G, N
  <2>1. \E f \in [0 .. N -> S] : Runs(f, N, first, G)
    BY <1>3, <1>5, <1>6, Loop
  <2> QED
    BY <2>1, Zenon DEF Runs
<1> HIDE DEF N
<1>8. h = Round(h)
  <2>1. ASSUME NEW n \in 1 .. N PROVE h[n] = Pop(g, dark, h[n - 1])
    <3>1. n - 1 \in 0 .. N
      BY <1>3
    <3>2. h[n - 1] \in S
      BY <3>1
    <3> QED
      BY <1>7, <3>2
  <2>2. \A n \in 0 .. N : n = 0 \/ n \in 1 .. N
    BY <1>3
  <2>3. \A n \in 0 .. N : h[n] = IF n = 0 THEN first ELSE Pop(g, dark, h[n - 1])
    BY <1>7, <2>1, <2>2
  <2> QED
    BY <2>3
<1>9. drain = Round(drain)
  <2> HIDE DEF Round
  <2> QED
    BY <1>8
<1>10. Drain(g, dark, start, known) = drain[N]
  BY DEF Drain, N, first, light
<1> HIDE DEF drain
<1>11. drain[0] = first /\ \A n \in 1 .. N : drain[n] = Pop(g, dark, drain[n - 1])
  <2>1. 0 \in 0 .. N /\ \A n \in 1 .. N : n \in 0 .. N /\ n # 0
    BY <1>3
  <2>2. \A n \in 0 .. N : drain[n] = IF n = 0 THEN first ELSE Pop(g, dark, drain[n - 1])
    BY <1>9
  <2> QED
    BY <2>1, <2>2
<1> DEFINE Good == {n \in 0 .. N : Draining(g, dark, R, known, drain[n], n)
                                      /\ start \in drain[n].visited}
<1>12. 0 \in Good
  <2>1. start \in first.visited
    BY DEF first
  <2> QED
    BY <1>3, <1>4, <1>11, <2>1
<1>13. ASSUME NEW n \in 1 .. N, n - 1 \in Good PROVE n \in Good
  <2>1. n - 1 \in Nat /\ n - 1 + 1 = n /\ n \in 0 .. N
    BY <1>3
  <2>2. Draining(g, dark, R, known, drain[n - 1], n - 1) /\ start \in drain[n - 1].visited
    BY <1>13
  <2>3. /\ Draining(g, dark, R, known, Pop(g, dark, drain[n - 1]), n - 1 + 1)
        /\ drain[n - 1].visited \subseteq Pop(g, dark, drain[n - 1]).visited
    BY <1>2, <2>1, <2>2, RoundIs
  <2> QED
    BY <1>11, <2>1, <2>2, <2>3
<1>14. Good = 0 .. N
  <2>1. Good \in SUBSET (0 .. N)
    OBVIOUS
  <2> HIDE DEF Good
  <2> QED
    BY <1>3, <1>12, <1>13, <2>1, Counted
<1> DEFINE d == drain[N]
<1>15. N \in Good
  BY <1>3, <1>14
<1>16. Draining(g, dark, R, known, d, N) /\ start \in d.visited
  BY <1>15
<1> HIDE DEF d, Good
<1>17. d.stack = <<>>
  <2> SUFFICES ASSUME d.stack # <<>> PROVE FALSE
    OBVIOUS
  <2>1. Tidy(g, dark, R, known, d) /\ Cardinality(Done(known, d)) = N
    BY <1>16 DEF Draining
  <2>2. d.stack \in Seq(R) /\ d.visited \in SUBSET (known \cup R)
    BY <2>1 DEF Tidy, Stacks
  <2>3. 1 \in DOMAIN d.stack
    BY <2>2
  <2>4. d.stack[1] \in ToSet(d.stack)
    BY <2>3 DEF ToSet
  <2>5. Done(known, d) \subseteq light \ known
    BY <1>2, <2>2 DEF Done
  <2>6. d.stack[1] \in (light \ known) \ Done(known, d)
    BY <1>2, <2>1, <2>2, <2>4 DEF Done, Tidy
  <2>7. Done(known, d) # light \ known
    BY <2>6
  <2> HIDE DEF light
  <2> QED
    BY <1>3, <2>1, <2>5, <2>7, FS_Subset DEF N
<1>18. ToSet(d.stack) = {}
  BY <1>17 DEF ToSet
<1>19. \A i \in d.visited \ known : Handled(g, dark, d, i)
  BY <1>16, <1>18 DEF Draining, Done
<1> QED
  BY <1>10, <1>16, <1>19 DEF Draining, d, R, light

\* A pixel lies beside a part.
Touches(g, P, j) == \E i \in P : j \in Linked(g, i)

\* The regions of background that do not reach the edge.
Bores(g, dark) == {P \in Parts(g, Background(g, dark)) : P \cap Edge(g) = {}}

\* There is something dark beside each: above its first pixel.
LEMMA BoreHasRim ==
  ASSUME NEW g, GridOK(g), NEW dark \in SUBSET Cells(g), NEW P \in Bores(g, dark)
  PROVE  \E j \in dark : Touches(g, P, j)
<1> DEFINE light == Background(g, dark)
           m == Min(P)
           c == At(g, m)
           d == [x |-> c.x, y |-> c.y - 1]
           j == Index(g, d)
<1>1. light \in SUBSET Cells(g) /\ P \in Parts(g, light) /\ P \cap Edge(g) = {}
  BY DEF Background, Cells, Bores
<1> HIDE DEF light
<1>2. P \in SUBSET light /\ m \in P /\ \A i \in P : m <= i
  BY <1>1, PartHas
<1> HIDE DEF m
<1>3. m \in Cells(g) /\ m \notin Edge(g)
  BY <1>1, <1>2
<1>4. Cell(g, c) /\ Index(g, c) = m
  BY <1>3, AtIs
<1>5. c.y # 0
  BY <1>3 DEF Edge, Cells
<1>6. /\ g.w \in Nat \ {0} /\ g.h \in Nat \ {0} /\ c.x \in 0 .. g.w - 1 /\ c.y \in 1 .. g.h - 1
  BY <1>4, <1>5 DEF GridOK, Cell
<1>7. d.x = c.x /\ d.y = c.y - 1 /\ Cell(g, d) /\ Beside(c, d)
  BY <1>6 DEF Cell, Beside
<1> HIDE DEF c, d
<1>8. j \in Cells(g) /\ At(g, j) = d
  BY <1>7, IndexIs
<1>9. j \in Linked(g, m)
  BY <1>3, <1>7, <1>8, LinkedIs DEF c
<1>10. j < m
  <2>1. j = (c.y - 1) * g.w + c.x /\ m = c.y * g.w + c.x
    BY <1>4, <1>7 DEF Index
  <2>2. (c.y - 1) * g.w = c.y * g.w - g.w /\ c.y * g.w \in Int
    BY <1>6
  <2> QED
    BY <1>6, <2>1, <2>2
<1> HIDE DEF j
<1>11. j \notin light
  <2> SUFFICES ASSUME j \in light PROVE FALSE
    OBVIOUS
  <2>1. PICK n \in light : P = Reach(g, light, {n})
    BY <1>1 DEF Parts
  <2>5. {n} \in SUBSET light
    OBVIOUS
  <2>2. Closed(g, light, P)
    BY <1>1, <2>1, <2>5, ReachHas
  <2>3. j \in P
    BY <1>2, <1>9, <2>2 DEF Closed
  <2>4. m <= j /\ m \in Int /\ j \in Int
    BY <1>2, <1>3, <1>8, <2>3 DEF Cells
  <2> QED
    BY <1>10, <2>4
<1>12. j \in dark
  BY <1>8, <1>11 DEF light, Background, Cells
<1> QED
  BY <1>2, <1>9, <1>12 DEF Touches

\* What reaches the edge is apart from the bores, and the rest is bores.
LEMMA OutsideIs ==
  ASSUME NEW g, GridOK(g), NEW dark \in SUBSET Cells(g)
  PROVE  LET light == Background(g, dark)
             out   == Outside(g, dark)
         IN  /\ light \in SUBSET Cells(g) /\ out \in SUBSET light /\ Closed(g, light, out)
             /\ \A P \in Bores(g, dark) : P \cap out = {}
             /\ \A i \in light \ out : Reach(g, light, {i}) \in Bores(g, dark)
<1> DEFINE light == Background(g, dark)
           out   == Outside(g, dark)
           rim   == light \cap Edge(g)
<1>1. light \in SUBSET Cells(g) /\ rim \in SUBSET light
  BY DEF Background, Cells
<1>2. out = Reach(g, light, rim)
  BY <1>1, FloodIs DEF Outside
<1> HIDE DEF light, out, rim
<1>3. /\ out \in SUBSET light /\ rim \subseteq out /\ Closed(g, light, out)
      /\ Closed(g, light, light \ out)
  BY <1>1, <1>2, ReachHas
<1>4. ASSUME NEW P \in Bores(g, dark) PROVE P \cap out = {}
  <2>1. P \in Parts(g, light) /\ P \cap Edge(g) = {}
    BY DEF Bores, light
  <2>2. PICK m \in light : P = Reach(g, light, {m})
    BY <2>1 DEF Parts
  <2>5. {m} \in SUBSET light
    OBVIOUS
  <2>3. Closed(g, light, light \ P)
    BY <1>1, <2>2, <2>5, ReachHas
  <2>4. rim \subseteq light \ P
    BY <1>1, <2>1 DEF rim
  <2>6. light \ P \in SUBSET light
    OBVIOUS
  <2>7. out \subseteq light \ P
    BY <1>2, <2>3, <2>4, <2>6 DEF Reach
  <2> QED
    BY <2>7
<1>5. ASSUME NEW i \in light \ out PROVE Reach(g, light, {i}) \in Bores(g, dark)
  <2>1. Reach(g, light, {i}) \subseteq light \ out
    BY <1>3, ReachLeast
  <2>4. Reach(g, light, {i}) \cap rim = {} /\ Reach(g, light, {i}) \subseteq light
    BY <1>3, <2>1
  <2>2. Reach(g, light, {i}) \cap Edge(g) = {}
    BY <2>4 DEF rim
  <2>3. Reach(g, light, {i}) \in Parts(g, light)
    BY DEF Parts
  <2> QED
    BY <2>2, <2>3 DEF Bores, light
<1> QED
  BY <1>1, <1>3, <1>4, <1>5 DEF light, out

\* Bores that share a pixel are the same.
LEMMA BoresApart ==
  ASSUME NEW g, GridOK(g), NEW dark \in SUBSET Cells(g), NEW P \in Bores(g, dark),
         NEW i \in P
  PROVE  i \in Background(g, dark) /\ P = Reach(g, Background(g, dark), {i})
<1> DEFINE light == Background(g, dark)
<1>1. light \in SUBSET Cells(g) /\ P \in Parts(g, light)
  BY DEF Background, Cells, Bores
<1> HIDE DEF light
<1>2. PICK m \in light : P = Reach(g, light, {m})
  BY <1>1 DEF Parts
<1>3. i \in light /\ Reach(g, light, {i}) = Reach(g, light, {m})
  BY <1>1, <1>2, PartFrom
<1> QED
  BY <1>2, <1>3 DEF light

\* drain() visits a bore as a whole, and tells of something dark beside it.
LEMMA BoreIsDrained ==
  ASSUME NEW g, GridOK(g), NEW dark \in SUBSET Cells(g), NEW known,
         NEW start \in Background(g, dark) \ known,
         NEW R, R = Reach(g, Background(g, dark), {start}), R \in Bores(g, dark),
         R \cap known = {}
  PROVE  LET d == Drain(g, dark, start, known)
         IN  d.visited = known \cup R /\ d.owner \in dark /\ Touches(g, R, d.owner)
<1> DEFINE light == Background(g, dark)
           d     == Drain(g, dark, start, known)
<1>1. /\ Tidy(g, dark, R, known, d) /\ start \in d.visited
      /\ \A i \in d.visited \ known : Handled(g, dark, d, i)
  BY Drained
<1>2. light \in SUBSET Cells(g) /\ R \in Parts(g, light) /\ dark \cap light = {}
  BY DEF Background, Cells, Bores
<1>3. start \in light /\ start \notin known /\ R = Reach(g, light, {start})
  OBVIOUS
<1> HIDE DEF d, light
<1>4. R \in SUBSET light /\ Closed(g, light, R)
  <2> DEFINE from == {start}
  <2>1. from \in SUBSET light /\ R = Reach(g, light, from)
    BY <1>3
  <2> HIDE DEF from
  <2>2. /\ Reach(g, light, from) \in SUBSET light
        /\ Closed(g, light, Reach(g, light, from))
    BY <1>2, <2>1, ReachHas
  <2> QED
    BY <2>1, <2>2
<1>5. /\ d.visited \in SUBSET (known \cup R) /\ known \subseteq d.visited
      /\ d.owner \in dark \cup {-1}
      /\ d.owner # -1 => \E i \in R : d.owner \in Linked(g, i)
  BY <1>1 DEF Tidy, Stacks
<1> DEFINE V == d.visited \cap R
<1>6. Closed(g, light, V)
  <2>1. ASSUME NEW i \in V, NEW j \in Linked(g, i) \cap light PROVE j \in V
    <3>1. j \in R
      BY <1>4, <2>1 DEF Closed
    <3>2. Handled(g, dark, d, i) /\ j \notin dark
      BY <1>1, <1>2, <2>1
    <3>3. j \in d.visited
      BY <2>1, <3>2 DEF Handled, Seen
    <3> QED
      BY <3>1, <3>3
  <2> QED
    BY <2>1 DEF Closed
<1>7. start \in V /\ V \in SUBSET light
  <2>1. start \in R
    BY <1>1, <1>3, <1>5
  <2> QED
    BY <1>1, <1>4, <2>1
<1>8. R \subseteq V
  <2> HIDE DEF V
  <2>1. Reach(g, light, {start}) \subseteq V
    BY <1>6, <1>7, ReachLeast
  <2> QED
    BY <1>3, <2>1
<1>9. d.visited = known \cup R
  BY <1>5, <1>8
<1>10. PICK j \in dark : Touches(g, R, j)
  BY BoreHasRim
<1>11. PICK i \in R : j \in Linked(g, i)
  BY <1>10 DEF Touches
<1>12. Handled(g, dark, d, i)
  BY <1>1, <1>9
<1>13. d.owner # -1
  BY <1>10, <1>11, <1>12 DEF Handled, Seen
<1> QED
  BY <1>5, <1>9, <1>13 DEF d, Touches

\* What is known of the bores that begin before pixel n: b are those that were found, in
\* the order of their owners.
Bored(g, dark, s, b, n) ==
  /\ b \in Seq(Bores(g, dark)) /\ s.owners \in Seq(dark) /\ Len(b) = Len(s.owners)
  /\ \A k, l \in DOMAIN b : b[k] = b[l] => k = l
  /\ \A k \in DOMAIN b : Touches(g, b[k], s.owners[k])
  /\ \A P \in Bores(g, dark) : Min(P) < n => P \in ToSet(b)
  /\ s.visited = Outside(g, dark) \cup UNION ToSet(b)

\* A pixel from which there is nothing to drain, and a new hole.
LEMMA HoleIs ==
  ASSUME NEW g, GridOK(g), NEW dark \in SUBSET Cells(g), NEW s, NEW b, NEW i \in Cells(g),
         Bored(g, dark, s, b, i)
  PROVE  \E c : Bored(g, dark, Hole(g, dark, s, i), c, i + 1)
<1> DEFINE light == Background(g, dark)
           out   == Outside(g, dark)
           R     == Reach(g, light, {i})
<1>1. /\ light \in SUBSET Cells(g) /\ out \in SUBSET light
      /\ \A P \in Bores(g, dark) : P \cap out = {}
      /\ \A j \in light \ out : Reach(g, light, {j}) \in Bores(g, dark)
  BY OutsideIs
<1>2. /\ i \in Nat /\ light = Cells(g) \ dark
      /\ \A P \in Bores(g, dark) : P \in Parts(g, light)
  BY DEF Cells, Background, Bores
<1> HIDE DEF light, out, R
<1>3. /\ b \in Seq(Bores(g, dark)) /\ Len(b) \in Nat /\ DOMAIN b = 1 .. Len(b)
      /\ s.owners \in Seq(dark) /\ Len(s.owners) = Len(b)
      /\ s.visited = out \cup UNION ToSet(b)
  BY DEF Bored, out
<1>4. \A P \in ToSet(b) : P \in Bores(g, dark)
  BY <1>3 DEF ToSet
<1>5. ASSUME NEW P \in Bores(g, dark), Min(P) < i + 1 PROVE Min(P) < i \/ i \in P
  <2>1. P \in Parts(g, light)
    BY <1>2
  <2> DEFINE m == Min(P)
  <2>2. m \in P /\ P \in SUBSET Nat
    BY <1>1, <2>1, PartHas
  <2>3. m < i + 1
    BY <1>5
  <2> HIDE DEF m
  <2>4. m < i \/ m = i
    BY <1>2, <2>2, <2>3
  <2> QED
    BY <2>2, <2>4 DEF m
<1>6. CASE i \in dark \cup s.visited
  <2>1. Hole(g, dark, s, i) = s
    BY <1>6 DEF Hole
  <2>2. ASSUME NEW P \in Bores(g, dark), Min(P) < i + 1 PROVE P \in ToSet(b)
    <3>1. CASE Min(P) < i
      BY <3>1 DEF Bored
    <3>2. CASE i \in P
      <4>1. i \in light /\ P = Reach(g, light, {i}) /\ i \notin out
        BY <1>1, <3>2, BoresApart DEF light
      <4>2. PICK Q \in ToSet(b) : i \in Q
        BY <1>2, <1>3, <1>6, <4>1
      <4>3. Q = Reach(g, light, {i})
        BY <1>4, <4>2, BoresApart DEF light
      <4> QED
        BY <4>1, <4>2, <4>3
    <3> QED
      BY <1>5, <2>2, <3>1, <3>2
  <2> QED
    BY <2>1, <2>2 DEF Bored
<1>7. CASE i \notin dark \cup s.visited
  <2> DEFINE d == Drain(g, dark, i, s.visited)
             t == Hole(g, dark, s, i)
             c == Append(b, R)
  <2>1. i \in light /\ i \notin out /\ i \notin s.visited /\ R \in Bores(g, dark)
    BY <1>1, <1>2, <1>3, <1>7 DEF R
  <2>2. R \cap s.visited = {}
    <3> SUFFICES ASSUME NEW j \in R, j \in s.visited PROVE FALSE
      OBVIOUS
    <3>1. j \notin out
      BY <1>1, <2>1
    <3>2. PICK Q \in ToSet(b) : j \in Q
      BY <1>3, <3>1
    <3>3. Q = Reach(g, light, {j}) /\ R = Reach(g, light, {j})
      BY <1>4, <2>1, <3>2, BoresApart DEF light
    <3>4. i \in R
      BY <2>1 DEF R, Reach
    <3> QED
      BY <1>3, <2>1, <3>2, <3>3, <3>4
  <2>3. d.visited = s.visited \cup R /\ d.owner \in dark /\ Touches(g, R, d.owner)
    BY <2>1, <2>2, BoreIsDrained DEF R, light
  <2>4. d.owner # -1
    BY <2>3 DEF Cells
  <2> HIDE DEF d
  <2>5. t.visited = s.visited \cup R /\ t.owners = Append(s.owners, d.owner)
    BY <1>7, <2>3, <2>4 DEF Hole, d
  <2> HIDE DEF t
  <2>6. /\ t.owners \in Seq(dark) /\ Len(t.owners) = Len(b) + 1
        /\ t.owners[Len(b) + 1] = d.owner
        /\ \A k \in DOMAIN b : t.owners[k] = s.owners[k]
    BY <1>3, <2>3, <2>5
  <2>7. /\ Len(c) = Len(b) + 1 /\ DOMAIN c = 1 .. Len(b) + 1 /\ c[Len(b) + 1] = R
        /\ \A k \in DOMAIN b : c[k] = b[k]
    BY <1>3, <2>1
  <2>8. R \notin ToSet(b)
    <3>1. i \in R
      BY <2>1 DEF R, Reach
    <3> QED
      BY <1>3, <2>1, <3>1
  <2>9. /\ c \in Seq(Bores(g, dark)) /\ ToSet(c) = ToSet(b) \cup {R}
        /\ \A k, l \in DOMAIN c : c[k] = c[l] => k = l
    <3>1. \A k, l \in DOMAIN b : b[k] = b[l] => k = l
      BY DEF Bored
    <3> QED
      BY <1>3, <2>1, <2>8, <3>1, OneAppended
  <2> HIDE DEF c
  <2>10. ASSUME NEW k \in DOMAIN c PROVE Touches(g, c[k], t.owners[k])
    <3>1. CASE k \in DOMAIN b
      <4>1. Touches(g, b[k], s.owners[k])
        BY <3>1 DEF Bored
      <4> QED
        BY <2>6, <2>7, <3>1, <4>1
    <3>2. CASE k = Len(b) + 1
      BY <2>3, <2>6, <2>7, <3>2
    <3> QED
      BY <1>3, <2>7, <3>1, <3>2
  <2>11. ASSUME NEW P \in Bores(g, dark), Min(P) < i + 1 PROVE P \in ToSet(c)
    <3>1. CASE Min(P) < i
      <4>1. P \in ToSet(b)
        BY <3>1 DEF Bored
      <4> QED
        BY <2>9, <4>1
    <3>2. CASE i \in P
      <4>1. P = R
        BY <3>2, BoresApart DEF R, light
      <4> QED
        BY <2>9, <4>1
    <3> QED
      BY <1>5, <2>11, <3>1, <3>2
  <2>12. t.visited = out \cup UNION ToSet(c)
    BY <1>3, <2>5, <2>9
  <2>13. Bored(g, dark, t, c, i + 1)
    BY <2>6, <2>7, <2>9, <2>10, <2>11, <2>12 DEF Bored, out
  <2> QED
    BY <2>13 DEF t
<1> QED
  BY <1>6, <1>7

\* countHoles() ends with every bore.
LEMMA AllBored ==
  ASSUME NEW g, GridOK(g), NEW dark \in SUBSET Cells(g)
  PROVE  \E s, b : s.owners = CountHoles(g, dark) /\ Bored(g, dark, s, b, g.w * g.h)
<1> DEFINE N == g.w * g.h
           first == [visited |-> Outside(g, dark), owners |-> <<>>]
           S == [visited : SUBSET Cells(g), owners : Seq(dark)]
           G == [n \in 1 .. N |-> [s \in S |-> Hole(g, dark, s, n - 1)]]
           Round(f) == [n \in 0 .. N |-> IF n = 0 THEN first ELSE Hole(g, dark, f[n - 1], n - 1)]
           holes == CHOOSE f : f = Round(f)
<1>1. N \in Nat /\ Cells(g) = 0 .. N - 1
  BY DEF GridOK, Cells
<1> HIDE DEF N
<1>2. first \in S
  BY OutsideIs
<1>3. G \in [1 .. N -> [S -> S]]
  <2>1. ASSUME NEW n \in 1 .. N, NEW s \in S PROVE Hole(g, dark, s, n - 1) \in S
    <3> DEFINE i == n - 1
               d == Drain(g, dark, i, s.visited)
               R == Reach(g, Background(g, dark), {i})
    <3>1. i \in Cells(g) /\ s.visited \in SUBSET Cells(g) /\ s.owners \in Seq(dark)
      BY <1>1
    <3> HIDE DEF i
    <3>2. CASE i \in dark \cup s.visited
      BY <3>2 DEF Hole, i
    <3>3. CASE i \notin dark \cup s.visited
      <4>1. i \in Background(g, dark) \ s.visited
        BY <3>1, <3>3 DEF Background, Cells
      <4>2. Tidy(g, dark, R, s.visited, d)
        BY <4>1, Drained
      <4>3. R \in SUBSET Cells(g)
        BY DEF Reach, Background, Cells
      <4> HIDE DEF d, R
      <4>4. d.visited \in SUBSET (s.visited \cup R) /\ d.owner \in dark \cup {-1}
        BY <4>2 DEF Tidy, Stacks
      <4>5. d.visited \in SUBSET Cells(g)
        BY <3>1, <4>3, <4>4
      <4>6. d.owner # -1 => Append(s.owners, d.owner) \in Seq(dark)
        BY <3>1, <4>4, AppendProperties
      <4>7. Hole(g, dark, s, i) =
              [visited |-> d.visited,
               owners  |-> IF d.owner = -1 THEN s.owners ELSE Append(s.owners, d.owner)]
        BY <3>3 DEF Hole, d
      <4> QED
        BY <3>1, <4>5, <4>6, <4>7 DEF i
    <3> QED
      BY <3>2, <3>3
  <2> HIDE DEF S
  <2> QED
    BY <2>1
<1> HIDE DEF first
<1>4. PICK h \in [0 .. N -> S] : h[0] = first /\ \A n \in 1 .. N : h[n] = G[n][h[n - 1]]
  <2> HIDE DEF G, S
  <2>1. \E f \in [0 .. N -> S] : Runs(f, N, first, G)
    BY <1>1, <1>2, <1>3, Loop
  <2> QED
    BY <2>1, Zenon DEF Runs
<1> HIDE DEF S
<1>5. h = Round(h)
  <2>1. ASSUME NEW n \in 1 .. N PROVE h[n] = Hole(g, dark, h[n - 1], n - 1)
    <3>1. n - 1 \in 0 .. N
      BY <1>1
    <3>2. h[n - 1] \in S
      BY <3>1
    <3> QED
      BY <1>4, <3>2
  <2>2. \A n \in 0 .. N : n = 0 \/ n \in 1 .. N
    BY <1>1
  <2>3. \A n \in 0 .. N : h[n] = IF n = 0 THEN first ELSE Hole(g, dark, h[n - 1], n - 1)
    BY <1>4, <2>1, <2>2
  <2> QED
    BY <2>3
<1>6. holes = Round(holes)
  <2> HIDE DEF Round
  <2> QED
    BY <1>5
<1>7. CountHoles(g, dark) = holes[N].owners
  BY DEF CountHoles, N, first
<1> HIDE DEF holes
<1>8. holes[0] = first /\ \A n \in 1 .. N : holes[n] = Hole(g, dark, holes[n - 1], n - 1)
  <2>1. /\ 0 \in 0 .. N
        /\ \A n \in 1 .. N : n \in 0 .. N /\ n # 0
    BY <1>1
  <2>2. \A n \in 0 .. N :
          holes[n] = IF n = 0 THEN first ELSE Hole(g, dark, holes[n - 1], n - 1)
    BY <1>6
  <2> QED
    BY <2>1, <2>2
<1> DEFINE Good == {n \in 0 .. N : \E b : Bored(g, dark, holes[n], b, n)}
<1>9. 0 \in Good
  <2>1. \A P \in Bores(g, dark) : ~ Min(P) < 0
    <3> TAKE P \in Bores(g, dark)
    <3> DEFINE m == Min(P)
    <3>1. P \in Parts(g, Background(g, dark)) /\ Background(g, dark) \in SUBSET Cells(g)
      BY DEF Bores, Background, Cells
    <3>2. m \in Nat
      BY <3>1, PartHas
    <3> HIDE DEF m
    <3>3. ~ m < 0
      BY <3>2
    <3> QED
      BY <3>3 DEF m
  <2>2. ToSet(<<>>) = {}
    BY DEF ToSet
  <2>3. Bored(g, dark, first, <<>>, 0)
    BY <2>1, <2>2 DEF Bored, first
  <2> QED
    BY <1>1, <1>8, <2>3
<1>10. ASSUME NEW n \in 1 .. N, n - 1 \in Good PROVE n \in Good
  <2>1. n - 1 \in Cells(g) /\ n - 1 + 1 = n
    BY <1>1
  <2>2. PICK b : Bored(g, dark, holes[n - 1], b, n - 1)
    BY <1>10
  <2>3. \E c : Bored(g, dark, Hole(g, dark, holes[n - 1], n - 1), c, n - 1 + 1)
    BY <2>1, <2>2, HoleIs
  <2>4. \E c : Bored(g, dark, holes[n], c, n)
    BY <1>8, <2>1, <2>3
  <2>5. n \in 0 .. N
    BY <1>1
  <2> QED
    BY <2>4, <2>5
<1>11. Good = 0 .. N
  <2>1. Good \in SUBSET (0 .. N)
    OBVIOUS
  <2> HIDE DEF Good
  <2> QED
    BY <1>1, <1>9, <1>10, <2>1, Counted
<1>12. N \in Good
  BY <1>1, <1>11
<1> QED
  BY <1>7, <1>12 DEF N

\* countHoles() counts each region of background that does not reach the edge, once, and
\* nothing else, and the pixel it tells of is dark and beside the region: there is a
\* region for each owner. For every grid and every set of dark pixels.
THEOREM HolesCounted ==
  ASSUME NEW g, GridOK(g), NEW dark \in SUBSET Cells(g)
  PROVE  LET owners == CountHoles(g, dark)
         IN  /\ owners \in Seq(dark)
             /\ \E b \in Bijection(DOMAIN owners, Bores(g, dark)) :
                  \A k \in DOMAIN owners : Touches(g, b[k], owners[k])
<1> DEFINE owners == CountHoles(g, dark)
<1>1. PICK s, b : s.owners = owners /\ Bored(g, dark, s, b, g.w * g.h)
  BY AllBored
<1> HIDE DEF owners
<1>2. /\ owners \in Seq(dark) /\ b \in Seq(Bores(g, dark)) /\ Len(b) = Len(owners)
      /\ \A k, l \in DOMAIN b : b[k] = b[l] => k = l
      /\ \A k \in DOMAIN b : Touches(g, b[k], owners[k])
  BY <1>1 DEF Bored
<1>3. DOMAIN b = DOMAIN owners /\ b \in [DOMAIN owners -> Bores(g, dark)]
  BY <1>2
<1>4. ASSUME NEW P \in Bores(g, dark) PROVE \E k \in DOMAIN owners : b[k] = P
  <2> DEFINE m == Min(P)
  <2>1. P \in Parts(g, Background(g, dark)) /\ Background(g, dark) \in SUBSET Cells(g)
    BY DEF Bores, Background, Cells
  <2>2. m \in Background(g, dark)
    BY <2>1, PartHas
  <2> HIDE DEF m
  <2>3. m < g.w * g.h
    BY <2>1, <2>2 DEF Cells, GridOK
  <2>4. P \in ToSet(b)
    BY <1>1, <2>3 DEF Bored, m
  <2> QED
    BY <1>3, <2>4 DEF ToSet
<1>5. b \in Bijection(DOMAIN owners, Bores(g, dark))
  BY <1>2, <1>3, <1>4 DEF Bijection, Injection, Surjection, IsInjective
<1> QED
  BY <1>2, <1>3, <1>5 DEF owners

\* The number of holes given to a blob lies between the number of regions that have only
\* the blob beside them and the number of those it lies beside: a hole inside one blob is
\* counted for it. For every grid and every set of dark pixels.
THEOREM HolesOfBlob ==
  ASSUME NEW g, GridOK(g), NEW dark \in SUBSET Cells(g), NEW P \in Parts(g, dark)
  PROVE  LET bores == Bores(g, dark)
         IN  HolesOf(CountHoles(g, dark), P) \in
               Cardinality({R \in bores : \A j \in dark : Touches(g, R, j) => j \in P}) ..
               Cardinality({R \in bores : \E j \in P : Touches(g, R, j)})
<1> DEFINE owners == CountHoles(g, dark)
           bores  == Bores(g, dark)
           mine   == {k \in DOMAIN owners : owners[k] \in P}
           inner  == {R \in bores : \A j \in dark : Touches(g, R, j) => j \in P}
           beside == {R \in bores : \E j \in P : Touches(g, R, j)}
<1>1. owners \in Seq(dark)
  BY HolesCounted
<1>2. PICK b \in Bijection(DOMAIN owners, bores) :
        \A k \in DOMAIN owners : Touches(g, b[k], owners[k])
  BY HolesCounted
<1>3. IsFiniteSet(bores)
  <2>1. IsFiniteSet(Cells(g)) /\ bores \in SUBSET SUBSET Cells(g)
    <3>1. Cells(g) \in SUBSET Cells(g) /\ Background(g, dark) \in SUBSET Cells(g)
      BY DEF Background, Cells
    <3>2. \A R \in bores : R \in Parts(g, Background(g, dark))
      BY DEF Bores
    <3>3. \A R \in bores : R \in SUBSET Background(g, dark)
      BY <3>1, <3>2, PartHas
    <3> QED
      BY <3>1, <3>3, CellsFinite
  <2> QED
    BY <2>1, FS_SUBSET, FS_Subset
<1> HIDE DEF owners, bores
<1>4. /\ b \in [DOMAIN owners -> bores]
      /\ \A k, l \in DOMAIN owners : b[k] = b[l] => k = l
      /\ \A R \in bores : \E k \in DOMAIN owners : b[k] = R
  BY <1>2 DEF Bijection, Injection, Surjection, IsInjective
<1> DEFINE T == {b[k] : k \in mine}
           f == [k \in mine |-> b[k]]
<1>5. T \in SUBSET bores /\ IsFiniteSet(T) /\ Cardinality(T) \in Nat
  <2>1. T \in SUBSET bores
    BY <1>4
  <2> HIDE DEF T
  <2> QED
    BY <1>3, <2>1, FS_Subset, FS_CardinalityType
<1>6. Cardinality(mine) = Cardinality(T)
  <2>1. f \in Bijection(mine, T)
    <3>1. f \in [mine -> T] /\ \A t \in T : \E k \in mine : f[k] = t
      OBVIOUS
    <3>2. \A k, l \in mine : f[k] = f[l] => k = l
      BY <1>4
    <3> QED
      BY <3>1, <3>2 DEF Bijection, Injection, Surjection, IsInjective
  <2> HIDE DEF f, mine, T
  <2>2. f \in Injection(mine, T) /\ f \in Surjection(mine, T)
    BY <2>1 DEF Bijection
  <2> QED
    BY <1>5, <2>2, FS_Injection
<1>7. inner \subseteq T
  <2> SUFFICES ASSUME NEW R \in inner PROVE R \in T
    OBVIOUS
  <2>1. PICK k \in DOMAIN owners : b[k] = R
    BY <1>4
  <2>2. owners[k] \in dark /\ Touches(g, R, owners[k])
    BY <1>1, <1>2, <2>1
  <2>3. k \in mine
    BY <2>2
  <2> QED
    BY <2>1, <2>3
<1>8. T \subseteq beside
  <2>1. ASSUME NEW k \in mine PROVE b[k] \in beside
    <3>1. b[k] \in bores /\ Touches(g, b[k], owners[k])
      BY <1>2, <1>4
    <3> QED
      BY <3>1
  <2> QED
    BY <2>1
<1>9. IsFiniteSet(beside)
  <2>1. beside \in SUBSET bores
    OBVIOUS
  <2> HIDE DEF beside
  <2> QED
    BY <1>3, <2>1, FS_Subset
<1>10. HolesOf(CountHoles(g, dark), P) = Cardinality(mine)
  BY DEF HolesOf, owners
<1> HIDE DEF T, inner, beside, mine
<1>11. /\ Cardinality(inner) <= Cardinality(T) /\ Cardinality(inner) \in Nat
       /\ Cardinality(T) <= Cardinality(beside) /\ Cardinality(beside) \in Nat
  BY <1>5, <1>7, <1>8, <1>9, FS_Subset, FS_CardinalityType
<1>12. Cardinality(mine) \in Cardinality(inner) .. Cardinality(beside)
  BY <1>5, <1>6, <1>11
<1> QED
  BY <1>10, <1>12 DEF inner, beside, bores

-----------------------------------------------------------------------------
(* Sums                                                                    *)

\* What holds of a set when it holds without any one member holds of all finite ones.
LEMMA Every ==
  ASSUME NEW S, IsFiniteSet(S), NEW Good \in SUBSET SUBSET S, {} \in Good,
         \A s \in SUBSET S : s # {} /\ (\A x \in s : s \ {x} \in Good) => s \in Good
  PROVE  Good = SUBSET S
<1> DEFINE N == Cardinality(S)
           G == {n \in 0 .. N : \A s \in SUBSET S : Cardinality(s) <= n => s \in Good}
<1>1. N \in Nat
  BY FS_CardinalityType
<1>2. ASSUME NEW s \in SUBSET S
      PROVE  /\ IsFiniteSet(s) /\ Cardinality(s) \in Nat /\ Cardinality(s) <= N
             /\ (Cardinality(s) = 0 <=> s = {})
             /\ \A x \in s : Cardinality(s \ {x}) = Cardinality(s) - 1
  <2>1. IsFiniteSet(s) /\ Cardinality(s) <= N
    BY FS_Subset
  <2> QED
    BY <2>1, FS_CardinalityType, FS_EmptySet, FS_RemoveElement
<1> HIDE DEF N
<1>3. 0 \in G
  <2>1. ASSUME NEW s \in SUBSET S, Cardinality(s) <= 0 PROVE s \in Good
    <3>1. Cardinality(s) = 0
      BY <1>2, <2>1
    <3> QED
      BY <1>2, <3>1
  <2> QED
    BY <1>1, <2>1
<1>4. ASSUME NEW n \in 1 .. N, n - 1 \in G PROVE n \in G
  <2>1. ASSUME NEW s \in SUBSET S, Cardinality(s) <= n PROVE s \in Good
    <3>1. ASSUME NEW x \in s PROVE s \ {x} \in Good
      <4>1. s \ {x} \in SUBSET S /\ Cardinality(s \ {x}) = Cardinality(s) - 1
        BY <1>2
      <4>2. Cardinality(s \ {x}) <= n - 1
        BY <1>1, <1>2, <2>1, <4>1
      <4> QED
        BY <1>4, <4>1, <4>2
    <3>2. CASE s = {}
      BY <3>2
    <3> QED
      BY <3>1, <3>2
  <2> QED
    BY <1>1, <2>1
<1>5. G = 0 .. N
  <2>1. G \in SUBSET (0 .. N)
    OBVIOUS
  <2> HIDE DEF G
  <2> QED
    BY <1>1, <1>3, <1>4, <2>1, Counted
<1>6. N \in G
  BY <1>1, <1>5
<1> QED
  BY <1>2, <1>6

\* A member of a set, as the fold takes it.
Some(s) == CHOOSE x \in s : TRUE

\* The sums of the subsets of S.
Sums(f, S, h) ==
  h = [s \in SUBSET S |-> IF s = {} THEN 0 ELSE f[Some(s)] + h[s \ {Some(s)}]]

\* A sum is that of its fold.
LEMMA SumFolds ==
  ASSUME NEW f, NEW S
  PROVE  LET iter == CHOOSE h : Sums(f, S, h) IN SumFunctionOnSet(f, S) = iter[S]
  BY DEF SumFunctionOnSet, FoldFunctionOnSet, MapThenFoldSet, Sums, Some

\* There are such sums.
LEMMA SumsExist ==
  ASSUME NEW S, IsFiniteSet(S), NEW f, \A i \in S : f[i] \in Int
  PROVE  \E h \in [SUBSET S -> Int] : Sums(f, S, h)
<1> DEFINE N == Cardinality(S)
           D == [SUBSET S -> Int]
           first == [s \in SUBSET S |-> 0]
           Next1(h) == [s \in SUBSET S |-> IF s = {} THEN 0 ELSE f[Some(s)] + h[s \ {Some(s)}]]
           G == [n \in 1 .. N |-> [h \in D |-> Next1(h)]]
<1>1. N \in Nat
  BY FS_CardinalityType
<1>2. ASSUME NEW s \in SUBSET S
      PROVE  /\ IsFiniteSet(s) /\ Cardinality(s) \in Nat /\ Cardinality(s) <= N
             /\ (Cardinality(s) = 0 <=> s = {})
             /\ s # {} => /\ Some(s) \in s /\ s \ {Some(s)} \in SUBSET S
                          /\ Cardinality(s \ {Some(s)}) = Cardinality(s) - 1
  <2>1. IsFiniteSet(s) /\ Cardinality(s) <= N
    BY FS_Subset
  <2>2. s # {} => Some(s) \in s
    BY DEF Some
  <2> QED
    BY <2>1, <2>2, FS_CardinalityType, FS_EmptySet, FS_RemoveElement
<1> HIDE DEF N
<1>3. first \in D
  OBVIOUS
<1>4. ASSUME NEW h \in D PROVE Next1(h) \in D
  <2>1. ASSUME NEW s \in SUBSET S, s # {} PROVE f[Some(s)] + h[s \ {Some(s)}] \in Int
    <3>1. Some(s) \in S /\ s \ {Some(s)} \in SUBSET S
      BY <1>2, <2>1
    <3>2. f[Some(s)] \in Int /\ h[s \ {Some(s)}] \in Int
      BY <3>1
    <3> QED
      BY <3>2
  <2> QED
    BY <2>1
<1> HIDE DEF first, Next1
<1>5. G \in [1 .. N -> [D -> D]]
  <2> HIDE DEF D
  <2> QED
    BY <1>4
<1>6. PICK r \in [0 .. N -> D] : r[0] = first /\ \A n \in 1 .. N : r[n] = G[n][r[n - 1]]
  <2> HIDE DEF D, G
  <2>1. \E h \in [0 .. N -> D] : Runs(h, N, first, G)
    BY <1>1, <1>3, <1>5, Loop
  <2> QED
    BY <2>1, Zenon DEF Runs
<1>7. ASSUME NEW n \in 1 .. N PROVE r[n] = Next1(r[n - 1]) /\ r[n] \in D /\ r[n - 1] \in D
  <2> HIDE DEF D
  <2>1. n - 1 \in 0 .. N /\ n \in 0 .. N
    BY <1>1
  <2>2. r[n - 1] \in D /\ r[n] \in D
    BY <1>6, <2>1
  <2> QED
    BY <1>6, <2>2
<1> DEFINE Good == {n \in 0 .. N : n = 0 \/ \A s \in SUBSET S :
                                      Cardinality(s) < n => r[n - 1][s] = r[n][s]}
<1>8. 0 \in Good
  BY <1>1
<1>9. ASSUME NEW n \in 1 .. N, n - 1 \in Good PROVE n \in Good
  <2>1. ASSUME NEW s \in SUBSET S, Cardinality(s) < n PROVE r[n - 1][s] = r[n][s]
    <3>1. CASE s = {}
      <4>1. r[n][s] = 0
        BY <1>7, <3>1 DEF Next1
      <4>2. CASE n = 1
        BY <1>6, <4>1, <4>2 DEF first
      <4>3. CASE n # 1
        <5>1. n - 1 \in 1 .. N
          BY <1>1, <4>3
        <5> QED
          BY <1>7, <3>1, <4>1, <5>1 DEF Next1
      <4> QED
        BY <4>2, <4>3
    <3>2. CASE s # {}
      <4> DEFINE t == s \ {Some(s)}
      <4>1. t \in SUBSET S /\ Cardinality(t) = Cardinality(s) - 1 /\ Cardinality(s) \in Nat
            /\ Cardinality(s) # 0
        BY <1>2, <3>2
      <4>2. n - 1 \in 1 .. N /\ Cardinality(t) < n - 1
        BY <1>1, <2>1, <4>1
      <4>3. r[n - 1 - 1][t] = r[n - 1][t]
        BY <1>9, <4>1, <4>2
      <4>4. r[n - 1][s] = f[Some(s)] + r[n - 1 - 1][t]
        BY <1>7, <3>2, <4>2 DEF Next1
      <4>5. r[n][s] = f[Some(s)] + r[n - 1][t]
        BY <1>7, <3>2 DEF Next1
      <4> QED
        BY <4>3, <4>4, <4>5
    <3> QED
      BY <3>1, <3>2
  <2> QED
    BY <1>1, <2>1
<1>10. Good = 0 .. N
  <2>1. Good \in SUBSET (0 .. N)
    OBVIOUS
  <2> HIDE DEF Good
  <2> QED
    BY <1>1, <1>8, <1>9, <2>1, Counted
<1> DEFINE h == r[N]
<1>11. h \in D
  <2>1. N \in 0 .. N
    BY <1>1
  <2> HIDE DEF D
  <2> QED
    BY <1>6, <2>1
<1>12. ASSUME NEW s \in SUBSET S
       PROVE  h[s] = IF s = {} THEN 0 ELSE f[Some(s)] + h[s \ {Some(s)}]
  <2>1. CASE N = 0
    <3>2. Cardinality(s) \in Nat /\ Cardinality(s) <= N /\ (Cardinality(s) = 0 <=> s = {})
      BY <1>2
    <3>1. s = {}
      BY <2>1, <3>2
    <3> QED
      BY <1>6, <2>1, <3>1 DEF first
  <2>2. CASE N # 0
    <3>5. N \in 1 .. N /\ N \in 0 .. N
      BY <1>1, <2>2
    <3>1. N \in 1 .. N /\ N \in Good
      <4> HIDE DEF Good
      <4> QED
        BY <1>10, <3>5
    <3>2. CASE s = {}
      BY <1>7, <3>1, <3>2 DEF Next1
    <3>3. CASE s # {}
      <4> DEFINE t == s \ {Some(s)}
      <4>4. /\ t \in SUBSET S /\ Cardinality(t) = Cardinality(s) - 1
            /\ Cardinality(s) \in Nat /\ Cardinality(s) <= N
        BY <1>2, <3>3
      <4> HIDE DEF t
      <4>1. t \in SUBSET S /\ Cardinality(t) < N
        BY <1>1, <4>4
      <4> USE DEF t
      <4>2. r[N - 1][t] = r[N][t]
        BY <2>2, <3>1, <4>1
      <4>3. r[N][s] = f[Some(s)] + r[N - 1][t]
        BY <1>7, <3>1, <3>3 DEF Next1
      <4> QED
        BY <3>3, <4>2, <4>3
    <3> QED
      BY <3>2, <3>3
  <2> QED
    BY <2>1, <2>2
<1>13. Sums(f, S, h)
  <2> HIDE DEF h
  <2>1. h = [s \in SUBSET S |-> h[s]]
    BY <1>11
  <2> QED
    BY <1>12, <2>1 DEF Sums
<1> QED
  BY <1>11, <1>13

\* The sum of some numbers.
LEMMA SumIs ==
  ASSUME NEW S, IsFiniteSet(S), NEW f, \A i \in S : f[i] \in Int, NEW T \in SUBSET S
  PROVE  /\ SumFunctionOnSet(f, T) \in Int
         /\ T = {} => SumFunctionOnSet(f, T) = 0
         /\ T # {} => SumFunctionOnSet(f, T) = f[Some(T)] + SumFunctionOnSet(f, T \ {Some(T)})
<1>1. PICK h \in [SUBSET S -> Int] : Sums(f, S, h)
  BY SumsExist
<1>2. ASSUME NEW U \in SUBSET S PROVE SumFunctionOnSet(f, U) = h[U]
  <2> DEFINE k == CHOOSE k : Sums(f, U, k)
  <2>1. IsFiniteSet(U) /\ \A i \in U : f[i] \in Int
    BY FS_Subset
  <2>2. \E e \in [SUBSET U -> Int] : Sums(f, U, e)
    BY <2>1, SumsExist
  <2>3. Sums(f, U, k)
    BY <2>2
  <2>4. SumFunctionOnSet(f, U) = k[U]
    BY SumFolds
  <2> HIDE DEF k
  <2> DEFINE Good == {s \in SUBSET U : k[s] = h[s]}
  <2>5. {} \in Good
    BY <1>1, <2>3 DEF Sums
  <2>6. ASSUME NEW s \in SUBSET U, s # {}, \A x \in s : s \ {x} \in Good PROVE s \in Good
    <3>1. Some(s) \in s
      BY <2>6 DEF Some
    <3>2. s \ {Some(s)} \in Good
      BY <2>6, <3>1
    <3>3. s \in SUBSET S
      OBVIOUS
    <3>4. k[s] = f[Some(s)] + k[s \ {Some(s)}]
      BY <2>3, <2>6 DEF Sums
    <3>5. h[s] = f[Some(s)] + h[s \ {Some(s)}]
      BY <1>1, <2>6, <3>3 DEF Sums
    <3> QED
      BY <3>2, <3>4, <3>5
  <2>7. Good = SUBSET U
    <3>1. Good \in SUBSET SUBSET U
      OBVIOUS
    <3> HIDE DEF Good
    <3> QED
      BY <2>1, <2>5, <2>6, <3>1, Every
  <2>8. U \in Good
    BY <2>7
  <2> QED
    BY <2>4, <2>8
<1>3. T # {} => Some(T) \in T /\ T \ {Some(T)} \in SUBSET S
  BY DEF Some
<1>4. h[T] \in Int /\ h[T] = IF T = {} THEN 0 ELSE f[Some(T)] + h[T \ {Some(T)}]
  BY <1>1 DEF Sums
<1> QED
  BY <1>2, <1>3, <1>4

\* Whichever is taken first.
LEMMA SumOne ==
  ASSUME NEW S, IsFiniteSet(S), NEW f, \A i \in S : f[i] \in Int, NEW x \in S
  PROVE  /\ SumFunctionOnSet(f, S) = f[x] + SumFunctionOnSet(f, S \ {x})
         /\ SumFunctionOnSet(f, S) \in Int /\ SumFunctionOnSet(f, S \ {x}) \in Int
<1> DEFINE Sum(T) == SumFunctionOnSet(f, T)
           Good == {T \in SUBSET S : \A y \in T : Sum(T) = f[y] + Sum(T \ {y})}
<1>1. ASSUME NEW T \in SUBSET S
      PROVE  /\ Sum(T) \in Int
             /\ T # {} => Sum(T) = f[Some(T)] + Sum(T \ {Some(T)}) /\ Some(T) \in T
  BY SumIs DEF Some
<1> HIDE DEF Sum
<1>2. {} \in Good
  OBVIOUS
<1>3. ASSUME NEW s \in SUBSET S, s # {}, \A y \in s : s \ {y} \in Good PROVE s \in Good
  <2> SUFFICES ASSUME NEW y \in s PROVE Sum(s) = f[y] + Sum(s \ {y})
    OBVIOUS
  <2> DEFINE c == Some(s)
  <2>1. Sum(s) = f[c] + Sum(s \ {c}) /\ c \in s
    BY <1>1, <1>3
  <2> HIDE DEF c
  <2>2. CASE y = c
    BY <2>1, <2>2
  <2>3. CASE y # c
    <3>1. s \ {c} \in Good /\ s \ {y} \in Good /\ y \in s \ {c} /\ c \in s \ {y}
      BY <1>3, <2>1, <2>3
    <3>2. (s \ {c}) \ {y} = (s \ {y}) \ {c}
      OBVIOUS
    <3>3. Sum(s \ {c}) = f[y] + Sum((s \ {c}) \ {y}) /\ Sum(s \ {y}) = f[c] + Sum((s \ {y}) \ {c})
      BY <3>1
    <3> DEFINE z == Sum((s \ {y}) \ {c})
               a == f[y]
               b == f[c]
    <3>4. z \in Int /\ a \in Int /\ b \in Int
      BY <1>1, <2>1
    <3>5. Sum(s) = b + Sum(s \ {c}) /\ Sum(s \ {c}) = a + z /\ Sum(s \ {y}) = b + z
      BY <2>1, <3>2, <3>3
    <3> HIDE DEF a, b, z
    <3>6. Sum(s) = a + Sum(s \ {y})
      BY <3>4, <3>5
    <3> QED
      BY <3>6 DEF a
  <2> QED
    BY <2>2, <2>3
<1>4. Good = SUBSET S
  <2>1. Good \in SUBSET SUBSET S
    OBVIOUS
  <2> HIDE DEF Good
  <2> QED
    BY <1>2, <1>3, <2>1, Every
<1>5. S \in Good /\ S \ {x} \in SUBSET S
  BY <1>4
<1> QED
  BY <1>1, <1>5 DEF Sum

\* Some numbers and their squares; and what is linear in them.
Squares(S, f, q)         == \A i \in S : f[i] \in Int /\ q[i] = f[i] * f[i]
Linear(S, f, q, a, b, c, l) == \A i \in S : l[i] = a * q[i] + b * f[i] + c

\* The sum of what is linear in some numbers and their squares.
LEMMA SumLinear ==
  ASSUME NEW S, IsFiniteSet(S), NEW f, NEW q, Squares(S, f, q),
         NEW a \in Int, NEW b \in Int, NEW c \in Int, NEW l, Linear(S, f, q, a, b, c, l)
  PROVE  /\ SumFunctionOnSet(f, S) \in Int /\ SumFunctionOnSet(q, S) \in Int
         /\ SumFunctionOnSet(l, S) = a * SumFunctionOnSet(q, S) + b * SumFunctionOnSet(f, S)
                                       + c * Cardinality(S)
<1> DEFINE F(T) == SumFunctionOnSet(f, T)
           Q(T) == SumFunctionOnSet(q, T)
           L(T) == SumFunctionOnSet(l, T)
           Good == {T \in SUBSET S : L(T) = a * Q(T) + b * F(T) + c * Cardinality(T)}
<1>1. ASSUME NEW i \in S PROVE f[i] \in Int /\ q[i] \in Int /\ l[i] \in Int
  <2> DEFINE x == f[i]
  <2>1. x \in Int /\ q[i] = x * x /\ l[i] = a * q[i] + b * x + c
    BY DEF Squares, Linear
  <2> HIDE DEF x
  <2>2. x * x \in Int
    BY <2>1
  <2>3. a * q[i] \in Int /\ b * x \in Int
    BY <2>1, <2>2
  <2> QED
    BY <2>1, <2>2, <2>3 DEF x
<1>2. ASSUME NEW T \in SUBSET S
      PROVE  /\ F(T) \in Int /\ Q(T) \in Int /\ L(T) \in Int /\ Cardinality(T) \in Nat
             /\ T = {} => F(T) = 0 /\ Q(T) = 0 /\ L(T) = 0 /\ Cardinality(T) = 0
  <2>1. Cardinality(T) \in Nat
    BY FS_Subset, FS_CardinalityType
  <2>2. F(T) \in Int /\ (T = {} => F(T) = 0)
    BY <1>1, SumIs
  <2>3. Q(T) \in Int /\ (T = {} => Q(T) = 0)
    BY <1>1, SumIs
  <2>4. L(T) \in Int /\ (T = {} => L(T) = 0)
    BY <1>1, SumIs
  <2> QED
    BY <2>1, <2>2, <2>3, <2>4, FS_EmptySet
<1>3. ASSUME NEW T \in SUBSET S, NEW x \in T
      PROVE  /\ F(T) = f[x] + F(T \ {x}) /\ Q(T) = q[x] + Q(T \ {x}) /\ L(T) = l[x] + L(T \ {x})
             /\ Cardinality(T) = 1 + Cardinality(T \ {x})
  <2>1. IsFiniteSet(T) /\ \A i \in T : f[i] \in Int /\ q[i] \in Int /\ l[i] \in Int
    BY <1>1, FS_Subset
  <2>2. Cardinality(T \ {x}) = Cardinality(T) - 1 /\ Cardinality(T) \in Nat
    BY <1>2, <2>1, FS_RemoveElement
  <2>3. Cardinality(T) = 1 + Cardinality(T \ {x})
    BY <2>2
  <2> QED
    BY <2>1, <2>3, SumOne
<1> HIDE DEF F, Q, L
<1>4. {} \in Good
  BY <1>2
<1>5. ASSUME NEW s \in SUBSET S, s # {}, \A y \in s : s \ {y} \in Good PROVE s \in Good
  <2>1. PICK x \in s : TRUE
    BY <1>5
  <2> DEFINE t  == s \ {x}
             n  == Cardinality(t)
             ft == F(t)
             qt == Q(t)
             xf == f[x]
             xq == q[x]
  <2>2. t \in Good /\ t \in SUBSET S
    BY <1>5
  <2>3. L(t) = a * qt + b * ft + c * n /\ qt \in Int /\ ft \in Int /\ n \in Int
    BY <1>2, <2>2
  <2>4. l[x] = a * xq + b * xf + c /\ xf \in Int /\ xq \in Int
    BY <1>1 DEF Linear
  <2>5. F(s) = xf + ft /\ Q(s) = xq + qt /\ L(s) = l[x] + L(t) /\ Cardinality(s) = 1 + n
    BY <1>3
  <2> HIDE DEF t, n, ft, qt, xf, xq
  <2>6. /\ a * (xq + qt) = a * xq + a * qt /\ b * (xf + ft) = b * xf + b * ft
        /\ c * (1 + n) = c + c * n
        /\ a * xq \in Int /\ a * qt \in Int /\ b * xf \in Int /\ b * ft \in Int /\ c * n \in Int
    BY <2>3, <2>4
  <2>7. L(s) = a * Q(s) + b * F(s) + c * Cardinality(s)
    BY <2>3, <2>4, <2>5, <2>6
  <2> QED
    BY <2>7
<1>6. Good = SUBSET S
  <2>1. Good \in SUBSET SUBSET S
    OBVIOUS
  <2> HIDE DEF Good
  <2> QED
    BY <1>4, <1>5, <2>1, Every
<1>7. S \in Good
  BY <1>6
<1> QED
  BY <1>2, <1>7 DEF F, Q, L

\* Two disjoint parts.
LEMMA SumParts ==
  ASSUME NEW S, IsFiniteSet(S), NEW f, \A i \in S : f[i] \in Int, NEW T \in SUBSET S
  PROVE  /\ SumFunctionOnSet(f, S) = SumFunctionOnSet(f, T) + SumFunctionOnSet(f, S \ T)
         /\ SumFunctionOnSet(f, T) \in Int /\ SumFunctionOnSet(f, S \ T) \in Int
<1> DEFINE F(U) == SumFunctionOnSet(f, U)
           Good == {U \in SUBSET S : F(U) = F(U \cap T) + F(U \ T)}
<1>1. ASSUME NEW U \in SUBSET S PROVE F(U) \in Int /\ (U = {} => F(U) = 0)
  BY SumIs
<1>2. ASSUME NEW U \in SUBSET S, NEW x \in U PROVE F(U) = f[x] + F(U \ {x})
  <2>1. IsFiniteSet(U) /\ \A i \in U : f[i] \in Int
    BY FS_Subset
  <2> QED
    BY <2>1, SumOne
<1> HIDE DEF F
<1>3. {} \in Good
  <2>1. F({}) = 0 /\ {} \cap T = {} /\ {} \ T = {}
    BY <1>1
  <2>2. F({}) = F({} \cap T) + F({} \ T)
    BY <2>1
  <2> QED
    BY <2>2
<1>4. ASSUME NEW s \in SUBSET S, s # {}, \A y \in s : s \ {y} \in Good PROVE s \in Good
  <2>1. PICK x \in s : TRUE
    BY <1>4
  <2>2. s \ {x} \in Good /\ s \ {x} \in SUBSET S /\ f[x] \in Int
    BY <1>4
  <2> DEFINE a == s \cap T
             b == s \ T
             v == f[x]
  <2>3. a \in SUBSET S /\ b \in SUBSET S
    OBVIOUS
  <2>4. F(s) = v + F(s \ {x})
    BY <1>2
  <2>5. F(s \ {x}) = F((s \ {x}) \cap T) + F((s \ {x}) \ T)
    BY <2>2
  <2>6. CASE x \in T
    <3>1. (s \ {x}) \cap T = a \ {x} /\ (s \ {x}) \ T = b /\ x \in a
      BY <2>6
    <3>2. F(a) = v + F(a \ {x}) /\ F(a \ {x}) \in Int /\ F(b) \in Int /\ v \in Int
      BY <1>1, <1>2, <2>2, <2>3, <3>1
    <3>3. F(s) = v + (F(a \ {x}) + F(b))
      BY <2>4, <2>5, <3>1
    <3> HIDE DEF a, b, v
    <3>4. F(s) = F(a) + F(b)
      BY <3>2, <3>3
    <3> QED
      BY <3>4 DEF a, b
  <2>7. CASE x \notin T
    <3>1. (s \ {x}) \ T = b \ {x} /\ (s \ {x}) \cap T = a /\ x \in b
      BY <2>7
    <3>2. F(b) = v + F(b \ {x}) /\ F(b \ {x}) \in Int /\ F(a) \in Int /\ v \in Int
      BY <1>1, <1>2, <2>2, <2>3, <3>1
    <3>3. F(s) = v + (F(a) + F(b \ {x}))
      BY <2>4, <2>5, <3>1
    <3> HIDE DEF a, b, v
    <3>4. F(s) = F(a) + F(b)
      BY <3>2, <3>3
    <3> QED
      BY <3>4 DEF a, b
  <2> QED
    BY <2>6, <2>7
<1>5. Good = SUBSET S
  <2>1. Good \in SUBSET SUBSET S
    OBVIOUS
  <2> HIDE DEF Good
  <2> QED
    BY <1>3, <1>4, <2>1, Every
<1>6. S \in Good /\ S \cap T = T /\ S \ T \in SUBSET S
  BY <1>5
<1>7. F(S) = F(S \cap T) + F(S \ T)
  BY <1>6
<1> QED
  BY <1>1, <1>6, <1>7 DEF F

\* A remainder weighs less than the whole.
LEMMA RestIs ==
  ASSUME NEW b \in Nat \ {0}, NEW d \in Nat \ {0}, NEW r \in 0 .. b - 1
  PROVE  r * d \in Nat /\ r * d < b * d /\ b * d \in Nat \ {0}
  OBVIOUS

\* What is one more weighs more than any remainders.
LEMMA MoreWhole ==
  ASSUME NEW p \in Nat, NEW u \in Nat, p > u, NEW e \in Nat \ {0}, NEW r \in Nat, NEW v \in Nat,
         v < e
  PROVE  p * e + r > u * e + v
<1>1. p = (p - u) + u /\ p - u \in Nat \ {0}
  OBVIOUS
<1> DEFINE k == p - u
<1>2. k \in Nat \ {0} /\ p = k + u
  BY <1>1
<1> HIDE DEF k
<1>3. p * e = k * e + u * e /\ k * e >= e /\ u * e \in Nat
  BY <1>2
<1> QED
  BY <1>3

\* Which of two fractions is more, without the products of the whole.
LEMMA MoreThanIs ==
  ASSUME NEW a \in Nat, NEW b \in Nat \ {0}, NEW c \in Nat, NEW d \in Nat \ {0}
  PROVE  MoreThan(a, b, c, d) <=> a * d > c * b
<1> DEFINE p == a \div b
           r == a % b
           u == c \div d
           v == c % d
           e == b * d
<1>1. r \in 0 .. b - 1 /\ p \in Nat /\ a = p * b + r
  BY RowOf
<1>2. v \in 0 .. d - 1 /\ u \in Nat /\ c = u * d + v
  BY RowOf
<1>3. MoreThan(a, b, c, d) <=> p > u \/ (p = u /\ r * d > v * b)
  BY DEF MoreThan
<1> HIDE DEF p, r, u, v
<1>4. r * d \in Nat /\ r * d < e /\ e \in Nat \ {0}
  BY <1>1, RestIs
<1>5. v * b \in Nat /\ v * b < e
  <2>1. d * b = e
    OBVIOUS
  <2> QED
    BY <1>2, <2>1, RestIs
<1>6. a * d = p * e + r * d
  BY <1>1
<1>7. c * b = u * e + v * b
  BY <1>2
<1> DEFINE x == r * d
           y == v * b
           ad == a * d
           cb == c * b
<1>8. /\ x \in Nat /\ y \in Nat /\ x < e /\ y < e /\ e \in Nat \ {0} /\ p \in Nat /\ u \in Nat
      /\ ad = p * e + x /\ cb = u * e + y
  BY <1>1, <1>2, <1>4, <1>5, <1>6, <1>7
<1>9. MoreThan(a, b, c, d) <=> p > u \/ (p = u /\ x > y)
  BY <1>3
<1> HIDE DEF x, y, ad, cb, e
<1>10. p * e \in Nat /\ u * e \in Nat
  BY <1>8
<1>11. CASE p > u
  <2>1. ad > cb
    BY <1>8, <1>11, MoreWhole
  <2> QED
    BY <1>9, <1>11, <2>1 DEF ad, cb
<1>12. CASE p = u
  <2>1. p * e = u * e
    BY <1>12
  <2> DEFINE z == p * e
  <2>2. ad = z + x /\ cb = z + y /\ z \in Nat
    BY <1>8, <1>10, <2>1
  <2> HIDE DEF z
  <2>3. ad > cb <=> x > y
    BY <1>8, <2>2
  <2> QED
    BY <1>8, <1>9, <1>12, <2>3 DEF ad, cb
<1>13. CASE u > p
  <2>1. cb > ad
    BY <1>8, <1>13, MoreWhole
  <2>2. ~ ad > cb
    BY <1>8, <1>10, <2>1
  <2> QED
    BY <1>8, <1>9, <1>13, <2>2 DEF ad, cb
<1>14. p > u \/ p = u \/ u > p
  BY <1>8
<1> QED
  BY <1>11, <1>12, <1>13, <1>14 DEF ad, cb

\* The first is more than nothing.
LEMMA MoreThanNone ==
  ASSUME NEW a \in Nat, NEW b \in Nat \ {0}
  PROVE  MoreThan(a, b, -1, 1)
<1>1. a \div b \in Nat
  BY RowOf
<1>2. (-1) \div 1 = -1
  OBVIOUS
<1>3. a \div b > (-1) \div 1
  BY <1>1, <1>2
<1> QED
  BY <1>3 DEF MoreThan

\* Fractions are in an order.
LEMMA AsMuch ==
  ASSUME NEW dx \in Nat, NEW wx \in Nat \ {0}, NEW du \in Nat, NEW wu \in Nat \ {0},
         NEW dy \in Nat, NEW wy \in Nat \ {0},
         dy * wu <= du * wy, du * wx <= dx * wu
  PROVE  dy * wx <= dx * wy
<1>1. (dy * wu) * wx <= (du * wy) * wx
  <2> DEFINE a == dy * wu
             b == du * wy
  <2>1. a <= b /\ a \in Nat /\ b \in Nat
    OBVIOUS
  <2> HIDE DEF a, b
  <2>2. a * wx <= b * wx
    BY <2>1
  <2> QED
    BY <2>2 DEF a, b
<1>2. (du * wx) * wy <= (dx * wu) * wy
  <2> DEFINE a == du * wx
             b == dx * wu
  <2>1. a <= b /\ a \in Nat /\ b \in Nat
    OBVIOUS
  <2> HIDE DEF a, b
  <2>2. a * wy <= b * wy
    BY <2>1
  <2> QED
    BY <2>2 DEF a, b
<1>3. (du * wy) * wx = (du * wx) * wy
  OBVIOUS
<1>4. (dy * wu) * wx = (dy * wx) * wu /\ (dx * wu) * wy = (dx * wy) * wu
  OBVIOUS
<1> DEFINE p == dy * wx
           q == dx * wy
           m == (du * wy) * wx
<1>5. p \in Nat /\ q \in Nat /\ m \in Int /\ p * wu <= m /\ m <= q * wu
  BY <1>1, <1>2, <1>3, <1>4
<1> HIDE DEF p, q, m
<1>6. p * wu <= q * wu
  <2>1. p * wu \in Int /\ q * wu \in Int
    BY <1>5
  <2> QED
    BY <1>5, <2>1
<1>7. ASSUME p > q PROVE FALSE
  <2>1. p >= q + 1
    BY <1>5, <1>7
  <2>2. p * wu >= (q + 1) * wu
    BY <1>5, <2>1
  <2>3. (q + 1) * wu = q * wu + wu
    BY <1>5
  <2>4. p * wu \in Int /\ q * wu \in Int
    BY <1>5
  <2> QED
    BY <1>6, <2>2, <2>3, <2>4
<1>8. p <= q
  BY <1>5, <1>7
<1> QED
  BY <1>8 DEF p, q

-----------------------------------------------------------------------------
(* The threshold                                                           *)

\* The levels of some pixels, which are bytes.
GrayOK(gray) == IsFiniteSet(DOMAIN gray) /\ gray \in [DOMAIN gray -> 0 .. 255]
Levels(gray) == {gray[i] : i \in DOMAIN gray}

\* The levels below n with pixels on both sides.
Splits(gray, n) == {u \in Levels(gray) : u < n /\ Below(gray, u) # DOMAIN gray}

\* What the loop of otsuThreshold() starts with, and knows of the levels below n.
NoneYet == [variance |-> <<-1, 1>>, best |-> 0]
Sharpest(gray, s, n) ==
  IF Splits(gray, n) = {} THEN s = NoneYet
  ELSE \E u \in Splits(gray, n) :
         /\ s = [variance |-> Between(gray, u), best |-> u + 1]
         /\ \A x \in Splits(gray, n) :
              Between(gray, x)[1] * Between(gray, u)[2] <= Between(gray, u)[1] * Between(gray, x)[2]

\* Two sums that make the whole.
LEMMA ClassesAre ==
  ASSUME NEW gray, GrayOK(gray), NEW low \in SUBSET DOMAIN gray
  PROVE  LET high == DOMAIN gray \ low
         IN  /\ Cardinality(low) \in Nat /\ Cardinality(high) \in Nat
             /\ (Cardinality(low) = 0 <=> low = {}) /\ (Cardinality(high) = 0 <=> high = {})
             /\ LevelSum(gray, low) \in Int /\ LevelSum(gray, high) \in Int
<1> DEFINE P == DOMAIN gray
           high == P \ low
<1>1. IsFiniteSet(P) /\ \A i \in P : gray[i] \in Int
  BY DEF GrayOK
<1>2. low \in SUBSET P /\ high \in SUBSET P
  OBVIOUS
<1> HIDE DEF P, high
<1>3. IsFiniteSet(low) /\ IsFiniteSet(high)
  BY <1>1, <1>2, FS_Subset
<1>4. LevelSum(gray, low) \in Int /\ LevelSum(gray, high) \in Int
  BY <1>1, <1>2, SumIs DEF LevelSum
<1> QED
  BY <1>3, <1>4, FS_CardinalityType, FS_EmptySet DEF high, P

\* A variance is a fraction.
LEMMA BetweenIs ==
  ASSUME NEW gray, GrayOK(gray), NEW t \in Levels(gray), Below(gray, t) # DOMAIN gray
  PROVE  /\ Between(gray, t)[1] \in Nat /\ Between(gray, t)[2] \in Nat \ {0}
         /\ Between(gray, t) = <<Between(gray, t)[1], Between(gray, t)[2]>>
<1> DEFINE P == DOMAIN gray
           low == Below(gray, t)
           high == P \ low
           a == Cardinality(low)
           b == Cardinality(high)
           x == LevelSum(gray, low)
           y == LevelSum(gray, high)
           d == x * b - y * a
<1>1. low \in SUBSET P /\ low # {} /\ high # {}
  <2>1. PICK i \in P : gray[i] = t
    BY DEF Levels
  <2>2. gray[i] \in 0 .. 255
    BY DEF GrayOK
  <2>3. i \in low
    BY <2>1, <2>2 DEF Below
  <2> QED
    BY <2>3 DEF Below
<1>2. a \in Nat /\ b \in Nat /\ a # 0 /\ b # 0 /\ x \in Int /\ y \in Int
  BY <1>1, ClassesAre
<1>3. Between(gray, t) = <<d * d, a * b>>
  BY DEF Between
<1> HIDE DEF a, b, x, y
<1>4. d \in Int /\ a * b \in Nat \ {0}
  BY <1>2
<1> HIDE DEF d
<1>5. d * d \in Nat
  BY <1>4
<1> QED
  BY <1>3, <1>4, <1>5

\* The loop at a level that a pixel has.
LEMMA SharperIs ==
  ASSUME NEW gray, GrayOK(gray), NEW t \in Levels(gray), NEW s, Sharpest(gray, s, t)
  PROVE  Sharpest(gray, Sharper(gray, s, t), t + 1)
<1> DEFINE D(u) == Between(gray, u)[1]
           W(u) == Between(gray, u)[2]
           A == Splits(gray, t)
           B == Splits(gray, t + 1)
<1>1. Levels(gray) \in SUBSET (0 .. 255) /\ t \in 0 .. 255
  BY DEF Levels, GrayOK
<1>2. ASSUME NEW u \in B PROVE D(u) \in Nat /\ W(u) \in Nat \ {0}
  <2>1. u \in Levels(gray) /\ Below(gray, u) # DOMAIN gray
    BY DEF Splits
  <2> QED
    BY <2>1, BetweenIs
<1>3. CASE Below(gray, t) = DOMAIN gray
  <2>1. B = A
    BY <1>1, <1>3 DEF Splits
  <2>2. Sharper(gray, s, t) = s
    BY <1>3 DEF Sharper
  <2> HIDE DEF D, W
  <2> QED
    BY <2>1, <2>2 DEF Sharpest
<1>4. CASE Below(gray, t) # DOMAIN gray
  <2> DEFINE v == Between(gray, t)
             new == [variance |-> v, best |-> t + 1]
  <2>1. B = A \cup {t}
    BY <1>1, <1>4 DEF Splits
  <2>2. t \in B
    BY <2>1
  <2>3. Sharper(gray, s, t) = IF MoreThan(D(t), W(t), s.variance[1], s.variance[2])
                              THEN new ELSE s
    BY <1>4 DEF Sharper
  <2>4. CASE A = {}
    <3>1. s = NoneYet
      BY <2>4 DEF Sharpest
    <3>2. s.variance[1] = -1 /\ s.variance[2] = 1
      BY <3>1 DEF NoneYet
    <3>3. MoreThan(D(t), W(t), -1, 1)
      BY <1>2, <2>2, MoreThanNone
    <3>4. Sharper(gray, s, t) = new
      BY <2>3, <3>2, <3>3
    <3>5. B = {t} /\ D(t) * W(t) <= D(t) * W(t)
      <4>1. D(t) * W(t) \in Nat
        BY <1>2, <2>2
      <4> QED
        BY <2>1, <2>4, <4>1
    <3> QED
      BY <3>4, <3>5 DEF Sharpest
  <2>5. CASE A # {}
    <3>1. PICK u \in A : /\ s = [variance |-> Between(gray, u), best |-> u + 1]
                         /\ \A x \in A : D(x) * W(u) <= D(u) * W(x)
      BY <2>5 DEF Sharpest
    <3>2. u \in B /\ s.variance[1] = D(u) /\ s.variance[2] = W(u)
      BY <2>1, <3>1
    <3>3. MoreThan(D(t), W(t), D(u), W(u)) <=> D(t) * W(u) > D(u) * W(t)
      BY <1>2, <2>2, <3>2, MoreThanIs
    <3> DEFINE p == D(t) * W(u)
               q == D(u) * W(t)
    <3>4. p \in Nat /\ q \in Nat
      BY <1>2, <2>2, <3>2
    <3>5. CASE p > q
      <4>1. Sharper(gray, s, t) = new
        BY <2>3, <3>2, <3>3, <3>5
      <4>2. ASSUME NEW x \in B PROVE D(x) * W(t) <= D(t) * W(x)
        <5>1. CASE x = t
          <6>1. D(t) * W(t) \in Nat
            BY <1>2, <2>2
          <6> QED
            BY <5>1, <6>1
        <5>2. CASE x \in A
          <6>1. D(x) * W(u) <= D(u) * W(x)
            BY <3>1, <5>2
          <6>2. q <= p
            BY <3>4, <3>5
          <6>3. /\ D(x) \in Nat /\ W(x) \in Nat \ {0} /\ D(u) \in Nat /\ W(u) \in Nat \ {0}
                /\ D(t) \in Nat /\ W(t) \in Nat \ {0}
            BY <1>2, <2>2, <3>2
          <6> HIDE DEF D, W
          <6> QED
            BY <6>1, <6>2, <6>3, AsMuch
        <5> QED
          BY <2>1, <5>1, <5>2
      <4> QED
        BY <2>2, <4>1, <4>2 DEF Sharpest
    <3>6. CASE ~ p > q
      <4>1. Sharper(gray, s, t) = s
        BY <2>3, <3>2, <3>3, <3>6
      <4>2. ASSUME NEW x \in B PROVE D(x) * W(u) <= D(u) * W(x)
        <5>1. CASE x = t
          BY <3>4, <3>6, <5>1
        <5>2. CASE x \in A
          BY <3>1, <5>2
        <5> QED
          BY <2>1, <5>1, <5>2
      <4> QED
        BY <3>1, <3>2, <4>1, <4>2 DEF Sharpest
    <3> QED
      BY <3>5, <3>6
  <2> QED
    BY <2>4, <2>5
<1> QED
  BY <1>3, <1>4

\* The greatest level.
LEMMA GreatestLevel ==
  ASSUME NEW S \in SUBSET (0 .. 255), S # {}
  PROVE  Max(S) \in S /\ \A y \in S : y <= Max(S)
<1> DEFINE n == 255
<1>1. n \in Nat /\ S \in SUBSET (0 .. n)
  OBVIOUS
<1> HIDE DEF n
<1> QED
  BY <1>1, GreatestOf

\* The levels of the loop below n, and the state after the last of them.
LEMMA OtsuIs ==
  ASSUME NEW gray, GrayOK(gray), Levels(gray) # {}
  PROVE  \E s : Sharpest(gray, s, 256) /\ OtsuThreshold(gray) = s.best
<1> DEFINE V == Levels(gray)
           S == [variance : Int \X Int, best : 0 .. 256]
           At2(h, n) == LET lower == {u \in V : u < n}
                        IN  IF lower = {} THEN NoneYet ELSE h[Max(lower) + 1]
           Round(f) == [t \in V |-> Sharper(gray, LET lower == {u \in V : u < t}
                                                 IN IF lower = {} THEN NoneYet
                                                    ELSE f[Max(lower)], t)]
           after == CHOOSE f : f = Round(f)
           Step(s, t) == IF t \in V THEN Sharper(gray, s, t) ELSE s
           G == [n \in 1 .. 256 |-> [s \in S |-> Step(s, n - 1)]]
<1>1. V \in SUBSET (0 .. 255) /\ V # {}
  BY DEF Levels, GrayOK
<1>2. NoneYet \in S
  BY DEF NoneYet
<1>3. ASSUME NEW s \in S, NEW t \in 0 .. 255 PROVE Step(s, t) \in S
  <2>1. CASE t \in V /\ Below(gray, t) # DOMAIN gray
    <3>1. Between(gray, t) \in Int \X Int
      BY <2>1, BetweenIs
    <3>2. t + 1 \in 0 .. 256
      OBVIOUS
    <3>3. [variance |-> Between(gray, t), best |-> t + 1] \in S
      BY <3>1, <3>2
    <3>4. Sharper(gray, s, t) \in {s, [variance |-> Between(gray, t), best |-> t + 1]}
      BY DEF Sharper
    <3> QED
      BY <3>3, <3>4
  <2>2. CASE t \in V /\ Below(gray, t) = DOMAIN gray
    BY <2>2 DEF Sharper
  <2>3. CASE t \notin V
    BY <2>3
  <2> QED
    BY <2>1, <2>2, <2>3
<1> HIDE DEF S, Step
<1>4. G \in [1 .. 256 -> [S -> S]]
  <2>1. ASSUME NEW n \in 1 .. 256, NEW s \in S PROVE Step(s, n - 1) \in S
    <3>1. n - 1 \in 0 .. 255
      OBVIOUS
    <3> QED
      BY <1>3, <3>1
  <2> QED
    BY <2>1
<1>5. PICK h \in [0 .. 256 -> S] : h[0] = NoneYet /\ \A n \in 1 .. 256 : h[n] = G[n][h[n - 1]]
  <2> HIDE DEF G
  <2>1. 256 \in Nat
    OBVIOUS
  <2>2. \E f \in [0 .. 256 -> S] : Runs(f, 256, NoneYet, G)
    BY <1>2, <1>4, <2>1, Loop
  <2> QED
    BY <2>2, Zenon DEF Runs
<1>6. ASSUME NEW n \in 1 .. 256
      PROVE  h[n] = IF n - 1 \in V THEN Sharper(gray, h[n - 1], n - 1) ELSE h[n - 1]
  <2>1. n - 1 \in 0 .. 256
    OBVIOUS
  <2>2. h[n - 1] \in S
    BY <2>1
  <2>3. h[n] = Step(h[n - 1], n - 1)
    BY <1>5, <2>2
  <2> QED
    BY <2>3 DEF Step
<1> HIDE DEF G
<1>7. ASSUME NEW n \in 0 .. 256, {u \in V : u < n} # {}
      PROVE  LET m == Max({u \in V : u < n})
             IN  m \in V /\ m < n /\ m + 1 \in 1 .. 256 /\ \A u \in V : u < n => u <= m
  <2> DEFINE L == {u \in V : u < n}
  <2>1. L \in SUBSET (0 .. 255) /\ L # {}
    BY <1>1, <1>7
  <2>2. \A u \in L : u \in V /\ u < n
    OBVIOUS
  <2>3. \A u \in V : u < n => u \in L
    OBVIOUS
  <2> DEFINE m == Max(L)
  <2> HIDE DEF L
  <2>4. m \in L /\ \A u \in L : u <= m
    BY <2>1, GreatestLevel
  <2> HIDE DEF m
  <2>5. m + 1 \in 1 .. 256
    BY <2>1, <2>4
  <2>6. m \in V /\ m < n /\ m + 1 \in 1 .. 256 /\ \A u \in V : u < n => u <= m
    BY <2>2, <2>3, <2>4, <2>5
  <2> QED
    BY <2>6 DEF m, L
<1> DEFINE Good == {n \in 0 .. 256 : h[n] = At2(h, n) /\ Sharpest(gray, h[n], n)}
<1>8. 0 \in Good
  <2>1. {u \in V : u < 0} = {}
    BY <1>1
  <2>2. Splits(gray, 0) = {}
    BY <2>1 DEF Splits
  <2> QED
    BY <1>5, <2>1, <2>2 DEF Sharpest
<1>9. ASSUME NEW n \in 1 .. 256, n - 1 \in Good PROVE n \in Good
  <2> DEFINE t == n - 1
             L == {u \in V : u < n}
             K == {u \in V : u < t}
  <2>1. t \in 0 .. 255 /\ n = t + 1 /\ n \in 0 .. 256
    OBVIOUS
  <2>2. h[t] = At2(h, t) /\ Sharpest(gray, h[t], t)
    BY <1>9
  <2>3. CASE t \in V
    <3>1. h[n] = Sharper(gray, h[t], t)
      BY <1>6, <2>3
    <3>2. Sharpest(gray, h[n], t + 1)
      BY <2>2, <2>3, <3>1, SharperIs
    <3>3. t \in L
      BY <2>1, <2>3
    <3>4. Max(L) \in V /\ Max(L) < n /\ t <= Max(L)
      BY <1>7, <2>1, <3>3
    <3> DEFINE m == Max(L)
    <3>5. m \in 0 .. 255 /\ m < n /\ t <= m
      BY <1>1, <3>4
    <3> HIDE DEF m
    <3>6. m = t
      BY <2>1, <3>5
    <3>7. At2(h, n) = h[n]
      BY <2>1, <3>3, <3>6 DEF m
    <3> QED
      BY <2>1, <3>2, <3>7
  <2>4. CASE t \notin V
    <3>1. h[n] = h[t]
      BY <1>6, <2>4
    <3>2. L = K
      BY <1>1, <2>1, <2>4
    <3>3. Splits(gray, n) = Splits(gray, t)
      BY <3>2 DEF Splits
    <3>4. Sharpest(gray, h[n], n)
      BY <2>2, <3>1, <3>3 DEF Sharpest
    <3>5. At2(h, n) = At2(h, t)
      BY <3>2
    <3> QED
      BY <2>1, <2>2, <3>1, <3>4, <3>5
  <2> QED
    BY <2>3, <2>4
<1>10. Good = 0 .. 256
  <2>1. Good \in SUBSET (0 .. 256)
    OBVIOUS
  <2>2. 256 \in Nat
    OBVIOUS
  <2> HIDE DEF Good
  <2> QED
    BY <1>8, <1>9, <2>1, <2>2, Counted
<1>11. ASSUME NEW n \in 0 .. 256 PROVE h[n] = At2(h, n) /\ Sharpest(gray, h[n], n)
  <2>1. n \in Good
    BY <1>10
  <2> QED
    BY <2>1
<1> HIDE DEF Good
<1> DEFINE g == [t \in V |-> h[t + 1]]
<1>12. g = Round(g)
  <2>1. ASSUME NEW t \in V
        PROVE  g[t] = Sharper(gray, LET lower == {u \in V : u < t}
                                    IN  IF lower = {} THEN NoneYet ELSE g[Max(lower)], t)
    <3> DEFINE K == {u \in V : u < t}
    <3>1. t \in 0 .. 255 /\ t + 1 \in 1 .. 256 /\ t + 1 - 1 = t /\ t \in 0 .. 256
      BY <1>1
    <3>2. h[t + 1] = Sharper(gray, h[t], t)
      BY <1>6, <3>1
    <3>3. h[t] = IF K = {} THEN NoneYet ELSE h[Max(K) + 1]
      BY <1>11, <3>1
    <3>4. K # {} => Max(K) \in V
      BY <1>7, <3>1
    <3>5. h[t] = IF K = {} THEN NoneYet ELSE g[Max(K)]
      BY <3>3, <3>4
    <3> QED
      BY <3>2, <3>5
  <2> HIDE DEF V
  <2> QED
    BY <2>1
<1>13. after = Round(after)
  <2> HIDE DEF Round, g
  <2> QED
    BY <1>12
<1>14. OtsuThreshold(gray) = after[Max(V)].best
  BY <1>1 DEF OtsuThreshold, NoneYet, Levels
<1> HIDE DEF after
<1> DEFINE Same == {n \in 0 .. 256 : \A t \in V : t < n => after[t] = h[t + 1]}
<1>15. 0 \in Same
  BY <1>1
<1>16. ASSUME NEW n \in 1 .. 256, n - 1 \in Same PROVE n \in Same
  <2> SUFFICES ASSUME NEW t \in V, t < n PROVE after[t] = h[t + 1]
    OBVIOUS
  <2> DEFINE K == {u \in V : u < t}
  <2>1. t \in 0 .. 255 /\ t + 1 \in 1 .. 256 /\ t + 1 - 1 = t /\ t \in 0 .. 256
    BY <1>1
  <2>2. h[t + 1] = Sharper(gray, h[t], t)
    BY <1>6, <2>1
  <2>3. h[t] = IF K = {} THEN NoneYet ELSE h[Max(K) + 1]
    BY <1>11, <2>1
  <2>4. after[t] = Sharper(gray, IF K = {} THEN NoneYet ELSE after[Max(K)], t)
    BY <1>13
  <2>5. ASSUME K # {} PROVE after[Max(K)] = h[Max(K) + 1]
    <3> DEFINE m == Max(K)
    <3>1. m \in V /\ m < t
      BY <1>7, <2>1, <2>5
    <3> HIDE DEF m
    <3>2. m < n - 1
      BY <1>1, <2>1, <3>1
    <3>3. after[m] = h[m + 1]
      BY <1>16, <3>1, <3>2
    <3> QED
      BY <3>3 DEF m
  <2> QED
    BY <2>2, <2>3, <2>4, <2>5
<1>17. Same = 0 .. 256
  <2>1. Same \in SUBSET (0 .. 256)
    OBVIOUS
  <2>2. 256 \in Nat
    OBVIOUS
  <2> HIDE DEF Same
  <2> QED
    BY <1>15, <1>16, <2>1, <2>2, Counted
<1> DEFINE m == Max(V)
<1>18. m \in V /\ \A u \in V : u <= m
  <2> HIDE DEF V
  <2> QED
    BY <1>1, GreatestLevel
<1> HIDE DEF m
<1>19. m \in 0 .. 255 /\ m + 1 \in 0 .. 256 /\ 256 \in Same
  <2>1. 256 \in Same
    <3> HIDE DEF Same
    <3> QED
      BY <1>17
  <2> QED
    BY <1>1, <1>18, <2>1
<1>20. after[m] = h[m + 1]
  BY <1>18, <1>19
<1>21. Sharpest(gray, h[m + 1], m + 1)
  BY <1>11, <1>19
<1>22. Splits(gray, m + 1) = Splits(gray, 256)
  <2>1. \A u \in V : u < m + 1 /\ u < 256
    BY <1>1, <1>18, <1>19
  <2> QED
    BY <2>1 DEF Splits
<1>23. Sharpest(gray, h[m + 1], 256)
  BY <1>21, <1>22 DEF Sharpest
<1> QED
  BY <1>14, <1>20, <1>23 DEF m

\* The squared differences between numbers, by their sum and that of their squares.
LEMMA SpreadIs ==
  ASSUME NEW gray, GrayOK(gray), NEW S \in SUBSET DOMAIN gray
  PROVE  LET q == [i \in DOMAIN gray |-> gray[i] * gray[i]]
             Q == SumFunctionOnSet(q, S)
             X == LevelSum(gray, S)
             n == Cardinality(S)
         IN  /\ Spread(gray, S) = 2 * (n * Q - X * X)
             /\ Q \in Int /\ X \in Int /\ n \in Nat
<1> DEFINE P == DOMAIN gray
           q == [i \in P |-> gray[i] * gray[i]]
           Q == SumFunctionOnSet(q, S)
           X == SumFunctionOnSet(gray, S)
           n == Cardinality(S)
           L(i) == [j \in S |-> (gray[i] - gray[j]) * (gray[i] - gray[j])]
           o == [i \in S |-> SumFunctionOnSet(L(i), S)]
<1>1. IsFiniteSet(S) /\ n \in Nat
  BY FS_Subset, FS_CardinalityType DEF GrayOK
<1>2. S \in SUBSET P /\ \A i \in S : gray[i] \in Int /\ q[i] = gray[i] * gray[i]
  BY DEF GrayOK
<1>9. Squares(S, gray, q)
  BY <1>2 DEF Squares
<1> HIDE DEF n, P, q
<1>3. Q \in Int /\ X \in Int
  <2> DEFINE z == [i \in S |-> 0 * q[i] + 0 * gray[i] + 0]
  <2>1. 0 \in Int /\ Linear(S, gray, q, 0, 0, 0, z)
    BY DEF Linear
  <2> HIDE DEF z
  <2> QED
    BY <1>1, <1>9, <2>1, SumLinear
<1> HIDE DEF Q, X
<1>4. ASSUME NEW i \in S PROVE o[i] = n * q[i] + (-2 * X) * gray[i] + Q
  <2> DEFINE v == gray[i]
             l == L(i)
             b == -2 * v
             c == v * v
  <2>1. v \in Int
    BY <1>2
  <2>2. 1 \in Int /\ b \in Int /\ c \in Int
    BY <2>1
  <2>3. ASSUME NEW j \in S PROVE l[j] = 1 * q[j] + b * gray[j] + c
    <3> DEFINE u == gray[j]
    <3>1. u \in Int /\ q[j] = u * u /\ l[j] = (v - u) * (v - u)
      BY <1>2
    <3> HIDE DEF u, v, l
    <3>2. (v - u) * (v - u) = u * u - 2 * (v * u) + v * v
      BY <2>1, <3>1
    <3>3. (-2 * v) * u = -2 * (v * u) /\ v * u \in Int /\ u * u \in Int
      BY <2>1, <3>1
    <3> QED
      BY <3>1, <3>2, <3>3, <2>2 DEF u
  <2>9. Linear(S, gray, q, 1, b, c, l)
    BY <2>3 DEF Linear
  <2> HIDE DEF l, b, c, v
  <2>4. SumFunctionOnSet(l, S) = 1 * SumFunctionOnSet(q, S) + b * SumFunctionOnSet(gray, S)
                                   + c * Cardinality(S)
    BY <1>1, <1>9, <2>2, <2>9, SumLinear
  <2>5. o[i] = 1 * Q + b * X + c * n
    BY <2>4 DEF l, Q, X, n
  <2>6. q[i] = v * v
    BY <1>2 DEF v
  <2> HIDE DEF o
  <2>7. b * X = (-2 * X) * v /\ c * n = n * (v * v) /\ 1 * Q = Q
        /\ (-2 * X) * v \in Int /\ n * (v * v) \in Int
    BY <1>1, <1>3, <2>1 DEF b, c
  <2>8. o[i] = n * q[i] + (-2 * X) * v + Q
    BY <1>3, <2>5, <2>6, <2>7
  <2> QED
    BY <2>8 DEF v
<1>5. Spread(gray, S) = SumFunctionOnSet(o, S)
  BY DEF Spread
<1> HIDE DEF o
<1>6. SumFunctionOnSet(o, S) = n * SumFunctionOnSet(q, S) + (-2 * X) * SumFunctionOnSet(gray, S)
                                 + Q * Cardinality(S)
  <2> DEFINE b == -2 * X
  <2>1. n \in Int /\ b \in Int /\ Q \in Int
    BY <1>1, <1>3
  <2>2. Linear(S, gray, q, n, b, Q, o)
    BY <1>4 DEF Linear
  <2> HIDE DEF b
  <2>3. SumFunctionOnSet(o, S) = n * SumFunctionOnSet(q, S) + b * SumFunctionOnSet(gray, S)
                                   + Q * Cardinality(S)
    BY <1>1, <1>9, <2>1, <2>2, SumLinear
  <2> QED
    BY <2>3 DEF b
<1>7. Spread(gray, S) = n * Q + (-2 * X) * X + Q * n
  BY <1>5, <1>6 DEF Q, X, n
<1>8. n * Q + (-2 * X) * X + Q * n = 2 * (n * Q - X * X)
  BY <1>1, <1>3
<1> QED
  BY <1>1, <1>3, <1>7, <1>8 DEF Q, X, n, q, P, LevelSum

\* What the classes differ by within and between makes the same whole.
LEMMA WithinBetween ==
  ASSUME NEW a \in Int, NEW b \in Int, NEW x \in Int, NEW y \in Int, NEW p \in Int, NEW q \in Int
  PROVE  (a + b) * (2 * (a * p - x * x) * b + 2 * (b * q - y * y) * a)
           = 2 * ((a * b) * ((a + b) * (p + q) - (x + y) * (x + y))
                    - (x * b - y * a) * (x * b - y * a))
  OBVIOUS

\* So the less within, the more between.
LEMMA LessWithin ==
  ASSUME NEW N \in Nat \ {0}, NEW K \in Int, NEW mt \in Int, NEW mu \in Int,
         NEW dt \in Nat, NEW du \in Nat, NEW wt \in Nat \ {0}, NEW wu \in Nat \ {0},
         N * mt = 2 * (wt * K - dt), N * mu = 2 * (wu * K - du),
         du * wt <= dt * wu
  PROVE  mt * wu <= mu * wt
<1> DEFINE l == mt * wu
           r == mu * wt
           k == (wt * wu) * K
<1>1. N * l = 2 * (k - dt * wu)
  <2>1. N * l = (N * mt) * wu
    OBVIOUS
  <2>2. (2 * (wt * K - dt)) * wu = 2 * (k - dt * wu)
    OBVIOUS
  <2> QED
    BY <2>1, <2>2
<1>2. N * r = 2 * (k - du * wt)
  <2>1. N * r = (N * mu) * wt
    OBVIOUS
  <2>2. (2 * (wu * K - du)) * wt = 2 * (k - du * wt)
    OBVIOUS
  <2> QED
    BY <2>1, <2>2
<1>3. l \in Int /\ r \in Int /\ k \in Int /\ dt * wu \in Int /\ du * wt \in Int
  OBVIOUS
<1> HIDE DEF l, r, k
<1>4. N * l <= N * r
  BY <1>1, <1>2, <1>3
<1>5. ASSUME l > r PROVE FALSE
  <2>1. l >= r + 1
    BY <1>3, <1>5
  <2>2. N * l >= N * (r + 1)
    BY <1>3, <2>1
  <2>3. N * (r + 1) = N * r + N /\ N * l \in Int /\ N * r \in Int
    BY <1>3
  <2> QED
    BY <1>4, <2>2, <2>3
<1>6. l <= r
  BY <1>3, <1>5
<1> QED
  BY <1>6 DEF l, r

\* The pixels, and the spread of all of them.
SpreadOfAll(gray) ==
  LET q == [i \in DOMAIN gray |-> gray[i] * gray[i]]
  IN  Cardinality(DOMAIN gray) * SumFunctionOnSet(q, DOMAIN gray)
        - LevelSum(gray, DOMAIN gray) * LevelSum(gray, DOMAIN gray)

\* What the two classes of a level differ by within.
LEMMA MixedIs ==
  ASSUME NEW gray, GrayOK(gray), NEW t \in Levels(gray)
  PROVE  LET low  == Below(gray, t)
             high == DOMAIN gray \ low
         IN  /\ Cardinality(DOMAIN gray) * Mixed(gray, low, high)
                  = 2 * (Between(gray, t)[2] * SpreadOfAll(gray) - Between(gray, t)[1])
             /\ Between(gray, t)[2] = Cardinality(low) * Cardinality(high)
             /\ Mixed(gray, low, high) \in Int /\ SpreadOfAll(gray) \in Int
<1> DEFINE P == DOMAIN gray
           low == Below(gray, t)
           high == P \ low
           sq == [i \in P |-> gray[i] * gray[i]]
           a == Cardinality(low)
           b == Cardinality(high)
           x == LevelSum(gray, low)
           y == LevelSum(gray, high)
           p == SumFunctionOnSet(sq, low)
           q == SumFunctionOnSet(sq, high)
<1>1. IsFiniteSet(P) /\ \A i \in P : gray[i] \in Int
  BY DEF GrayOK
<1>2. low \in SUBSET P /\ high \in SUBSET P
  BY DEF Below
<1>3. Spread(gray, low) = 2 * (a * p - x * x) /\ p \in Int /\ x \in Int /\ a \in Nat
  BY <1>2, SpreadIs
<1>4. Spread(gray, high) = 2 * (b * q - y * y) /\ q \in Int /\ y \in Int /\ b \in Nat
  BY <1>2, SpreadIs
<1>5. LevelSum(gray, P) = x + y
  BY <1>1, <1>2, SumParts DEF LevelSum
<1>6. SumFunctionOnSet(sq, P) = p + q
  <2>1. ASSUME NEW i \in P PROVE sq[i] \in Int
    BY <1>1
  <2> HIDE DEF sq
  <2> QED
    BY <1>1, <1>2, <2>1, SumParts
<1>7. Cardinality(P) = a + b
  <2>1. IsFiniteSet(low) /\ IsFiniteSet(high) /\ low \cap high = {} /\ low \cup high = P
    BY <1>1, <1>2, FS_Subset
  <2> HIDE DEF low, high, P
  <2>2. Cardinality(P) = a + b - Cardinality(low \cap high)
    BY <2>1, FS_Union
  <2>3. Cardinality(low \cap high) = 0
    BY <2>1, FS_EmptySet
  <2>4. a \in Int /\ b \in Int
    BY <2>1, FS_CardinalityType
  <2> QED
    BY <2>2, <2>3, <2>4
<1>8. Between(gray, t) = <<(x * b - y * a) * (x * b - y * a), a * b>>
  BY DEF Between
<1>9. SpreadOfAll(gray) = (a + b) * (p + q) - (x + y) * (x + y)
  BY <1>5, <1>6, <1>7 DEF SpreadOfAll
<1>10. Mixed(gray, low, high) = 2 * (a * p - x * x) * b + 2 * (b * q - y * y) * a
  BY <1>3, <1>4 DEF Mixed
<1> DEFINE m == Mixed(gray, low, high)
           k == SpreadOfAll(gray)
<1> HIDE DEF low, high, a, b, x, y, p, q, sq, P, m, k
<1>11. m = 2 * (a * p - x * x) * b + 2 * (b * q - y * y) * a
  BY <1>10 DEF m
<1>12. k = (a + b) * (p + q) - (x + y) * (x + y)
  BY <1>9 DEF k
<1>13. (a + b) * m = 2 * ((a * b) * k - (x * b - y * a) * (x * b - y * a))
  BY <1>3, <1>4, <1>11, <1>12, WithinBetween
<1>14. m \in Int /\ k \in Int
  BY <1>3, <1>4, <1>11, <1>12
<1>15. Between(gray, t)[1] = (x * b - y * a) * (x * b - y * a) /\ Between(gray, t)[2] = a * b
  BY <1>8
<1> QED
  BY <1>7, <1>13, <1>14, <1>15 DEF m, k, a, b, low, high, P

\* A bound with pixels on both sides parts them as a level does.
LEMMA SplitOf ==
  ASSUME NEW gray, GrayOK(gray), NEW u \in 0 .. 256,
         {i \in DOMAIN gray : gray[i] < u} \notin {{}, DOMAIN gray}
  PROVE  \E x \in Splits(gray, 256) : {i \in DOMAIN gray : gray[i] < u} = Below(gray, x)
<1> DEFINE low == {i \in DOMAIN gray : gray[i] < u}
           L == {v \in Levels(gray) : v < u}
           x == Max(L)
<1>1. \A i \in DOMAIN gray : gray[i] \in 0 .. 255 /\ gray[i] \in Levels(gray)
  BY DEF GrayOK, Levels
<1>2. L \in SUBSET (0 .. 255) /\ L # {}
  <2>1. L \in SUBSET (0 .. 255)
    BY <1>1 DEF Levels
  <2> QED
    BY <1>1, <2>1
<1>3. x \in L /\ \A v \in L : v <= x
  <2> HIDE DEF L
  <2> QED
    BY <1>2, GreatestLevel
<1> HIDE DEF x
<1>4. ASSUME NEW i \in DOMAIN gray PROVE gray[i] < u <=> gray[i] <= x
  <2>1. gray[i] < u => gray[i] \in L
    BY <1>1
  <2> QED
    BY <1>1, <1>2, <1>3, <2>1
<1>5. low = Below(gray, x)
  BY <1>4 DEF Below
<1>6. x \in Splits(gray, 256)
  BY <1>2, <1>3, <1>5 DEF Splits
<1> QED
  BY <1>5, <1>6

\* The threshold separates the levels so that they differ least within the two classes, and
\* a uniform frame has no dark pixel, for every frame of bytes.
THEOREM ThresholdIsRight ==
  ASSUME NEW gray, GrayOK(gray)
  PROVE  OtsuRight(gray)
<1> DEFINE P == DOMAIN gray
           t == OtsuThreshold(gray)
           low(u) == {i \in P : gray[i] < u}
           high(u) == P \ low(u)
           size(u) == Cardinality(low(u)) * Cardinality(high(u))
           mixed(u) == Mixed(gray, low(u), high(u))
<1>1. \A i \in P : gray[i] \in 0 .. 255 /\ gray[i] \in Levels(gray)
  BY DEF GrayOK, Levels
<1>2. ASSUME NEW u PROVE size(u) # 0 <=> low(u) \notin {{}, P}
  <2> DEFINE a == Cardinality(low(u))
             b == Cardinality(high(u))
  <2>1. /\ a \in Nat /\ b \in Nat /\ (a = 0 <=> low(u) = {}) /\ (b = 0 <=> high(u) = {})
    BY ClassesAre
  <2>2. high(u) = {} <=> low(u) = P
    OBVIOUS
  <2> HIDE DEF a, b
  <2>3. a * b # 0 <=> a # 0 /\ b # 0
    BY <2>1
  <2> QED
    BY <2>1, <2>2, <2>3 DEF a, b
<1>3. CASE \A i, j \in P : gray[i] = gray[j]
  <2>1. CASE Levels(gray) = {}
    <3>1. t = 0
      BY <2>1 DEF OtsuThreshold, Levels
    <3> QED
      BY <1>3, <3>1 DEF OtsuRight
  <2>2. CASE Levels(gray) # {}
    <3>1. PICK s : Sharpest(gray, s, 256) /\ t = s.best
      BY <2>2, OtsuIs
    <3>2. ASSUME NEW u \in Levels(gray) PROVE Below(gray, u) = P
      <4>1. PICK j \in P : gray[j] = u
        BY DEF Levels
      <4>2. \A i \in P : gray[i] = u /\ gray[i] <= u
        BY <1>1, <1>3, <4>1
      <4> QED
        BY <4>2 DEF Below
    <3>3. Splits(gray, 256) = {}
      BY <3>2 DEF Splits
    <3>4. t = 0
      BY <3>1, <3>3 DEF Sharpest, NoneYet
    <3> HIDE DEF t
    <3> QED
      BY <1>3, <3>4 DEF OtsuRight, t
  <2> QED
    BY <2>1, <2>2
<1>4. CASE ~ \A i, j \in P : gray[i] = gray[j]
  <2>1. PICK i \in P, j \in P : gray[i] < gray[j]
    <3>1. PICK i \in P, j \in P : gray[i] # gray[j]
      BY <1>4
    <3>2. gray[i] \in Int /\ gray[j] \in Int
      BY <1>1
    <3>3. gray[i] < gray[j] \/ gray[j] < gray[i]
      BY <3>1, <3>2
    <3> QED
      BY <3>3
  <2>2. gray[i] \in Splits(gray, 256) /\ Levels(gray) # {}
    <3>1. gray[i] \in 0 .. 255 /\ gray[j] \in 0 .. 255 /\ gray[i] \in Levels(gray)
      BY <1>1
    <3>2. ~ (gray[j] <= gray[i]) /\ gray[i] < 256
      <4>1. ASSUME NEW x \in 0 .. 255, NEW y \in 0 .. 255, x < y PROVE ~ (y <= x) /\ x < 256
        BY <4>1
      <4> HIDE DEF t, low, high, size, mixed
      <4> QED
        BY <2>1, <3>1, <4>1
    <3>3. j \notin Below(gray, gray[i]) /\ j \in DOMAIN gray
      BY <3>2 DEF Below
    <3> QED
      BY <3>1, <3>2, <3>3 DEF Splits
  <2>3. PICK s : Sharpest(gray, s, 256) /\ t = s.best
    BY <2>2, OtsuIs
  <2>4. PICK v \in Splits(gray, 256) :
          /\ s = [variance |-> Between(gray, v), best |-> v + 1]
          /\ \A x \in Splits(gray, 256) :
               Between(gray, x)[1] * Between(gray, v)[2]
                 <= Between(gray, v)[1] * Between(gray, x)[2]
    BY <2>2, <2>3 DEF Sharpest
  <2>5. t = v + 1 /\ v \in Levels(gray) /\ Below(gray, v) # P /\ v \in 0 .. 255
    BY <1>1, <2>3, <2>4 DEF Splits, Levels
  <2> HIDE DEF t
  <2>6. low(t) = Below(gray, v)
    BY <1>1, <2>5 DEF Below
  <2>7. low(t) # {}
    BY <1>1, <2>5, <2>6 DEF Below, Levels
  <2>8. size(t) # 0
    BY <1>2, <2>5, <2>6, <2>7
  <2>9. ASSUME NEW u \in 0 .. 255, size(u) # 0 PROVE mixed(t) * size(u) <= mixed(u) * size(t)
    <3>1. PICK x \in Splits(gray, 256) : low(u) = Below(gray, x)
      <4>1. u \in 0 .. 256 /\ low(u) \notin {{}, P}
        BY <1>2, <2>9
      <4> QED
        BY <4>1, SplitOf
    <3>2. x \in Levels(gray) /\ Below(gray, x) # P
      BY <3>1 DEF Splits
    <3> DEFINE N == Cardinality(P)
               K == SpreadOfAll(gray)
               mt == mixed(t)
               mu == mixed(u)
               dt == Between(gray, v)[1]
               wt == Between(gray, v)[2]
               du == Between(gray, x)[1]
               wu == Between(gray, x)[2]
    <3>3. N * mt = 2 * (wt * K - dt) /\ wt = size(t) /\ mt \in Int /\ K \in Int
      BY <2>5, <2>6, MixedIs
    <3>4. N * mu = 2 * (wu * K - du) /\ wu = size(u) /\ mu \in Int
      BY <3>1, <3>2, MixedIs
    <3>5. dt \in Nat /\ wt \in Nat \ {0} /\ du \in Nat /\ wu \in Nat \ {0}
      BY <2>5, <3>2, BetweenIs
    <3>6. du * wt <= dt * wu
      BY <2>4, <3>1
    <3>7. N \in Nat \ {0}
      BY <2>1, FS_CardinalityType, FS_EmptySet DEF GrayOK
    <3> HIDE DEF N, K, mt, mu, dt, wt, du, wu
    <3>8. mt * wu <= mu * wt
      <4>1. mt \in Int /\ mu \in Int /\ K \in Int
        BY <3>3, <3>4
      <4>2. N * mt = 2 * (wt * K - dt) /\ N * mu = 2 * (wu * K - du)
        BY <3>3, <3>4
      <4> QED
        BY <3>5, <3>6, <3>7, <4>1, <4>2, LessWithin
    <3> QED
      BY <3>3, <3>4, <3>8 DEF mt, mu
  <2> QED
    BY <1>4, <2>8, <2>9 DEF OtsuRight, t
<1> QED
  BY <1>3, <1>4

-----------------------------------------------------------------------------
(* What the labels are compared with                                       *)

\* What is beside the pixels of a part.
LEMMA GrowIs ==
  ASSUME NEW g, GridOK(g), NEW S \in SUBSET Cells(g), NEW R \in SUBSET S
  PROVE  /\ R \subseteq Grow(g, S, R) /\ Grow(g, S, R) \in SUBSET S
         /\ Grow(g, S, R) = R <=> Closed(g, S, R)
         /\ \A Q \in SUBSET S : R \subseteq Q /\ Closed(g, S, Q) => Grow(g, S, R) \subseteq Q
<1>1. ASSUME NEW i \in S PROVE Around(g, S, i) = Linked(g, i) \cap S
  <2>1. i \in Cells(g)
    OBVIOUS
  <2> QED
    BY <2>1, LinkedIs DEF Around
<1>2. \A j : j \in Grow(g, S, R) <=> j \in R \/ \E i \in R : j \in Linked(g, i) \cap S
  BY <1>1 DEF Grow
<1>3. R \subseteq Grow(g, S, R) /\ Grow(g, S, R) \in SUBSET S
  BY <1>2
<1>4. Grow(g, S, R) = R <=> Closed(g, S, R)
  BY <1>2 DEF Closed
<1>5. ASSUME NEW Q \in SUBSET S, R \subseteq Q, Closed(g, S, Q) PROVE Grow(g, S, R) \subseteq Q
  BY <1>2, <1>5 DEF Closed
<1> QED
  BY <1>3, <1>4, <1>5

\* As many steps as there are pixels reach what can be reached.
LEMMA RegionIs ==
  ASSUME NEW g, GridOK(g), NEW S \in SUBSET Cells(g), NEW i \in S
  PROVE  Region(g, S, i) = Reach(g, S, {i})
<1> DEFINE N == Cardinality(S)
           D == SUBSET S
           G == [n \in 1 .. N |-> [R \in D |-> Grow(g, S, R)]]
           Round(f) == [n \in 0 .. N |-> IF n = 0 THEN {i} ELSE Grow(g, S, f[n - 1])]
           grown == CHOOSE f : f = Round(f)
<1>1. N \in Nat /\ IsFiniteSet(S)
  BY CellsFinite
<1> HIDE DEF N
<1>2. {i} \in D
  OBVIOUS
<1>3. ASSUME NEW R \in D PROVE Grow(g, S, R) \in D
  BY GrowIs
<1> HIDE DEF D
<1>4. G \in [1 .. N -> [D -> D]]
  BY <1>3
<1>5. PICK h \in [0 .. N -> D] : h[0] = {i} /\ \A n \in 1 .. N : h[n] = G[n][h[n - 1]]
  <2> HIDE DEF G
  <2>1. \E f \in [0 .. N -> D] : Runs(f, N, {i}, G)
    BY <1>1, <1>2, <1>4, Loop
  <2> QED
    BY <2>1, Zenon DEF Runs
<1>6. h = Round(h)
  <2>1. ASSUME NEW n \in 1 .. N PROVE h[n] = Grow(g, S, h[n - 1])
    <3>1. n - 1 \in 0 .. N
      BY <1>1
    <3>2. h[n - 1] \in D
      BY <3>1
    <3> QED
      BY <1>5, <3>2
  <2>2. \A n \in 0 .. N : n = 0 \/ n \in 1 .. N
    BY <1>1
  <2>3. h = [n \in 0 .. N |-> h[n]]
    OBVIOUS
  <2> QED
    BY <1>5, <2>1, <2>2, <2>3
<1>7. grown = Round(grown)
  <2> HIDE DEF Round
  <2> QED
    BY <1>6
<1>8. Region(g, S, i) = grown[N]
  BY DEF Region, N
<1> HIDE DEF grown
<1>9. /\ grown[0] = {i}
      /\ \A n \in 1 .. N : grown[n] = Grow(g, S, grown[n - 1])
  <2>1. 0 \in 0 .. N /\ \A n \in 1 .. N : n \in 0 .. N /\ n # 0
    BY <1>1
  <2> QED
    BY <1>7, <2>1
<1> DEFINE R == Reach(g, S, {i})
           Good == {n \in 0 .. N :
                      /\ grown[n] \in D /\ i \in grown[n] /\ grown[n] \subseteq R
                      /\ Closed(g, S, grown[n]) \/ n < Cardinality(grown[n])}
<1>10. {i} \in SUBSET S /\ R \in SUBSET S /\ {i} \subseteq R /\ Closed(g, S, R)
  BY ReachClosed
<1> HIDE DEF R
<1>11. ASSUME NEW Q \in D PROVE IsFiniteSet(Q) /\ Cardinality(Q) \in Nat /\ Cardinality(Q) <= N
  <2>1. Q \in SUBSET S
    BY DEF D
  <2> QED
    BY <1>1, <2>1, FS_Subset, FS_CardinalityType DEF N
<1>12. 0 \in Good
  <2>4. Cardinality({i}) = 1
    BY FS_Singleton
  <2>1. 0 < Cardinality({i}) /\ grown[0] = {i}
    BY <1>9, <2>4
  <2>2. grown[0] \in D /\ i \in grown[0] /\ grown[0] \subseteq R /\ 0 < Cardinality(grown[0])
    BY <1>2, <1>10, <2>1
  <2>3. 0 \in 0 .. N
    BY <1>1
  <2> QED
    BY <2>2, <2>3
<1>13. ASSUME NEW n \in 1 .. N, n - 1 \in Good PROVE n \in Good
  <2> DEFINE r == grown[n - 1]
             t == Grow(g, S, r)
  <2>1. /\ r \in D /\ r \in SUBSET S /\ i \in r /\ r \subseteq R
        /\ Closed(g, S, r) \/ n - 1 < Cardinality(r)
    BY <1>13 DEF D
  <2>2. grown[n] = t
    BY <1>9
  <2> HIDE DEF r
  <2>3. /\ r \subseteq t /\ t \in SUBSET S /\ (t = r <=> Closed(g, S, r)) /\ t \subseteq R
    BY <1>10, <2>1, GrowIs
  <2> HIDE DEF t
  <2>4. t \in D
    BY <2>3 DEF D
  <2>5. Closed(g, S, t) \/ n < Cardinality(t)
    <3>1. CASE Closed(g, S, r)
      BY <2>3, <3>1
    <3>2. CASE ~ Closed(g, S, r)
      <4>1. Cardinality(r) <= Cardinality(t) /\ Cardinality(r) # Cardinality(t)
        BY <1>11, <2>3, <2>4, <3>2, FS_Subset
      <4>2. Cardinality(r) \in Nat /\ Cardinality(t) \in Nat /\ n - 1 < Cardinality(r)
        BY <1>11, <2>1, <2>4, <3>2
      <4> QED
        BY <4>1, <4>2
    <3> QED
      BY <3>1, <3>2
  <2>6. n \in 0 .. N
    BY <1>1
  <2> QED
    BY <2>1, <2>2, <2>3, <2>4, <2>5, <2>6
<1>14. Good = 0 .. N
  <2>1. Good \in SUBSET (0 .. N)
    OBVIOUS
  <2> HIDE DEF Good
  <2> QED
    BY <1>1, <1>12, <1>13, <2>1, Counted
<1>15. N \in Good
  BY <1>1, <1>14
<1> DEFINE last == grown[N]
<1>16. /\ last \in D /\ last \subseteq R /\ i \in last
       /\ Closed(g, S, last) \/ N < Cardinality(last)
  BY <1>15
<1> HIDE DEF last
<1>17. Closed(g, S, last) /\ last \in SUBSET S
  BY <1>1, <1>11, <1>16 DEF D
<1>18. R \subseteq last
  BY <1>16, <1>17, ReachLeast DEF R
<1> QED
  BY <1>8, <1>16, <1>18 DEF last, R

\* The regions are the parts.
LEMMA RegionsAre ==
  ASSUME NEW g, GridOK(g), NEW S \in SUBSET Cells(g)
  PROVE  Regions(g, S) = Parts(g, S)
<1>1. ASSUME NEW i \in S PROVE Region(g, S, i) = Reach(g, S, {i})
  BY RegionIs
<1> QED
  BY <1>1 DEF Regions, Parts

\* The sizes of the classes of some things add up to their number.
LEMMA SumSizes ==
  ASSUME NEW S, IsFiniteSet(S), NEW K, IsFiniteSet(K), NEW class \in [K -> S],
         NEW size \in [S -> Nat],
         \A s \in S : size[s] = Cardinality({k \in K : class[k] = s})
  PROVE  SumFunctionOnSet(size, S) = Cardinality(K)
<1> DEFINE Of1(s) == {k \in K : class[k] = s}
           In(T)  == {k \in K : class[k] \in T}
           Sum(T) == SumFunctionOnSet(size, T)
           Good   == {T \in SUBSET S : Sum(T) = Cardinality(In(T))}
<1>1. \A s \in S : size[s] \in Int
  OBVIOUS
<1>2. {} \in Good
  <2>1. In({}) = {}
    OBVIOUS
  <2>2. Sum({}) = 0
    BY <1>1, SumIs
  <2> HIDE DEF In, Sum
  <2> QED
    BY <2>1, <2>2, FS_EmptySet
<1>3. ASSUME NEW T \in SUBSET S, T # {}, \A x \in T : T \ {x} \in Good PROVE T \in Good
  <2>1. PICK x \in T : TRUE
    BY <1>3
  <2>2. Sum(T \ {x}) = Cardinality(In(T \ {x}))
    BY <1>3
  <2>3. IsFiniteSet(T) /\ \A s \in T : size[s] \in Int
    BY <1>1, FS_Subset
  <2>4. Sum(T) = size[x] + Sum(T \ {x})
    BY <2>3, SumOne
  <2>5. In(T) = Of1(x) \cup In(T \ {x}) /\ Of1(x) \cap In(T \ {x}) = {}
    OBVIOUS
  <2>6. size[x] = Cardinality(Of1(x))
    OBVIOUS
  <2>7. Of1(x) \in SUBSET K /\ In(T \ {x}) \in SUBSET K
    OBVIOUS
  <2> DEFINE a == Of1(x)
             b == In(T \ {x})
  <2> HIDE DEF Of1, In, Sum
  <2>8. IsFiniteSet(a) /\ IsFiniteSet(b) /\ Cardinality(a \cap b) = 0
    BY <2>5, <2>7, FS_Subset, FS_EmptySet
  <2>9. Cardinality(a) \in Int /\ Cardinality(b) \in Int
    BY <2>8, FS_CardinalityType
  <2> HIDE DEF a, b
  <2>10. Cardinality(a \cup b) = Cardinality(a) + Cardinality(b) - Cardinality(a \cap b)
    BY <2>8, FS_Union
  <2>11. Cardinality(In(T)) = Cardinality(a) + Cardinality(b)
    BY <2>5, <2>8, <2>9, <2>10 DEF a, b
  <2> QED
    BY <2>2, <2>4, <2>6, <2>11 DEF a, b
<1>4. Good = SUBSET S
  <2>1. Good \in SUBSET SUBSET S
    OBVIOUS
  <2> HIDE DEF Good
  <2> QED
    BY <1>2, <1>3, <2>1, Every
<1>5. S \in Good /\ In(S) = K
  BY <1>4
<1> QED
  BY <1>5

\* Each connected region of dark pixels has one label, in the order of their first pixels,
\* and each enclosed region of background is a hole of one blob beside it, for every grid
\* and every set of dark pixels.
THEOREM LabelsAreRight ==
  ASSUME NEW g, GridOK(g), NEW dark \in SUBSET Cells(g)
  PROVE  LabelsRight(g, dark)
<1> DEFINE found == LabelComponents(g, dark)
           owners == CountHoles(g, dark)
           blobs == DOMAIN found
           K == DOMAIN owners
           light == Background(g, dark)
           holes == [k \in blobs |-> HolesOf(owners, found[k])]
           bores == Bores(g, dark)
           Near(R) == {k \in blobs : \E i \in R : Around(g, found[k], i) # {}}
<1>1. /\ found \in Seq(SUBSET dark) /\ ToSet(found) = Parts(g, dark)
      /\ \A k, l \in blobs : k < l => Min(found[k]) < Min(found[l])
      /\ \A k, l \in blobs : k # l => found[k] \cap found[l] = {}
  BY ComponentsLabelled
<1>2. Len(found) \in Nat /\ blobs = 1 .. Len(found)
  BY <1>1
<1>3. light \in SUBSET Cells(g)
  BY DEF Background, Cells
<1>4. {R \in Regions(g, light) : R \cap Edge(g) = {}} = bores
  BY <1>3, RegionsAre DEF Bores
<1>5. ToSet(found) = Regions(g, dark)
  BY <1>1, RegionsAre
<1> HIDE DEF found, owners, light, bores
<1>6. ASSUME NEW k \in blobs
      PROVE  found[k] \in Parts(g, dark) /\ found[k] \in SUBSET dark /\ found[k] # {}
  <2>1. found[k] \in Parts(g, dark)
    BY <1>1 DEF ToSet
  <2> QED
    BY <2>1, PartHas
<1>7. ASSUME NEW j \in dark PROVE \E k \in blobs : j \in found[k]
  <2> DEFINE P == Reach(g, dark, {j})
  <2>1. {j} \in SUBSET dark
    OBVIOUS
  <2>2. j \in P
    BY <2>1, ReachClosed
  <2>3. P \in ToSet(found)
    BY <1>1 DEF Parts
  <2> HIDE DEF P
  <2> QED
    BY <2>2, <2>3 DEF ToSet
<1>8. Cardinality(ToSet(found)) = Len(found)
  <2> DEFINE T == ToSet(found)
             n == Len(found)
  <2>1. found \in [1 .. n -> T] /\ \A t \in T : \E k \in 1 .. n : found[k] = t
    BY <1>1, <1>2 DEF ToSet
  <2>2. \A k, l \in 1 .. n : found[k] = found[l] => k = l
    <3> SUFFICES ASSUME NEW k \in 1 .. n, NEW l \in 1 .. n, found[k] = found[l], k # l PROVE FALSE
      OBVIOUS
    <3>1. found[k] \cap found[l] = {} /\ found[k] # {}
      BY <1>1, <1>2, <1>6
    <3> QED
      BY <3>1
  <2>3. found \in Surjection(1 .. n, T) /\ found \in Injection(1 .. n, T)
    BY <2>1, <2>2 DEF Injection, Surjection, IsInjective
  <2>4. IsFiniteSet(1 .. n) /\ Cardinality(1 .. n) = n
    BY <1>2, UpTo
  <2> HIDE DEF T
  <2>5. Cardinality(T) = Cardinality(1 .. n)
    BY <2>3, <2>4, FS_Surjection
  <2> QED
    BY <2>4, <2>5 DEF T
<1>9. ASSUME NEW k \in blobs, k > 1 PROVE Min(found[k - 1]) < Min(found[k])
  <2>1. k - 1 \in blobs /\ k - 1 < k
    BY <1>2, <1>9
  <2> QED
    BY <1>1, <2>1
<1>10. owners \in Seq(dark) /\ K = 1 .. Len(owners) /\ Len(owners) \in Nat
  BY HolesCounted DEF owners
<1>11. PICK b \in Bijection(K, bores) : TRUE
  BY HolesCounted DEF owners, bores
<1>12. IsFiniteSet(blobs) /\ IsFiniteSet(K)
  BY <1>2, <1>10, UpTo
<1>13. Cardinality(bores) = Cardinality(K)
  <2> HIDE DEF K
  <2>1. b \in Surjection(K, bores) /\ b \in Injection(K, bores)
    BY <1>11 DEF Bijection
  <2> QED
    BY <1>12, <2>1, FS_Surjection
<1>14. SumFunctionOnSet(holes, blobs) = Cardinality(K)
  <2> DEFINE class == [o \in K |-> CHOOSE k \in blobs : owners[o] \in found[k]]
  <2>1. ASSUME NEW o \in K PROVE class[o] \in blobs /\ owners[o] \in found[class[o]]
    <3>1. owners[o] \in dark
      BY <1>10
    <3> QED
      BY <1>7, <3>1
  <2>2. ASSUME NEW k \in blobs, NEW o \in K PROVE owners[o] \in found[k] <=> class[o] = k
    <3> HIDE DEF class
    <3> QED
      BY <1>1, <2>1
  <2>3. class \in [K -> blobs]
    BY <2>1
  <2> HIDE DEF class
  <2>4. ASSUME NEW k \in blobs
        PROVE  holes[k] \in Nat /\ holes[k] = Cardinality({o \in K : class[o] = k})
    <3>1. holes[k] = Cardinality({o \in K : owners[o] \in found[k]})
      BY DEF HolesOf
    <3>2. {o \in K : owners[o] \in found[k]} = {o \in K : class[o] = k}
      BY <2>2
    <3> DEFINE T == {o \in K : class[o] = k}
    <3>3. T \in SUBSET K
      OBVIOUS
    <3> HIDE DEF T
    <3>4. Cardinality(T) \in Nat
      BY <1>12, <3>3, FS_Subset, FS_CardinalityType
    <3> QED
      BY <3>1, <3>2, <3>4 DEF T
  <2>5. holes \in [blobs -> Nat]
    BY <2>4
  <2> HIDE DEF holes, blobs, K
  <2> QED
    BY <1>12, <2>3, <2>4, <2>5, SumSizes
<1>15. ASSUME NEW k \in blobs
       PROVE  holes[k] \in Cardinality({R \in bores : Near(R) = {k}}) ..
                            Cardinality({R \in bores : k \in Near(R)})
  <2> DEFINE P == found[k]
             inner  == {R \in bores : \A j \in dark : Touches(g, R, j) => j \in P}
             beside == {R \in bores : \E j \in P : Touches(g, R, j)}
  <2>1. HolesOf(owners, P) \in Cardinality(inner) .. Cardinality(beside)
    BY <1>6, HolesOfBlob DEF owners, bores
  <2>2. ASSUME NEW R \in bores, NEW l \in blobs
        PROVE  l \in Near(R) <=> \E j \in found[l] : Touches(g, R, j)
    <3>1. R \in SUBSET Cells(g)
      <4>1. R \in Parts(g, light)
        BY DEF bores, Bores, light
      <4> QED
        BY <1>3, <4>1, PartHas
    <3>2. ASSUME NEW i \in R PROVE Around(g, found[l], i) = Linked(g, i) \cap found[l]
      <4>1. i \in Cells(g) /\ found[l] \in SUBSET Cells(g)
        BY <1>6, <3>1
      <4> QED
        BY <4>1, LinkedIs DEF Around
    <3> QED
      BY <3>2 DEF Touches
  <2>3. ASSUME NEW R \in bores PROVE Near(R) = {k} <=> R \in inner
    <3>1. ASSUME Near(R) = {k}, NEW j \in dark, Touches(g, R, j) PROVE j \in P
      <4>1. PICK l \in blobs : j \in found[l]
        BY <1>7
      <4>2. l \in Near(R)
        BY <2>2, <3>1, <4>1
      <4> QED
        BY <3>1, <4>1, <4>2
    <3>2. ASSUME R \in inner PROVE Near(R) = {k}
      <4>1. PICK j \in dark : Touches(g, R, j)
        BY BoreHasRim DEF bores
      <4>2. k \in Near(R)
        BY <2>2, <3>2, <4>1
      <4>3. ASSUME NEW l \in Near(R) PROVE l = k
        <5>1. PICK i \in found[l] : Touches(g, R, i)
          BY <2>2
        <5>2. i \in dark
          BY <1>6
        <5>3. i \in P
          BY <3>2, <5>1, <5>2
        <5> QED
          BY <1>1, <5>3
      <4> QED
        BY <4>2, <4>3
    <3> QED
      BY <3>1, <3>2
  <2>4. {R \in bores : Near(R) = {k}} = inner
    BY <2>3
  <2>5. {R \in bores : k \in Near(R)} = beside
    BY <2>2
  <2>6. holes[k] = HolesOf(owners, P)
    OBVIOUS
  <2> HIDE DEF inner, beside, holes, Near
  <2> QED
    BY <2>1, <2>4, <2>5, <2>6
<1>16. SumFunctionOnSet(holes, blobs) = Cardinality(bores)
  BY <1>13, <1>14
<1> QED
  BY <1>4, <1>5, <1>8, <1>9, <1>15, <1>16 DEF LabelsRight, found, owners, light
=============================================================================
