----------------------------- MODULE Observation -----------------------------
(***************************************************************************)
(* The observation record, its JSON document and its contract              *)
(* (services/observation/src/Observation.cpp and Json.cpp).                *)
(*                                                                         *)
(* A JSON value is a pair of its type and its content; an object is a      *)
(* sequence of pairs of a key and a value.  The text of a document is      *)
(* left out: a file holds a document or, when it was not written to its    *)
(* end, nothing that parses.  An optional member is a set of at most one.  *)
(***************************************************************************)
EXTENDS Integers, FiniteSetsExt, SequencesExt

Str(s)  == <<"string", s>>
Num(n)  == <<"number", n>>
Arr(s)  == <<"array", s>>
Obj(s)  == <<"object", s>>
Of(v)   == v[2]
IsA(v, type) == v[1] = type

Each(f(_), s) == [i \in DOMAIN s |-> f(s[i])]

\* A member that is written only when there is something to write.
When(S, key) == IF S = {} THEN <<>> ELSE << <<key, CHOOSE v \in S : TRUE>> >>
List(s) == IF s = <<>> THEN {} ELSE {Arr(Each(Str, s))}

\* Value::find(): the first member with a key, if there is one.
Find(v, key) ==
  LET hits == {i \in DOMAIN Of(v) : Of(v)[i][1] = key}
  IN  IF hits = {} THEN {} ELSE {Of(v)[Min(hits)][2]}

NoKeyTwice(o) == \A i, j \in DOMAIN o : o[i][1] = o[j][1] => i = j

\* The values directly within some values.
Within(S) == UNION {IF IsA(v, "object") THEN {Of(v)[i][2] : i \in DOMAIN Of(v)} ELSE ToSet(Of(v)) :
                    v \in {w \in S : w[1] \in {"array", "object"}}}

\* A document: toJson() nests it four deep, parse() lets 64 pass.
Values(v) ==
  LET one   == Within({v})
      two   == Within(one)
      three == Within(two)
      four  == Within(three)
  IN  UNION {{v}, one, two, three, four}

\* parse() refuses an object that has a key twice, at any depth.
KeysOnce(v) == \A x \in Values(v) : IsA(x, "object") => NoKeyTwice(Of(x))

-----------------------------------------------------------------------------
(* toJson()                                                                *)

ClaimToJson(c) ==
  Obj(<< <<"id", Str(c.id)>>, <<"name", Str(c.name)>>, <<"value", c.value>> >>
      \o When({Str(u) : u \in c.unit}, "unit")
      \o When({Num(n) : n \in c.confidence}, "confidence")
      \o When(List(c.provenance), "provenance")
      \o << <<"method", Str(c.method)>> >>)

ArtifactToJson(a) ==
  Obj(<< <<"id", Str(a.id)>>, <<"kind", Str(a.kind)>>, <<"path", Str(a.path)>> >>)

UnresolvedToJson(u) == Obj(<< <<"name", Str(u.name)>>, <<"reason", Str(u.reason)>> >>)

RecommendedToJson(r) == Obj(<< <<"action", Str(r.action)>> >> \o When(List(r.resolves), "resolves"))

\* The entries at some positions of a sequence, in their order.
Pick(s, S) == [k \in 1 .. Cardinality(S) |->
                 s[CHOOSE i \in S : Cardinality({j \in S : j <= i}) = k]]

\* The first of the entries with the same key.
FirstSources(source) ==
  Pick(source, {i \in DOMAIN source : \A j \in 1 .. i - 1 : source[j][1] # source[i][1]})

ToJson(r) ==
  Obj(<< <<"schema_version", Str("0.1")>>,
         <<"observation_id", Str(r.observationId)>>, <<"timestamp_utc", Str(r.timestampUtc)>>,
         <<"source", Obj(LET s == FirstSources(r.source)
                         IN  [i \in DOMAIN s |-> <<s[i][1], Str(s[i][2])>>])>>,
         <<"artifacts", Arr(Each(ArtifactToJson, r.artifacts))>>,
         <<"observed", Arr(Each(ClaimToJson, r.observed))>>,
         <<"derived", Arr(Each(ClaimToJson, r.derived))>>,
         <<"inferred", Arr(Each(ClaimToJson, r.inferred))>>,
         <<"unresolved", Arr(Each(UnresolvedToJson, r.unresolved))>>,
         <<"recommended_next_observations", Arr(Each(RecommendedToJson, r.recommended))>>,
         <<"human_review", Obj(<< <<"state", Str(r.review)>> >>
                               \o When({Str(n) : n \in r.notes}, "notes"))>> >>)

-----------------------------------------------------------------------------
(* fromJson(): what a document must have, and what is read from it          *)

TextOrNone(v, key) == \A s \in Find(v, key) : IsA(s, "string")
HasText(v, key)    == Find(v, key) # {} /\ TextOrNone(v, key)
Text(v, key, default) == IF Find(v, key) = {} THEN default ELSE Of(CHOOSE s \in Find(v, key) : TRUE)

\* An array of entries that all pass; it may be absent, which is empty.
Entries(v, key) == IF Find(v, key) = {} THEN <<>> ELSE Of(CHOOSE a \in Find(v, key) : TRUE)
ArrayOf(v, key, Good(_)) ==
  \A a \in Find(v, key) : IsA(a, "array") /\ \A i \in DOMAIN Of(a) : Good(Of(a)[i])

IsText(v) == IsA(v, "string")

ClaimOk(v) == /\ IsA(v, "object")
              /\ HasText(v, "id") /\ HasText(v, "name") /\ TextOrNone(v, "method")
              /\ Find(v, "value") # {}
              /\ \A x \in Find(v, "value") : x[1] \in {"number", "bool", "string"}
              /\ TextOrNone(v, "unit")
              /\ \A x \in Find(v, "confidence") : IsA(x, "number")
              /\ ArrayOf(v, "provenance", IsText)

ArtifactOk(v)    == /\ IsA(v, "object") /\ HasText(v, "id")
                    /\ TextOrNone(v, "kind") /\ TextOrNone(v, "path")
UnresolvedOk(v)  == IsA(v, "object") /\ HasText(v, "name") /\ TextOrNone(v, "reason")
RecommendedOk(v) == IsA(v, "object") /\ HasText(v, "action") /\ ArrayOf(v, "resolves", IsText)

ReviewStates == {"pending", "accepted", "rejected", "corrected"}
ReviewOk(v)  == /\ IsA(v, "object") /\ TextOrNone(v, "notes") /\ TextOrNone(v, "state")
                /\ Text(v, "state", "") \in ReviewStates \cup {""}

Accepts(v) ==
  /\ KeysOnce(v) /\ IsA(v, "object")
  /\ HasText(v, "observation_id") /\ TextOrNone(v, "timestamp_utc")
  /\ \A s \in Find(v, "source") : /\ IsA(s, "object")
                                  /\ \A i \in DOMAIN Of(s) : IsText(Of(s)[i][2])
  /\ ArrayOf(v, "artifacts", ArtifactOk)
  /\ \A key \in {"observed", "derived", "inferred"} : ArrayOf(v, key, ClaimOk)
  /\ ArrayOf(v, "unresolved", UnresolvedOk)
  /\ ArrayOf(v, "recommended_next_observations", RecommendedOk)
  /\ \A h \in Find(v, "human_review") : ReviewOk(h)

ReadTexts(v, key) == Each(Of, Entries(v, key))

ReadClaim(v) == [id |-> Text(v, "id", ""), name |-> Text(v, "name", ""),
                 value |-> CHOOSE x \in Find(v, "value") : TRUE,
                 unit |-> {Of(u) : u \in Find(v, "unit")},
                 confidence |-> {Of(c) : c \in Find(v, "confidence")},
                 provenance |-> ReadTexts(v, "provenance"), method |-> Text(v, "method", "")]

ReadArtifact(v)   == [id |-> Text(v, "id", ""), kind |-> Text(v, "kind", ""),
                      path |-> Text(v, "path", "")]
ReadUnresolved(v) == [name |-> Text(v, "name", ""), reason |-> Text(v, "reason", "")]
ReadRecommended(v) == [action |-> Text(v, "action", ""), resolves |-> ReadTexts(v, "resolves")]

Read(v) ==
  LET source == Entries(v, "source")
      review == Find(v, "human_review")
      state  == {Text(h, "state", "") : h \in review} \ {""}
  IN  [observationId |-> Text(v, "observation_id", ""),
       timestampUtc |-> Text(v, "timestamp_utc", ""),
       source |-> [i \in DOMAIN source |-> <<source[i][1], Of(source[i][2])>>],
       artifacts |-> Each(ReadArtifact, Entries(v, "artifacts")),
       observed |-> Each(ReadClaim, Entries(v, "observed")),
       derived |-> Each(ReadClaim, Entries(v, "derived")),
       inferred |-> Each(ReadClaim, Entries(v, "inferred")),
       unresolved |-> Each(ReadUnresolved, Entries(v, "unresolved")),
       recommended |-> Each(ReadRecommended, Entries(v, "recommended_next_observations")),
       review |-> IF state = {} THEN "pending" ELSE CHOOSE s \in state : TRUE,
       notes |-> UNION {{Of(n) : n \in Find(h, "notes")} : h \in review}]

-----------------------------------------------------------------------------
(* validate(): the contract.  A violation is its rule and what breaks it.   *)

Claim(id, name, value, unit, confidence, provenance, method) ==
  [id |-> id, name |-> name, value |-> value, unit |-> unit, confidence |-> confidence,
   provenance |-> provenance, method |-> method]

Claims(r) == r.observed \o r.derived \o r.inferred

Twice(s) == {s[i] : i \in {i \in DOMAIN s : \E j \in 1 .. i - 1 : s[j] = s[i]}}

\* referenceResolves(): a claim id, an artifact id, or "artifact:" and an artifact id.
Prefixed(id) == "artifact:" \o id
Resolvable(r) == LET artifacts == {a.id : a \in ToSet(r.artifacts)} \ {""}
                 IN  ({c.id : c \in ToSet(Claims(r))} \ {""})
                     \cup artifacts \cup {Prefixed(a) : a \in artifacts}

Common(r, c) ==
  {<<"confidence out of [0,1]", c.id>> : n \in {n \in c.confidence : n < 0 \/ n > 100}}
  \cup {<<"unresolvable provenance", c.id>> : ref \in ToSet(c.provenance) \ Resolvable(r)}

Lacks(c, what) ==
  {<<"without", w, c.id>> : w \in {w \in what :
     \/ w = "confidence" /\ c.confidence = {}
     \/ w = "provenance" /\ c.provenance = <<>>
     \/ w = "method" /\ c.method = ""}}

Unless(ok, violation) == IF ok THEN {} ELSE {violation}
IdsOf(s) == Each(LAMBDA x : x.id, s)

Violations(r) ==
  UNION {
    Unless(r.observationId # "", <<"observation_id is empty">>),
    Unless(r.timestampUtc # "", <<"timestamp_utc is empty">>),
    {<<"duplicate source key", k>> : k \in Twice(Each(Head, r.source))},
    Unless("" \notin ToSet(IdsOf(r.artifacts)), <<"artifact with empty id">>),
    {<<"duplicate artifact id", i>> : i \in Twice(IdsOf(r.artifacts)) \ {""}},
    Unless("" \notin ToSet(IdsOf(Claims(r))), <<"claim with empty id">>),
    {<<"duplicate claim id", i>> : i \in Twice(IdsOf(Claims(r))) \ {""}},
    UNION {Common(r, c) : c \in ToSet(Claims(r))},
    UNION {Lacks(c, {"provenance", "method"}) : c \in ToSet(r.derived)},
    UNION {Lacks(c, {"confidence", "provenance", "method"}) : c \in ToSet(r.inferred)}}
=============================================================================
