---------------------------- MODULE Translation ----------------------------
(***************************************************************************)
(* What a compatibility plan promises, without plans: which pairs of       *)
(* schemas are compatible, and what a writer's value is for the reader.    *)
(* Compatibility is the largest relation closed under the matching rules,  *)
(* so a recursive schema needs no depth bound and no blocks; translation   *)
(* is a conversion of decoded values, so it reads no bytes.                *)
(***************************************************************************)
EXTENDS Compact

SameName(xs, y) == {i \in DOMAIN xs : xs[i].name = y.name}
Match(xs, y) == xs[CHOOSE i \in SameName(xs, y) : TRUE]

RECURSIVE PartsMatch(_, _, _)

(* One level of the rules, the references inside related by `related'.      *)
PartsMatch(w, r, related) ==
  /\ w.k = r.k
  /\ CASE w.k = "primitive" -> w.p = r.p
       [] w.k \in {"unit", "dynamic"} -> TRUE
       [] w.k \in {"newtype", "option", "list", "set"} -> <<w.element, r.element>> \in related
       [] w.k = "array" -> w.dimensions = r.dimensions /\ <<w.element, r.element>> \in related
       [] w.k = "map" -> {<<w.key, r.key>>, <<w.value, r.value>>} \subseteq related
       [] w.k = "tuple" ->
            /\ Len(w.elements) = Len(r.elements)
            /\ \A i \in DOMAIN w.elements : <<w.elements[i], r.elements[i]>> \in related
       [] w.k = "struct" ->
            \A f \in Range(r.fields) :
              IF SameName(w.fields, f) = {} THEN ~f.required
              ELSE <<Match(w.fields, f).schema, f.schema>> \in related
       [] w.k = "enum" ->
            \A v \in Range(r.variants) :
              SameName(w.variants, v) # {} =>
                PartsMatch(Match(w.variants, v).payload, v.payload, related)
       [] OTHER -> FALSE

RECURSIVE Largest(_)
Largest(related) ==
  LET next == {x \in related : PartsMatch(Kind(x[1]), Kind(x[2]), related)}
  IN IF next = related THEN related ELSE Largest(next)

References == DOMAIN Registry \cup Primitives
Compatible == Largest(References \X References)

(* What a kind refers to, and the part of it that every value holds.        *)
RECURSIVE RefsOf(_)
RefsOf(k) ==
  CASE k.k \in {"primitive", "unit", "dynamic"} -> {}
    [] k.k = "map" -> {k.key, k.value}
    [] k.k = "tuple" -> Range(k.elements)
    [] k.k = "struct" -> Range(Refs(k.fields))
    [] k.k = "enum" -> UNION {RefsOf(v.payload) : v \in Range(k.variants)}
    [] OTHER -> {k.element}
AlwaysHeld(k) ==
  CASE k.k \in {"struct", "tuple", "semantic"} -> RefsOf(k)
    [] k.k = "array" -> IF 0 \in Range(k.dimensions) THEN {} ELSE {k.element}
    [] OTHER -> {}

RECURSIVE Along(_, _)
Along(ids, edges) ==
  LET next == ids \cup UNION {edges[i] : i \in ids}
  IN IF next = ids THEN ids ELSE Along(next, edges)
Referred == [ref \in References |-> RefsOf(Kind(ref))]
Inlined == [ref \in References |-> AlwaysHeld(Kind(ref))]

(* No value of this schema takes a byte.                                    *)
Weightless(ref) ==
  \A x \in Along({ref}, Inlined) :
    x = "unit" \/ Kind(x).k \in {"struct", "tuple", "array", "semantic"}

(* What is read of a kind before the first byte of it.                      *)
Leading(k) ==
  LET parts == IF k.k = "struct" THEN Refs(k.fields) ELSE k.elements
  IN IF k.k \in {"struct", "tuple"}
     THEN {parts[i] : i \in {i \in DOMAIN parts : \A j \in 1..i - 1 : Weightless(parts[j])}}
     ELSE AlwaysHeld(k)
Led == [ref \in References |-> Leading(Kind(ref))]

(* Nothing in the schema comes back to itself before a byte is read, as     *)
(* struct A { a: A } does.                                                  *)
Productive(ref) == \A x \in Along({ref}, Referred) : x \notin Along(Led[x], Led)

(* A set whose elements become equal for the reader has no translation, and *)
(* neither has a variant the reader lacks.                                  *)
Untranslatable == [ok |-> FALSE]
RECURSIVE Translate(_, _, _)
TranslateAll(ws, rs, values) ==
  LET parts == [i \in DOMAIN values |-> Translate(Kind(ws[i]), Kind(rs[i]), values[i])]
  IN [ok |-> \A i \in DOMAIN values : parts[i].ok,
      v |-> [i \in DOMAIN values |-> parts[i].v]]
Translated(v) == [ok |-> TRUE, v |-> v]

Translate(w, r, v) ==
  CASE w.k \in {"primitive", "unit", "dynamic"} -> Translated(v)
    [] w.k = "option" -> IF v = Null THEN Translated(Null)
                         ELSE Translate(Kind(w.element), Kind(r.element), v)
    [] w.k = "newtype" -> Translate(Kind(w.element), Kind(r.element), v)
    [] w.k \in {"list", "set", "array", "tuple"} ->
         LET n == Len(v[2])
             s == IF w.k = "tuple" THEN TranslateAll(w.elements, r.elements, v[2])
                  ELSE TranslateAll(Repeat(w.element, n), Repeat(r.element, n), v[2])
         IN IF ~s.ok \/ (w.k = "set" /\ ~IsInjective(s.v)) THEN Untranslatable
            ELSE Translated(Array(s.v))
    [] w.k = "map" ->
         LET at == [x \in DOMAIN v[2] |-> Translate(Kind(w.value), Kind(r.value), v[2][x])]
         IN IF \E x \in DOMAIN at : ~at[x].ok THEN Untranslatable
            ELSE Translated(<<"object", [x \in DOMAIN at |-> at[x].v]>>)
    [] w.k = "struct" ->
         LET at == [x \in Range(Names(r.fields)) |->
                      LET f == CHOOSE g \in Range(r.fields) : g.name = x
                      IN IF SameName(w.fields, f) = {} THEN Translated(Null)
                         ELSE Translate(Kind(Match(w.fields, f).schema), Kind(f.schema), v[2][x])]
         IN IF \E x \in DOMAIN at : ~at[x].ok THEN Untranslatable
            ELSE Translated(<<"object", [x \in DOMAIN at |-> at[x].v]>>)
    [] w.k = "enum" ->
         LET x == CHOOSE y \in DOMAIN v[2] : TRUE
             wv == CHOOSE u \in Range(w.variants) : u.name = x
             p == Translate(wv.payload, Match(r.variants, wv).payload, v[2][x])
         IN IF SameName(r.variants, wv) = {} THEN Untranslatable
            ELSE IF ~p.ok THEN Untranslatable ELSE Translated(Object(<<x>>, <<p.v>>))

=============================================================================
