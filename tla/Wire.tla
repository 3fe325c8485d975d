-------------------------------- MODULE Wire --------------------------------
(***************************************************************************)
(* Reading a message: the cursor of rust/phon-schema/src/bytes.rs, and the *)
(* values that compact.rs and interp.rs make of what it reads.             *)
(*                                                                         *)
(* A message is a sequence of cells 0..Width-1, one per scalar, tag,       *)
(* count, presence byte, string or self-describing value; padding and      *)
(* lengths in bytes are left out.  Only some cells are a valid string or   *)
(* character.  A failed read is one of a few classes, and when several     *)
(* checks would fail which one is reported first is left out.              *)
(***************************************************************************)
EXTENDS Naturals, Sequences, FiniteSets
LOCAL INSTANCE SequencesExt

CONSTANTS
  Width,         \* how many values a cell can take
  Valid,         \* the cells that are UTF-8, or a Unicode scalar value
  ZstCap,        \* ZST_COUNT_CAP
  MaxWord        \* u64::MAX

(* Results of reading: a value and the cells consumed so far, or a failure. *)
Ok(v, p) == [ok |-> TRUE, v |-> v, p |-> p]
Err(why) == [ok |-> FALSE, why |-> why]
Malformed == Err("malformed")
OnOk(res, F(_)) == IF res.ok THEN Ok(F(res.v), res.p) ELSE res
Then(res, F(_)) == IF res.ok THEN F(res) ELSE res    \* the ? operator

(* A whole message leaves nothing behind (TrailingBytes).                   *)
Whole(res, b) == IF res.ok /\ res.p # Len(b) THEN Malformed ELSE res

ReadCell(b, p) == IF p < Len(b) THEN Ok(b[p + 1], p + 1) ELSE Malformed
ReadText(b, p) ==
  Then(ReadCell(b, p), LAMBDA c : IF c.v \in Valid THEN c ELSE Malformed)

(* Reader::read_len: the count may not promise more than what is left.      *)
Most(minWire, b, p) == IF minWire = 0 THEN ZstCap ELSE (Len(b) - p) \div minWire
ReadLen(minWire, b, p) ==
  Then(ReadCell(b, p), LAMBDA c : IF c.v > Most(minWire, b, c.p) THEN Malformed ELSE c)

(* Values: facet_value::Value.  An object is a function from names.         *)
Null == <<"null">>
Number(n) == <<"number", n>>
Bool(n) == <<"bool", n>>
Char(c) == <<"char", c>>
ByteRun(c) == <<"bytes", c>>
Text(c) == <<"string", <<"s0", "s1", "s2", "s3">>[c + 1]>>
Array(s) == <<"array", s>>
Object(names, values) ==
  <<"object", [n \in Range(names) |-> values[CHOOSE i \in DOMAIN names : names[i] = n]]>>

DecodePrimitive(prim, b, p) ==
  IF prim = "unit" THEN Ok(Null, p)
  ELSE Then(ReadCell(b, p), LAMBDA c :
         CASE prim = "bool" -> IF c.v <= 1 THEN Ok(Bool(c.v), c.p) ELSE Malformed
           [] prim = "char" -> IF c.v \in Valid THEN Ok(Char(c.v), c.p) ELSE Malformed
           [] prim = "bytes" -> Ok(ByteRun(c.v), c.p)
           [] prim = "string" -> IF c.v \in Valid THEN Ok(Text(c.v), c.p) ELSE Malformed
           [] OTHER -> Ok(Number(c.v), c.p))

(* read_value on a self-describing scalar.                                  *)
ReadValue(b, p) == OnOk(ReadCell(b, p), Number)

(* product(dimensions): checked_mul stops at the first overflow, which a    *)
(* later dimension of 0 does not undo.                                      *)
Product(dims) == FoldLeft(LAMBDA n, d : IF n > MaxWord THEN n ELSE n * d, 1, dims)
Overflows(dims) == Product(dims) > MaxWord

(* check_fixed_count after product(dimensions).                             *)
FixedCount(dims, minWire, b, p) ==
  IF Overflows(dims) \/ Product(dims) > Most(minWire, b, p) THEN Malformed ELSE Ok(Product(dims), p)

(* Pairs of a map: keys are strings and unique.                             *)
MapOf(pairs) ==
  LET s == pairs.v
      n == Len(s) \div 2
      keys == [i \in 1..n |-> s[2 * i - 1][2]]
      values == [i \in 1..n |-> s[2 * i]]
  IN IF /\ \A i \in 1..n : s[2 * i - 1][1] = "string"
        /\ IsInjective(keys)
     THEN Ok(Object(keys, values), pairs.p) ELSE Malformed

=============================================================================
