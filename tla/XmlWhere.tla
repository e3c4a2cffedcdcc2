------------------------------ MODULE XmlWhere ------------------------------
(***************************************************************************)
(* xml/xml_filter.go: the filters that select items by the values of their *)
(* columns, and WhereFilter(), which builds one from a <where> element.    *)
(*                                                                         *)
(* A value is a sequence of character codes, an item a function from the   *)
(* names of its columns to the sequences of their values.                  *)
(***************************************************************************)
EXTENDS Integers, Sequences

CONSTANT Width   \* bound: bits of an integer (64 in the program)

Newline == 10
Minus == 45
Plus == 43
Zero == 48
Percent == 37
Underscore == 95
MinInt == -(2^(Width - 1))
MaxInt == 2^(Width - 1) - 1

Smallest(S) == CHOOSE n \in S : \A m \in S : n <= m

-----------------------------------------------------------------------------
(* Strings.                                                                *)

ToLower(s) == [i \in DOMAIN s |-> IF s[i] \in 65..90 THEN s[i] + 32 ELSE s[i]]

\* bytes.Compare: -1, 0 or 1.
Compare(s, t) ==
  LET differ == {i \in DOMAIN s \cap DOMAIN t : s[i] # t[i]}
  IN  CASE differ # {} -> IF s[Smallest(differ)] < t[Smallest(differ)] THEN -1 ELSE 1
        [] differ = {} /\ Len(s) < Len(t) -> -1
        [] differ = {} /\ Len(s) = Len(t) -> 0
        [] differ = {} /\ Len(s) > Len(t) -> 1

\* strconv.ParseInt: <<n>>, or nothing if the string is no number of Width bits.
Digits == Zero..(Zero + 9)
Magnitude(s) ==
  LET m[n \in 0..Len(s)] == IF n = 0 THEN 0 ELSE 10 * m[n - 1] + s[n] - Zero
  IN  m[Len(s)]
ParseInt(s) ==
  LET signed == s # <<>> /\ s[1] \in {Minus, Plus}
      digits == IF signed THEN Tail(s) ELSE s
      number == IF signed /\ s[1] = Minus THEN -Magnitude(digits) ELSE Magnitude(digits)
  IN  IF digits # <<>> /\ (\A i \in DOMAIN digits : digits[i] \in Digits)
         /\ number \in MinInt..MaxInt
      THEN <<number>> ELSE <<>>

\* The regular expression of a pattern: "like" knows "%" and "_", and neither
\* stands for a newline.
RECURSIVE MatchString(_, _, _)
MatchString(pattern, like, s) ==
  IF pattern = <<>> THEN s = <<>>
  ELSE LET meta == like /\ pattern[1] \in {Percent, Underscore}
           One(c) == IF meta THEN c # Newline ELSE ToLower(<<c>>) = ToLower(<<pattern[1]>>)
           step == s # <<>> /\ One(s[1])
       IN  IF like /\ pattern[1] = Percent
           THEN \/ MatchString(Tail(pattern), like, s)
                \/ step /\ MatchString(pattern, like, Tail(s))
           ELSE step /\ MatchString(Tail(pattern), like, Tail(s))

-----------------------------------------------------------------------------
(* The filters.                                                            *)

FilterNone == [type |-> "none"]
FilterAnd(filters) == [type |-> "and", of |-> filters]
FilterOr(filters) == [type |-> "or", of |-> filters]
FilterNot(filter) == [type |-> "not", of |-> filter]
FilterRegexp(column, value, like) ==
  [type |-> "regexp", column |-> column, value |-> value, like |-> like]
\* A number that cannot be told from the marker of none is compared as a string.
FilterRel(column, value, accepted) ==
  LET number == ParseInt(value)
  IN  [type |-> "rel", column |-> column, value |-> value, accepted |-> accepted,
       number |-> IF number = <<>> THEN MinInt ELSE number[1]]

Order(n, m) == IF n < m THEN -1 ELSE IF n > m THEN 1 ELSE 0

\* Seeded bug: a number that does not compare as wanted is tried as a string.
AcceptsEither(f, value) ==
  LET number == ParseInt(value)
  IN  \/ f.number # MinInt /\ number # <<>> /\ Order(number[1], f.number) \in f.accepted
      \/ Compare(ToLower(value), ToLower(f.value)) \in f.accepted

AcceptsValue(f, value) ==
  LET number == ParseInt(value)
  IN  IF f.number # MinInt /\ number # <<>>
      THEN Order(number[1], f.number) \in f.accepted
      ELSE Compare(ToLower(value), ToLower(f.value)) \in f.accepted

ValuesOf(item, column) == IF column \in DOMAIN item THEN item[column] ELSE <<>>

RECURSIVE Accepts(_, _)
Accepts(f, item) ==
  CASE f.type = "none" -> FALSE
    [] f.type = "and"  -> \A i \in DOMAIN f.of : Accepts(f.of[i], item)
    [] f.type = "or"   -> \E i \in DOMAIN f.of : Accepts(f.of[i], item)
    [] f.type = "not"  -> ~Accepts(f.of, item)
    [] f.type = "rel"  ->
         LET values == ValuesOf(item, f.column)
         IN  \E i \in DOMAIN values : AcceptsValue(f, values[i])
    [] f.type = "regexp" ->
         LET values == ValuesOf(item, f.column)
         IN  \E i \in DOMAIN values : MatchString(f.value, f.like, values[i])

-----------------------------------------------------------------------------
(* <where>: a sequence of clauses [connector, phrases]; a phrase has an    *)
(* operator, the names of its other elements and the value of the first of *)
(* them.  What is omitted is "".  WhereFilter returns <<filter>>, or       *)
(* nothing after an error.                                                 *)

Operators == {"eq", "ne", "ge", "gt", "le", "lt", "like", "unlike"}

PhraseFilter(p) ==
  LET column == CHOOSE c \in p.columns : TRUE
  IN
  CASE p.operator \in {"", "eq"} -> FilterRegexp(column, p.value, FALSE)
    [] p.operator = "ne"     -> FilterNot(FilterRegexp(column, p.value, FALSE))
    [] p.operator = "like"   -> FilterRegexp(column, p.value, TRUE)
    [] p.operator = "unlike" -> FilterNot(FilterRegexp(column, p.value, TRUE))
    [] p.operator = "ge"     -> FilterRel(column, p.value, {1, 0})
    [] p.operator = "gt"     -> FilterRel(column, p.value, {1})
    [] p.operator = "le"     -> FilterRel(column, p.value, {-1, 0})
    [] p.operator = "lt"     -> FilterRel(column, p.value, {-1})

ClauseFilter(c) ==
  LET phrases == [i \in DOMAIN c.phrases |-> PhraseFilter(c.phrases[i])]
  IN  IF c.connector = "or" THEN FilterOr(phrases) ELSE FilterAnd(phrases)

WellFormed(c) ==
  /\ c.connector \in {"", "and", "or"}
  /\ \A i \in DOMAIN c.phrases :
       LET p == c.phrases[i] IN
       /\ p.operator \in Operators \cup {""}
       /\ \E column \in p.columns : p.columns = {column}

WhereFilter(where) ==
  IF \A i \in DOMAIN where : WellFormed(where[i])
  THEN <<FilterAnd([i \in DOMAIN where |-> ClauseFilter(where[i])])>>
  ELSE <<>>

-----------------------------------------------------------------------------
Opposite == [eq |-> "ne", ne |-> "eq", like |-> "unlike", unlike |-> "like",
             ge |-> "lt", lt |-> "ge", gt |-> "le", le |-> "gt"]
NegatedPhrase(p) ==
  [p EXCEPT !.operator = Opposite[IF @ = "" THEN "eq" ELSE @]]
NegatedClause(c) ==
  [connector |-> IF c.connector = "or" THEN "and" ELSE "or",
   phrases |-> [i \in DOMAIN c.phrases |-> NegatedPhrase(c.phrases[i])]]

\* A condition and its negation - the other connector, the opposite operators -
\* divide the items that have one value in every column: no item is found by
\* both and none is lost, whether its values and those it is compared with are
\* numbers, words or one of each, and at the ends of the integers.
Complementary(clause, item) ==
  LET f == WhereFilter(<<clause>>)
      g == WhereFilter(<<NegatedClause(clause)>>)
      Single(p) == \A c \in p.columns : Len(ValuesOf(item, c)) = 1
  IN  f # <<>> /\ (\A i \in DOMAIN clause.phrases : Single(clause.phrases[i]))
      => Accepts(f[1], item) # Accepts(g[1], item)
=============================================================================
