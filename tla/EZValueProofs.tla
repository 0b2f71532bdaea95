----------------------------- MODULE EZValueProofs -----------------------------
(* What splitting and intersecting values do to their units, for every value. *)
EXTENDS EZValue, SequenceTheorems, TLAPS

\* split_value cuts a value into two values that have its units and share none.
THEOREM SplitPartition ==
    ASSUME NEW v \in Interval, NEW change \in 1..v.num - 1
    PROVE  LET parts == SplitValue(v, change) IN
           /\ parts[1] \in Interval /\ parts[2] \in Interval
           /\ parts[1].num = v.num - change /\ parts[2].num = change
           /\ UnitsOf(parts[1]) \cup UnitsOf(parts[2]) = UnitsOf(v)
           /\ UnitsOf(parts[1]) \cap UnitsOf(parts[2]) = {}
BY DEF Interval, SplitValue, EndIndex, UnitsOf

\* is_intersect_value holds exactly of values that have a unit in common.
THEOREM IntersectMeaning ==
    ASSUME NEW v \in Interval, NEW target \in Interval
    PROVE  IsIntersectValue(v, target) <=> UnitsOf(v) \cap UnitsOf(target) # {}
<1>1. ASSUME IsIntersectValue(v, target)
      PROVE  UnitsOf(v) \cap UnitsOf(target) # {}
  <2>1. CASE v.begin <= target.begin
    <3>1. target.begin \in UnitsOf(v) \cap UnitsOf(target)
      BY <1>1, <2>1 DEF Interval, IsIntersectValue, EndIndex, UnitsOf
    <3> QED  BY <3>1
  <2>2. CASE v.begin > target.begin
    <3>1. v.begin \in UnitsOf(v) \cap UnitsOf(target)
      BY <1>1, <2>2 DEF Interval, IsIntersectValue, EndIndex, UnitsOf
    <3> QED  BY <3>1
  <2> QED  BY <2>1, <2>2 DEF Interval
<1>2. ASSUME UnitsOf(v) \cap UnitsOf(target) # {}
      PROVE  IsIntersectValue(v, target)
  BY <1>2 DEF Interval, IsIntersectValue, EndIndex, UnitsOf
<1> QED  BY <1>1, <1>2

\* is_in_value holds exactly of values all of whose units are the other's.
THEOREM InMeaning ==
    ASSUME NEW v \in Interval, NEW target \in Interval
    PROVE  IsInValue(v, target) <=> UnitsOf(target) \subseteq UnitsOf(v)
<1>1. target.begin \in UnitsOf(target) /\ EndIndex(target) \in UnitsOf(target)
  BY DEF Interval, EndIndex, UnitsOf
<1> QED  BY <1>1 DEF Interval, IsInValue, EndIndex, UnitsOf

\* get_intersect_value: the common part has the common units, and the rest has
\* the others, all of them and each once.
THEOREM IntersectExact ==
    ASSUME NEW v \in Interval, NEW target \in Interval,
           IsIntersectValue(v, target)
    PROVE  LET rest == RestValues(v, target) IN
           /\ IntersectValue(v, target) \in Interval
           /\ UnitsOf(IntersectValue(v, target)) = UnitsOf(v) \cap UnitsOf(target)
           /\ \A i \in DOMAIN rest : rest[i] \in Interval
           /\ UNION {UnitsOf(rest[i]) : i \in DOMAIN rest}
                = UnitsOf(v) \ UnitsOf(target)
           /\ \A i, j \in DOMAIN rest :
                 i # j => UnitsOf(rest[i]) \cap UnitsOf(rest[j]) = {}
<1> DEFINE first == IntersectBegin(v, target)
           last == IntersectEnd(v, target)
           left == Between(v.begin, first - 1)
           right == Between(last + 1, EndIndex(v))
<1>1. /\ first \in Nat /\ last \in Nat /\ first <= last
      /\ v.begin <= first /\ last <= EndIndex(v)
      /\ v.begin \in Nat /\ EndIndex(v) \in Nat
      /\ UnitsOf(v) \cap UnitsOf(target) = first..last
      /\ UnitsOf(v) = v.begin..EndIndex(v)
  BY DEF Interval, IsIntersectValue, EndIndex, UnitsOf, IntersectBegin, IntersectEnd
<1>2. ASSUME NEW a \in Nat, NEW b \in Nat, a <= b
      PROVE  Between(a, b) \in Interval /\ UnitsOf(Between(a, b)) = a..b
  BY <1>2 DEF Between, Interval, UnitsOf, EndIndex
<1>3. /\ IntersectValue(v, target) \in Interval
      /\ UnitsOf(IntersectValue(v, target)) = UnitsOf(v) \cap UnitsOf(target)
  BY <1>1, <1>2 DEF IntersectValue
<1>4. UnitsOf(v) \ UnitsOf(target) = (v.begin..first - 1) \cup (last + 1..EndIndex(v))
  <2>1. UnitsOf(v) \ UnitsOf(target) = (v.begin..EndIndex(v)) \ (first..last)
    BY <1>1
  <2> HIDE DEF first, last
  <2> QED  BY <1>1, <2>1
<1>5. v.begin < first =>
         /\ left \in Interval
         /\ UnitsOf(left) = v.begin..first - 1
  <2>1. v.begin < first => first - 1 \in Nat /\ v.begin <= first - 1
    BY <1>1
  <2> QED  BY <1>1, <1>2, <2>1
<1>6. last < EndIndex(v) =>
         /\ right \in Interval
         /\ UnitsOf(right) = last + 1..EndIndex(v)
  <2>1. last < EndIndex(v) => last + 1 \in Nat /\ last + 1 <= EndIndex(v)
    BY <1>1
  <2> QED  BY <1>1, <1>2, <2>1
<1> DEFINE rest == RestValues(v, target)
<1>7. rest = (IF v.begin < first THEN <<left>> ELSE <<>>)
               \o (IF last < EndIndex(v) THEN <<right>> ELSE <<>>)
  BY DEF RestValues
<1> HIDE DEF first, last, left, right, rest
<1>8. CASE v.begin < first /\ last < EndIndex(v)
  <2>1. rest = <<left>> \o <<right>>
    BY <1>7, <1>8
  <2>2. DOMAIN rest = {1, 2} /\ rest[1] = left /\ rest[2] = right
    <3>1. /\ <<left>> \in Seq({left, right}) /\ <<right>> \in Seq({left, right})
          /\ Len(<<left>>) = 1 /\ <<left>>[1] = left
          /\ Len(<<right>>) = 1 /\ <<right>>[1] = right
      OBVIOUS
    <3>2. /\ rest \in Seq({left, right})
          /\ Len(rest) = 2
          /\ \A i \in 1..2 : rest[i] = IF i <= 1 THEN <<left>>[i] ELSE <<right>>[i - 1]
      BY <2>1, <3>1, ConcatProperties
    <3> QED  BY <3>1, <3>2
  <2>3. UNION {UnitsOf(rest[i]) : i \in DOMAIN rest} = UnitsOf(left) \cup UnitsOf(right)
    BY <2>2
  <2>4. UnitsOf(left) \cap UnitsOf(right) = {}
    BY <1>1, <1>5, <1>6, <1>8
  <2>5. \A i \in DOMAIN rest : rest[i] \in Interval
    BY <1>5, <1>6, <1>8, <2>2
  <2>6. \A i, j \in DOMAIN rest :
           i # j => UnitsOf(rest[i]) \cap UnitsOf(rest[j]) = {}
    BY <2>2, <2>4
  <2>7. UNION {UnitsOf(rest[i]) : i \in DOMAIN rest} = UnitsOf(v) \ UnitsOf(target)
    BY <1>4, <1>5, <1>6, <1>8, <2>3
  <2> QED  BY <1>3, <2>5, <2>6, <2>7 DEF rest
<1>9. CASE v.begin < first /\ ~(last < EndIndex(v))
  <2>1. rest = <<left>>
    BY <1>7, <1>9
  <2>2. DOMAIN rest = {1} /\ rest[1] = left
    BY <2>1
  <2>3. UNION {UnitsOf(rest[i]) : i \in DOMAIN rest} = UnitsOf(left)
    BY <2>2
  <2>4. last + 1..EndIndex(v) = {}
    BY <1>1, <1>9
  <2> QED  BY <1>3, <1>4, <1>5, <1>9, <2>2, <2>3, <2>4 DEF rest
<1>10. CASE ~(v.begin < first) /\ last < EndIndex(v)
  <2>1. rest = <<right>>
    BY <1>7, <1>10
  <2>2. DOMAIN rest = {1} /\ rest[1] = right
    BY <2>1
  <2>3. UNION {UnitsOf(rest[i]) : i \in DOMAIN rest} = UnitsOf(right)
    BY <2>2
  <2>4. v.begin..first - 1 = {}
    BY <1>1, <1>10
  <2> QED  BY <1>3, <1>4, <1>6, <1>10, <2>2, <2>3, <2>4 DEF rest
<1>11. CASE ~(v.begin < first) /\ ~(last < EndIndex(v))
  <2>1. rest = <<>>
    BY <1>7, <1>11
  <2>2. DOMAIN rest = {}
    BY <2>1
  <2>3. UNION {UnitsOf(rest[i]) : i \in DOMAIN rest} = {}
    BY <2>2
  <2>4. v.begin..first - 1 = {} /\ last + 1..EndIndex(v) = {}
    BY <1>1, <1>11
  <2> QED  BY <1>3, <1>4, <2>2, <2>3, <2>4 DEF rest
<1> QED  BY <1>8, <1>9, <1>10, <1>11
=============================================================================
