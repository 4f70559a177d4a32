---------------------------- MODULE SenseProofs -----------------------------
(***************************************************************************)
(* Theorems about the selection of function, range, resolution and time,   *)
(* for every hardware: tables of any length, any arguments, any call of    *)
(* the interface refused.  The searches that walk a table and remember an  *)
(* entry are recursive functions; what they find is proved by induction on *)
(* the rounds of the loop, in the form of least counterexamples.           *)
(***************************************************************************)
EXTENDS SenseProperties, SequenceTheorems, WellFoundedInduction, TLAPS

-----------------------------------------------------------------------------
(* A refused command.                                                      *)

\* Whatever the step at which a command of the SENSe group, CONFigure or a
\* query is refused, by its arguments, a search or the hardware, function and
\* parameters stay as they were.
THEOREM RefusalKeepsSelection == Spec => RefusedKeepsSelection
<1>1. ASSUME [Next]_vars, result' # "OK", ~Executing("RST")
      PROVE  UNCHANGED selection
  <2>1. CASE UNCHANGED vars
    BY <2>1 DEF vars
  <2>2. CASE \E c \in CommandTable : Receive(c)
    BY <2>2 DEF Receive
  <2>3. CASE Asking
    BY <2>3 DEF Asking, query_range, query_nplc, query_resolution,
       query_bool_param, sense_functionQ, configureQ, Query, Refuse, OneTooMany,
       HardwareRefuses
  <2>4. CASE Setting
    BY <1>1, <2>4 DEF Setting, sense_function, set_range, set_resolution,
       set_numeric_param, set_bool_param, configure, reset, Refuse, RefuseSearch,
       OneTooMany, HardwareRefuses, Done, Reply
  <2>5. QED
    BY <1>1, <2>1, <2>2, <2>3, <2>4 DEF Next
<1>2. QED
  BY <1>1, PTL DEF Spec, RefusedKeepsSelection

-----------------------------------------------------------------------------
(* The scan that stops at the first hit.                                   *)

\* A set of indices has a smallest one.
LEMMA SmallestOf ==
  ASSUME NEW S, S \subseteq Nat, S # {}
  PROVE  \E i \in S : \A j \in S : i <= j
<1> DEFINE Less == {p \in Nat \X Nat : p[1] < p[2]}
<1>1. OpToRel(<, Nat) = Less
  BY DEF OpToRel
<1>2. IsWellFoundedOn(Less, Nat)
  BY <1>1, NatLessThanWellFounded
<1> HIDE DEF Less
<1>3. PICK i \in S : \A j \in S : <<j, i>> \notin Less
  BY <1>2, WFMin
<1>4. ASSUME NEW j \in S  PROVE i <= j
  <2>1. i \in Nat /\ j \in Nat
    OBVIOUS
  <2>2. j < i => <<j, i>> \in Less
    BY <2>1 DEF Less
  <2>3. ~(j < i)
    BY <1>3, <2>2
  <2>4. QED
    BY <2>1, <2>3
<1>5. QED
  BY <1>4

\* SIZE_MAX is returned exactly when nothing is hit; otherwise the smallest
\* index is.
LEMMA FirstHit ==
  ASSUME NEW hits, hits \subseteq Nat \ {0}
  PROVE  /\ hits = {} => First(hits) = 0
         /\ hits # {} => /\ First(hits) \in hits /\ First(hits) # 0
                         /\ \A j \in hits : First(hits) <= j
<1>1. CASE hits = {}
  BY <1>1 DEF First, SIZE_MAX
<1>2. CASE hits # {}
  <2>1. \E i \in hits : \A j \in hits : i <= j
    BY <1>2, SmallestOf
  <2>2. First(hits) = CHOOSE i \in hits : \A j \in hits : i <= j
    BY <1>2 DEF First
  <2>3. QED
    BY <1>2, <2>1, <2>2
<1>3. QED
  BY <1>1, <1>2

\* Errors are reported in the order of the tests.
LEMMA FirstOfThree ==
  ASSUME NEW a, NEW b, NEW c
  PROVE  FirstError(<<a, b, c>>) =
           IF a # "OK" THEN a ELSE IF b # "OK" THEN b ELSE c
<1> DEFINE e == <<a, b, c>>
           failed == {j \in DOMAIN e : e[j] # "OK"}
<1>1. /\ DOMAIN e = {1, 2, 3}
      /\ e[1] = a /\ e[2] = b /\ e[3] = c
  OBVIOUS
<1>2. failed = {j \in {1, 2, 3} : e[j] # "OK"}
  BY <1>1
<1> HIDE DEF e
<1>3. /\ failed = {} => First(failed) = 0
      /\ failed # {} => /\ First(failed) \in failed /\ First(failed) # 0
                        /\ \A j \in failed : First(failed) <= j
  BY <1>2, FirstHit
<1>4. FirstError(e) = IF First(failed) = 0 THEN "OK" ELSE e[First(failed)]
  BY DEF FirstError
<1>5. QED
  BY <1>1, <1>2, <1>3, <1>4 DEF e

\* The same for two tests.
LEMMA FirstOfTwo ==
  ASSUME NEW a, NEW b
  PROVE  FirstError(<<a, b>>) =
           IF a # "OK" THEN a ELSE b
<1> DEFINE e == <<a, b>>
           failed == {j \in DOMAIN e : e[j] # "OK"}
<1>1. /\ DOMAIN e = {1, 2}
      /\ e[1] = a /\ e[2] = b
  OBVIOUS
<1>2. failed = {j \in {1, 2} : e[j] # "OK"}
  BY <1>1
<1> HIDE DEF e
<1>3. /\ failed = {} => First(failed) = 0
      /\ failed # {} => /\ First(failed) \in failed /\ First(failed) # 0
                        /\ \A j \in failed : First(failed) <= j
  BY <1>2, FirstHit
<1>4. FirstError(e) = IF First(failed) = 0 THEN "OK" ELSE e[First(failed)]
  BY DEF FirstError
<1>5. QED
  BY <1>1, <1>2, <1>3, <1>4 DEF e

-----------------------------------------------------------------------------
(* Loops over a table.                                                     *)

\* Induction from s to n, over the set of the numbers for which a thing holds.
LEMMA InductionUpTo ==
  ASSUME NEW s \in Nat, NEW n \in Nat, NEW P, s \in P,
         \A k \in s .. n : k # s /\ k - 1 \in P => k \in P
  PROVE  s .. n \subseteq P
<1> DEFINE bad == {k \in s .. n : k \notin P}
<1> SUFFICES ASSUME bad # {} PROVE FALSE
  OBVIOUS
<1>1. PICK k \in bad : \A j \in bad : k <= j
  <2>1. bad \subseteq Nat
    OBVIOUS
  <2> HIDE DEF bad
  <2>2. QED
    BY <2>1, SmallestOf
<1>2. k \in s .. n /\ k \notin P /\ k # s
  OBVIOUS
<1>3. k - 1 \in s .. n /\ ~(k <= k - 1)
  <2> HIDE DEF bad
  <2>1. QED
    BY <1>2
<1>4. k - 1 \in P
  BY <1>1, <1>3
<1>5. QED
  BY <1>2, <1>4

\* The functions that keep, of each round of a loop, the value next makes of the
\* number of the round and the value before.
Loops(s, n, S, a, next) ==
  {f \in [s .. n -> S] :
     f[s] = a /\ \A i \in s .. n : i # s => f[i] = next[<<i, f[i - 1]>>]}

\* There is one, so that a recursive definition defines what it says.
LEMMA LoopDefines ==
  ASSUME NEW s \in Nat, NEW n \in Nat, s <= n, NEW S, NEW a \in S,
         NEW next \in [(s .. n) \X S -> S]
  PROVE  Loops(s, n, S, a, next) # {}
<1> DEFINE Defined(k) ==
             \E f \in [s .. k -> S] :
               \A i \in s .. k : f[i] = IF i = s THEN a ELSE next[<<i, f[i - 1]>>]
           P == {k \in s .. n : Defined(k)}
<1>1. s \in P
  <2> DEFINE f == [i \in s .. s |-> a]
  <2>1. f \in [s .. s -> S]
    OBVIOUS
  <2>2. ASSUME NEW i \in s .. s  PROVE i = s /\ f[i] = a
    OBVIOUS
  <2> HIDE DEF f
  <2>3. Defined(s)
    BY <2>1, <2>2
  <2> HIDE DEF Defined
  <2>4. QED
    BY <2>3
<1>2. ASSUME NEW k \in s .. n, k # s, k - 1 \in P
      PROVE  k \in P
  <2>1. PICK g \in [s .. k - 1 -> S] :
          \A i \in s .. k - 1 : g[i] = IF i = s THEN a ELSE next[<<i, g[i - 1]>>]
    BY <1>2
  <2> DEFINE f == [i \in s .. k |-> IF i = k THEN next[<<k, g[k - 1]>>] ELSE g[i]]
  <2>2. ASSUME NEW i \in s .. k
        PROVE  /\ f[i] \in S
               /\ f[i] = IF i = s THEN a ELSE next[<<i, f[i - 1]>>]
    <3> HIDE DEF P
    <3>1. CASE i = k
      <4>1. /\ k - 1 \in s .. k - 1 /\ k - 1 # k
            /\ k - 1 \in s .. k /\ k \in s .. k
        BY <1>2
      <4>2. f[k - 1] = g[k - 1] /\ f[k] = next[<<k, g[k - 1]>>]
        BY <4>1
      <4>3. g[k - 1] \in S /\ next[<<k, g[k - 1]>>] \in S
        BY <4>1
      <4> HIDE DEF f
      <4>4. QED
        BY <1>2, <3>1, <4>2, <4>3
    <3>2. CASE i # k
      <4>1. i \in s .. k - 1 /\ (i # s => i - 1 \in s .. k /\ i - 1 # k)
        BY <3>2
      <4>2. f[i] = g[i] /\ (i # s => f[i - 1] = g[i - 1])
        BY <3>2, <4>1
      <4> HIDE DEF f
      <4>3. QED
        BY <2>1, <4>1, <4>2
    <3>3. QED
      BY <3>1, <3>2
  <2>3. f \in [s .. k -> S]
    <3>1. f = [i \in s .. k |-> f[i]]
      OBVIOUS
    <3> HIDE DEF f, P
    <3>2. QED
      BY <2>2, <3>1
  <2> HIDE DEF f
  <2>4. Defined(k)
    BY <2>2, <2>3
  <2> HIDE DEF Defined
  <2>5. QED
    BY <2>4
<1>3. n \in P /\ s \in s .. n
  <2> HIDE DEF P
  <2>1. s .. n \subseteq P
    BY <1>1, <1>2, InductionUpTo
  <2>2. QED
    BY <2>1
<1>4. PICK f \in [s .. n -> S] :
        \A i \in s .. n : f[i] = IF i = s THEN a ELSE next[<<i, f[i - 1]>>]
  BY <1>3
<1>5. f \in Loops(s, n, S, a, next)
  BY <1>3, <1>4 DEF Loops
<1>6. QED
  BY <1>5

\* A table is a non-empty sequence of numbers.
LEMMA TableShape ==
  ASSUME NEW t \in Tables
  PROVE  /\ Len(t) \in Nat \ {0} /\ DOMAIN t = 1 .. Len(t)
         /\ \A i \in 1 .. Len(t) : t[i] \in Nat
<1>1. t \in Seq(Nat) /\ t # <<>>
  BY DEF Tables
<1>2. Len(t) \in Nat /\ DOMAIN t = 1 .. Len(t) /\ Len(t) # 0
  BY <1>1, LenProperties, EmptySeq
<1>3. QED
  BY <1>1, <1>2, ElementOfSeq

\* The rounds of min_value_index: each keeps the smallest entry seen.
LEMMA MinValue ==
  ASSUME NEW t \in Tables
  PROVE  /\ min_value_index(t) \in DOMAIN t
         /\ \A i \in DOMAIN t : t[min_value_index(t)] <= t[i]
<1> DEFINE n == Len(t)
           Best(b) == b = [i \in 1 .. n |->
                             IF i = 1 THEN 1
                             ELSE IF t[b[i - 1]] > t[i] THEN i ELSE b[i - 1]]
           best == CHOOSE b : Best(b)
<1>1. n \in Nat \ {0} /\ DOMAIN t = 1 .. n /\ \A i \in 1 .. n : t[i] \in Nat
  BY TableShape
<1>2. min_value_index(t) = best[n]
  BY DEF min_value_index
<1>3. \E b : Best(b)
  <2> DEFINE next == [p \in (1 .. n) \X (1 .. n) |->
                        IF t[p[2]] > t[p[1]] THEN p[1] ELSE p[2]]
  <2> HIDE DEF n
  <2>1. next \in [(1 .. n) \X (1 .. n) -> 1 .. n]
    OBVIOUS
  <2>2. \A i, j \in 1 .. n : next[<<i, j>>] = IF t[j] > t[i] THEN i ELSE j
    OBVIOUS
  <2> HIDE DEF next
  <2>3. PICK b \in [1 .. n -> 1 .. n] :
          b[1] = 1 /\ \A i \in 1 .. n : i # 1 => b[i] = next[<<i, b[i - 1]>>]
    <3>1. 1 \in Nat /\ n \in Nat /\ 1 <= n /\ 1 \in 1 .. n
      BY <1>1
    <3>2. Loops(1, n, 1 .. n, 1, next) # {}
      BY <2>1, <3>1, LoopDefines
    <3>3. QED
      BY <3>2 DEF Loops
  <2>4. ASSUME NEW i \in 1 .. n
        PROVE  b[i] = IF i = 1 THEN 1
                      ELSE IF t[b[i - 1]] > t[i] THEN i ELSE b[i - 1]
    <3>1. i # 1 => i - 1 \in 1 .. n
      BY <1>1
    <3>2. i # 1 => b[i - 1] \in 1 .. n
      BY <3>1
    <3>3. QED
      BY <2>2, <2>3, <3>2
  <2>5. b = [i \in 1 .. n |-> b[i]]
    OBVIOUS
  <2>6. Best(b)
    BY <2>4, <2>5
  <2>7. QED
    BY <2>6
<1>4. Best(best)
  BY <1>3
<1> HIDE DEF best
<1> DEFINE P == {k \in 1 .. n : /\ best[k] \in 1 .. k
                                 /\ \A i \in 1 .. k : t[best[k]] <= t[i]}
<1> HIDE DEF n
<1>5. 1 \in P
  BY <1>1, <1>4
<1>6. ASSUME NEW k \in 1 .. n, k # 1, k - 1 \in P
      PROVE  k \in P
  <2> DEFINE j == best[k - 1]
  <2>1. /\ j \in 1 .. k - 1
        /\ \A i \in 1 .. k - 1 : t[j] <= t[i]
    BY <1>6
  <2>2. best[k] = IF t[j] > t[k] THEN k ELSE j
    BY <1>4, <1>6
  <2> HIDE DEF j
  <2>3. t[j] \in Nat /\ t[k] \in Nat
    BY <1>1, <2>1
  <2>4. best[k] \in 1 .. k
    BY <2>1, <2>2
  <2>5. ASSUME NEW i \in 1 .. k  PROVE t[best[k]] <= t[i]
    <3>1. i \in 1 .. k - 1 \/ i = k
      OBVIOUS
    <3>2. t[i] \in Nat
      BY <1>1
    <3>3. QED
      BY <2>1, <2>2, <2>3, <3>1, <3>2
  <2>6. QED
    BY <2>4, <2>5
<1>7. n \in P
  <2> HIDE DEF P
  <2>1. 1 .. n \subseteq P
    BY <1>1, <1>5, <1>6, InductionUpTo
  <2>2. QED
    BY <1>1, <2>1
<1>8. QED
  BY <1>1, <1>2, <1>7 DEF n
\* The rounds of max_value_index: each keeps the largest entry seen.
LEMMA MaxValue ==
  ASSUME NEW t \in Tables
  PROVE  /\ max_value_index(t) \in DOMAIN t
         /\ \A i \in DOMAIN t : t[i] <= t[max_value_index(t)]
<1> DEFINE n == Len(t)
           Best(b) == b = [i \in 1 .. n |->
                             IF i = 1 THEN 1
                             ELSE IF t[b[i - 1]] < t[i] THEN i ELSE b[i - 1]]
           best == CHOOSE b : Best(b)
<1>1. n \in Nat \ {0} /\ DOMAIN t = 1 .. n /\ \A i \in 1 .. n : t[i] \in Nat
  BY TableShape
<1>2. max_value_index(t) = best[n]
  BY DEF max_value_index
<1>3. \E b : Best(b)
  <2> DEFINE next == [p \in (1 .. n) \X (1 .. n) |->
                        IF t[p[2]] < t[p[1]] THEN p[1] ELSE p[2]]
  <2> HIDE DEF n
  <2>1. next \in [(1 .. n) \X (1 .. n) -> 1 .. n]
    OBVIOUS
  <2>2. \A i, j \in 1 .. n : next[<<i, j>>] = IF t[j] < t[i] THEN i ELSE j
    OBVIOUS
  <2> HIDE DEF next
  <2>3. PICK b \in [1 .. n -> 1 .. n] :
          b[1] = 1 /\ \A i \in 1 .. n : i # 1 => b[i] = next[<<i, b[i - 1]>>]
    <3>1. 1 \in Nat /\ n \in Nat /\ 1 <= n /\ 1 \in 1 .. n
      BY <1>1
    <3>2. Loops(1, n, 1 .. n, 1, next) # {}
      BY <2>1, <3>1, LoopDefines
    <3>3. QED
      BY <3>2 DEF Loops
  <2>4. ASSUME NEW i \in 1 .. n
        PROVE  b[i] = IF i = 1 THEN 1
                      ELSE IF t[b[i - 1]] < t[i] THEN i ELSE b[i - 1]
    <3>1. i # 1 => i - 1 \in 1 .. n
      BY <1>1
    <3>2. i # 1 => b[i - 1] \in 1 .. n
      BY <3>1
    <3>3. QED
      BY <2>2, <2>3, <3>2
  <2>5. b = [i \in 1 .. n |-> b[i]]
    OBVIOUS
  <2>6. Best(b)
    BY <2>4, <2>5
  <2>7. QED
    BY <2>6
<1>4. Best(best)
  BY <1>3
<1> HIDE DEF best
<1> DEFINE P == {k \in 1 .. n : /\ best[k] \in 1 .. k
                                 /\ \A i \in 1 .. k : t[i] <= t[best[k]]}
<1> HIDE DEF n
<1>5. 1 \in P
  BY <1>1, <1>4
<1>6. ASSUME NEW k \in 1 .. n, k # 1, k - 1 \in P
      PROVE  k \in P
  <2> DEFINE j == best[k - 1]
  <2>1. /\ j \in 1 .. k - 1
        /\ \A i \in 1 .. k - 1 : t[i] <= t[j]
    BY <1>6
  <2>2. best[k] = IF t[j] < t[k] THEN k ELSE j
    BY <1>4, <1>6
  <2> HIDE DEF j
  <2>3. t[j] \in Nat /\ t[k] \in Nat
    BY <1>1, <2>1
  <2>4. best[k] \in 1 .. k
    BY <2>1, <2>2
  <2>5. ASSUME NEW i \in 1 .. k  PROVE t[i] <= t[best[k]]
    <3>1. i \in 1 .. k - 1 \/ i = k
      OBVIOUS
    <3>2. t[i] \in Nat
      BY <1>1
    <3>3. QED
      BY <2>1, <2>2, <2>3, <3>1, <3>2
  <2>6. QED
    BY <2>4, <2>5
<1>7. n \in P
  <2> HIDE DEF P
  <2>1. 1 .. n \subseteq P
    BY <1>1, <1>5, <1>6, InductionUpTo
  <2>2. QED
    BY <1>1, <2>1
<1>8. QED
  BY <1>1, <1>2, <1>7 DEF n
\* The rounds of less_or_equal_index: each keeps the largest entry seen that is
\* small enough, or none.
LEMMA LargestBelow ==
  ASSUME NEW t \in Tables, NEW v,
         NEW r, r = less_or_equal_index(t, v)
  PROVE  /\ r = 0 => \A i \in DOMAIN t : ~LessOrEqual(t[i], v)
         /\ r # 0 => /\ r \in DOMAIN t /\ LessOrEqual(t[r], v)
                     /\ \A i \in DOMAIN t : LessOrEqual(t[i], v) => t[i] <= t[r]
<1> DEFINE n == Len(t)
           small(i) == LessOrEqual(t[i], v)
           Best(b) == b = [i \in 0 .. n |->
                             IF i = 0 THEN SIZE_MAX
                             ELSE IF /\ LessOrEqual(t[i], v)
                                     /\ \/ b[i - 1] = SIZE_MAX
                                        \/ t[b[i - 1]] < t[i]
                                  THEN i ELSE b[i - 1]]
           best == CHOOSE b : Best(b)
<1>1. n \in Nat \ {0} /\ DOMAIN t = 1 .. n /\ \A i \in 1 .. n : t[i] \in Nat
  BY TableShape
<1>2. r = best[n]
  BY DEF less_or_equal_index
<1>3. \E b : Best(b)
  <2> DEFINE next == [p \in (0 .. n) \X (0 .. n) |->
                        IF /\ small(p[1])
                           /\ p[2] = SIZE_MAX \/ t[p[2]] < t[p[1]]
                        THEN p[1] ELSE p[2]]
  <2> HIDE DEF n, small
  <2>1. next \in [(0 .. n) \X (0 .. n) -> 0 .. n]
    OBVIOUS
  <2>2. \A i, j \in 0 .. n :
          next[<<i, j>>] = IF small(i) /\ (j = SIZE_MAX \/ t[j] < t[i]) THEN i ELSE j
    OBVIOUS
  <2> HIDE DEF next
  <2>3. PICK b \in [0 .. n -> 0 .. n] :
          b[0] = 0 /\ \A i \in 0 .. n : i # 0 => b[i] = next[<<i, b[i - 1]>>]
    <3>1. 0 \in Nat /\ n \in Nat /\ 0 <= n /\ 0 \in 0 .. n
      BY <1>1
    <3>2. Loops(0, n, 0 .. n, 0, next) # {}
      BY <2>1, <3>1, LoopDefines
    <3>3. QED
      BY <3>2 DEF Loops
  <2>4. ASSUME NEW i \in 0 .. n
        PROVE  b[i] = IF i = 0 THEN SIZE_MAX
                      ELSE IF small(i) /\ (b[i - 1] = SIZE_MAX \/ t[b[i - 1]] < t[i])
                           THEN i ELSE b[i - 1]
    <3>1. i # 0 => i - 1 \in 0 .. n
      BY <1>1
    <3>2. i # 0 => b[i - 1] \in 0 .. n
      BY <3>1
    <3>3. QED
      BY <2>2, <2>3, <3>2 DEF SIZE_MAX
  <2>5. b = [i \in 0 .. n |-> b[i]]
    OBVIOUS
  <2>6. Best(b)
    BY <2>4, <2>5 DEF small
  <2>7. QED
    BY <2>6
<1>4. Best(best)
  BY <1>3
<1> HIDE DEF best
<1> DEFINE P == {k \in 0 .. n :
                   /\ best[k] = 0 => \A i \in 1 .. k : ~small(i)
                   /\ best[k] # 0 => /\ best[k] \in 1 .. k /\ small(best[k])
                                     /\ \A i \in 1 .. k :
                                          small(i) => t[i] <= t[best[k]]}
<1>5. ASSUME NEW k \in 0 .. n
      PROVE  best[k] = IF k = 0 THEN 0
                       ELSE IF small(k) /\ (best[k - 1] = 0 \/ t[best[k - 1]] < t[k])
                            THEN k ELSE best[k - 1]
  BY <1>4 DEF SIZE_MAX
<1> HIDE DEF n, small, Best
<1>6. 0 \in P
  BY <1>1, <1>5
<1>7. ASSUME NEW k \in 0 .. n, k # 0, k - 1 \in P
      PROVE  k \in P
  <2> DEFINE j == best[k - 1]
  <2>1. /\ j = 0 => \A i \in 1 .. k - 1 : ~small(i)
        /\ j # 0 => /\ j \in 1 .. k - 1 /\ small(j)
                    /\ \A i \in 1 .. k - 1 : small(i) => t[i] <= t[j]
    BY <1>7
  <2>2. best[k] = IF small(k) /\ (j = 0 \/ t[j] < t[k]) THEN k ELSE j
    BY <1>5, <1>7
  <2> HIDE DEF j, P
  <2>3. k \in 1 .. n /\ t[k] \in Nat /\ (j # 0 => j \in 1 .. k /\ t[j] \in Nat)
    BY <1>1, <1>7, <2>1
  <2>4. ASSUME best[k] = 0, NEW i \in 1 .. k  PROVE ~small(i)
    BY <2>1, <2>2, <2>3, <2>4
  <2>5. ASSUME best[k] # 0
        PROVE  best[k] \in 1 .. k /\ small(best[k])
    BY <2>1, <2>2, <2>3, <2>5
  <2>6. ASSUME best[k] # 0, NEW i \in 1 .. k, small(i)
        PROVE  t[i] <= t[best[k]]
    <3>1. t[i] \in Nat
      BY <1>1
    <3>2. CASE i = k
      BY <2>2, <2>3, <2>6, <3>1, <3>2
    <3>3. CASE i # k
      <4>1. i \in 1 .. k - 1 /\ j # 0 /\ t[i] <= t[j]
        BY <2>1, <2>3, <2>6, <3>3
      <4>2. QED
        BY <2>2, <2>3, <3>1, <4>1
    <3>4. QED
      BY <3>2, <3>3
  <2>7. QED
    BY <2>4, <2>5, <2>6 DEF P
<1>8. n \in P
  <2> HIDE DEF P
  <2>1. 0 .. n \subseteq P
    BY <1>1, <1>6, <1>7, InductionUpTo
  <2>2. QED
    BY <1>1, <2>1
<1>9. QED
  BY <1>1, <1>2, <1>8 DEF n, small

-----------------------------------------------------------------------------
(* Commands and searches in their types.                                   *)

\* What each command hands over is one of the arguments it is offered.
LEMMA CommandShape ==
  ASSUME command \in CommandTable \union {None}
  PROVE  /\ arg \in Arg /\ arg2 \in Arg /\ m \in AllModes
         /\ ~Executing("FUNC") => m \in Modes
<1> USE DEF arg, arg2, m, Executing
<1>1. NoArg \in Arg
  BY DEF NoArg, Arg, ArgTypes, Units
<1>2. "DCV" \in Modes /\ Modes \subseteq AllModes
  BY SenseAssumption
<1>3. CASE command = None
  BY <1>1, <1>2, <1>3 DEF None, Command
<1>4. CASE command \in CommandTable
  <2>1. RangeArgs \subseteq Arg /\ ResolutionArgs \subseteq Arg /\ NplcArgs \subseteq Arg
    BY SenseAssumption
  <2>2. SenseModes \subseteq Modes /\ NplcModes \subseteq Modes
    BY DEF SenseModes, NplcModes
  <2>3. PICK h, f, a, b : /\ command = Command(h, f, a, b)
                          /\ a \in Arg /\ b \in Arg /\ f \in AllModes
                          /\ h # "FUNC" => f \in Modes
    BY <1>1, <1>2, <1>4, <2>1, <2>2 DEF CommandTable
  <2>4. QED
    BY <2>3 DEF Command
<1>5. QED
  BY <1>3, <1>4

\* The tables of the hardware.
LEMMA HardwareTables ==
  /\ Ranges \in Tables /\ NPLCs \in Tables
  /\ DOMAIN Resolutions = DOMAIN Ranges
  /\ \A i \in DOMAIN Ranges : Resolutions[i] \in Tables
<1>1. Resolutions \in Seq(Tables) /\ Len(Resolutions) = Len(Ranges)
  BY SenseAssumption
<1>2. Ranges \in Tables /\ NPLCs \in Tables
  BY SenseAssumption
<1>3. DOMAIN Ranges = 1 .. Len(Ranges)
  BY <1>2, TableShape
<1>4. DOMAIN Resolutions = 1 .. Len(Ranges)
  BY <1>1, LenProperties
<1>5. ASSUME NEW i \in DOMAIN Ranges  PROVE Resolutions[i] \in Tables
  BY <1>1, <1>3, ElementOfSeq
<1>6. QED
  BY <1>2, <1>3, <1>4, <1>5

\* The indices of the tables of resolutions are positive, and include the first.
LEMMA IndicesOfTables ==
  /\ ResolutionIndices \subseteq Nat \ {SIZE_MAX} /\ 1 \in ResolutionIndices
  /\ \A i \in DOMAIN Ranges : DOMAIN Resolutions[i] \subseteq ResolutionIndices
<1>1. 1 \in DOMAIN Ranges
  BY HardwareTables, TableShape
<1>2. \A i \in DOMAIN Ranges :
        DOMAIN Resolutions[i] \subseteq Nat \ {0} /\ 1 \in DOMAIN Resolutions[i]
  BY HardwareTables, TableShape
<1>3. QED
  BY <1>1, <1>2 DEF ResolutionIndices, SIZE_MAX

\* A scan of a table finds an entry of it, or SIZE_MAX.
LEMMA ScanInTable ==
  ASSUME NEW t \in Tables, NEW hits, hits \subseteq DOMAIN t
  PROVE  First(hits) \in {0} \union DOMAIN t
<1>1. hits \subseteq Nat \ {0}
  BY TableShape
<1>2. QED
  BY <1>1, FirstHit

\* So does each search: SENSe's of ranges, resolutions and times, CONFigure's.
LEMMA SearchesInTables ==
  ASSUME NEW a \in Arg
  PROVE  /\ RangeIndex(a) \in {0} \union DOMAIN Ranges
         /\ a.type \in {"MIN", "MAX"} => RangeIndex(a) \in DOMAIN Ranges
         /\ ConfiguredRange(a) \in {0} \union DOMAIN Ranges
         /\ NplcIndex(a) \in {0} \union DOMAIN NPLCs
<1>1. range_index(a.value) \in {0} \union DOMAIN Ranges
  BY HardwareTables, ScanInTable DEF range_index
<1>2. greater_or_equal_index(NPLCs, a.value) \in {0} \union DOMAIN NPLCs
  BY HardwareTables, ScanInTable DEF greater_or_equal_index
<1>3. /\ min_value_index(Ranges) \in DOMAIN Ranges
      /\ max_value_index(Ranges) \in DOMAIN Ranges
      /\ min_value_index(NPLCs) \in DOMAIN NPLCs
      /\ max_value_index(NPLCs) \in DOMAIN NPLCs
  BY HardwareTables, MinValue, MaxValue
<1>4. 1 \in DOMAIN Ranges /\ max_index(Ranges) \in DOMAIN Ranges
  BY HardwareTables, TableShape DEF max_index
<1>5. QED
  BY <1>1, <1>2, <1>3, <1>4 DEF RangeIndex, ConfiguredRange, NplcIndex, range_index

\* The searches of a table of resolutions.
LEMMA ResolutionsInTables ==
  ASSUME NEW t \in Tables, NEW a \in Arg
  PROVE  /\ ResolutionIndex(t, a) \in {0} \union DOMAIN t
         /\ a.type \in {"MIN", "MAX"} => ResolutionIndex(t, a) \in DOMAIN t
         /\ ConfiguredResolution(t, a) \in {0} \union DOMAIN t
<1>1. less_or_equal_index(t, a.value) \in {0} \union DOMAIN t
  <2>1. PICK r : r = less_or_equal_index(t, a.value)
    OBVIOUS
  <2>2. QED
    BY <2>1, LargestBelow
<1>2. min_value_index(t) \in DOMAIN t /\ max_value_index(t) \in DOMAIN t
  BY MinValue, MaxValue
<1>3. 1 \in DOMAIN t /\ max_index(t) \in DOMAIN t
  BY TableShape DEF max_index
<1>4. ASSUME NEW i, i = find_greater_than(t, a.value), i # 0
      PROVE  i - 1 \in {0} \union DOMAIN t
  <2>1. i \in {0} \union DOMAIN t
    BY <1>4, ScanInTable DEF find_greater_than
  <2>2. i \in 1 .. Len(t) /\ Len(t) \in Nat
    BY <1>4, <2>1, TableShape
  <2>3. i - 1 \in {0} \union 1 .. Len(t)
    BY <2>2
  <2>4. QED
    BY <2>3, TableShape
<1>5. QED
  BY <1>1, <1>2, <1>3, <1>4 DEF ResolutionIndex, ConfiguredResolution

\* SENSe accepts MIN, MAX and a number for which the search found an entry.
LEMMA SenseAccepts ==
  ASSUME NEW a, NEW index, NEW e
  PROVE  /\ SenseError(a, index, e) = "OK" =>
              /\ a.type \in {"MIN", "MAX", "NUMBER"}
              /\ e # "OK" /\ a.type = "NUMBER" => index # 0
         /\ SenseError(a, index, e) \in
              {"OK", "MISSING_PARAMETER", "ILLEGAL_PARAMETER_VALUE", e}
BY FirstOfThree DEF SenseError, Unless, SIZE_MAX
-----------------------------------------------------------------------------
(* What each command does to the selection.                                *)

\* A command that sets something answers nothing but its error.
Answered ==
  /\ command' = None /\ result' \in Errors
  /\ response' = [name |-> "none", values |-> <<>>]

\* It is refused: nothing changes.
Refused == result' # "OK" /\ UNCHANGED selection

\* A command is refused with an error of the list, and changes nothing.
LEMMA RefusalAnswers ==
  ASSUME NEW e \in Errors, e # "OK",
         Refuse(e) \/ RefuseSearch(e) \/ OneTooMany \/ HardwareRefuses
  PROVE  Answered /\ Refused
BY DEF Answered, Refused, Refuse, RefuseSearch, OneTooMany, HardwareRefuses, Reply,
   Errors

\* RANGe is refused, or hands over an index of the table of ranges.
LEMMA SetRange ==
  ASSUME SenseTypeOK, set_range
  PROVE  /\ Answered
         /\ \/ Refused
            \/ /\ result' = "OK" /\ m \in Modes
               /\ RangeIndex(arg) \in DOMAIN Ranges
               /\ range' = [range EXCEPT ![m] = RangeIndex(arg)]
               /\ UNCHANGED <<mode, auto_range, resolution, nplc>>
<1> DEFINE e == SenseError(arg, RangeIndex(arg), "DATA_OUT_OF_RANGE")
<1>1. m \in Modes /\ arg \in Arg
  BY CommandShape DEF SenseTypeOK, set_range, Executing
<1>2. e \in Errors /\ (e = "OK" => RangeIndex(arg) \in DOMAIN Ranges)
  BY <1>1, SenseAccepts, SearchesInTables DEF Errors
<1> HIDE DEF e
<1>3. CASE e = "OK" /\ range' = [range EXCEPT ![m] = RangeIndex(arg)]
             /\ Done /\ UNCHANGED <<mode, auto_range, resolution, nplc>>
  BY <1>1, <1>2, <1>3 DEF Done, Reply, Answered, Errors
<1>4. CASE (e # "OK" /\ Refuse(e)) \/ OneTooMany \/ HardwareRefuses
  BY <1>2, <1>4, RefusalAnswers DEF Errors
<1>5. QED
  BY <1>3, <1>4 DEF set_range, e

\* RESolution is refused, or hands over an index of the table of its range.
LEMMA SetResolution ==
  ASSUME SenseTypeOK, set_resolution
  PROVE  /\ Answered
         /\ \/ Refused
            \/ /\ result' = "OK" /\ m \in Modes
               /\ LET k == ResolutionIndex(Resolutions[range[m]], arg)
                  IN  /\ k \in DOMAIN Resolutions[range[m]]
                      /\ resolution' = [resolution EXCEPT ![m] = k]
               /\ UNCHANGED <<mode, range, auto_range, nplc>>
<1> DEFINE k == ResolutionIndex(AllowedResolutions(range[m]), arg)
           e == SenseError(arg, k, "CANNOT_ACHIEVE_REQUESTED_RESOLUTION")
<1>1. m \in Modes /\ arg \in Arg
  BY CommandShape DEF SenseTypeOK, set_resolution, Executing
<1>2. Resolutions[range[m]] \in Tables
  BY <1>1, HardwareTables DEF SenseTypeOK
<1>3. e \in Errors /\ (e = "OK" => k \in DOMAIN Resolutions[range[m]])
  BY <1>1, <1>2, SenseAccepts, ResolutionsInTables DEF Errors, AllowedResolutions
<1>4. k = ResolutionIndex(Resolutions[range[m]], arg)
  BY DEF k, AllowedResolutions
<1>5. \/ /\ e = "OK" /\ resolution' = [resolution EXCEPT ![m] = k]
         /\ Done /\ UNCHANGED <<mode, range, auto_range, nplc>>
      \/ e # "OK" /\ Refuse(e)
      \/ OneTooMany \/ HardwareRefuses
  BY DEF set_resolution
<1> HIDE DEF e, k
<1>6. CASE e = "OK" /\ resolution' = [resolution EXCEPT ![m] = k]
             /\ Done /\ UNCHANGED <<mode, range, auto_range, nplc>>
  BY <1>1, <1>3, <1>4, <1>6 DEF Done, Reply, Answered, Errors
<1>7. CASE (e # "OK" /\ Refuse(e)) \/ OneTooMany \/ HardwareRefuses
  BY <1>3, <1>7, RefusalAnswers DEF Errors
<1>8. QED
  BY <1>5, <1>6, <1>7, Zenon

\* NPLCycles is refused, or hands over an index of its table or SIZE_MAX.
LEMMA SetNplc ==
  ASSUME SenseTypeOK, set_numeric_param
  PROVE  /\ Answered
         /\ \/ Refused
            \/ /\ result' = "OK" /\ m \in Modes
               /\ NplcIndex(arg) \in {0} \union DOMAIN NPLCs
               /\ nplc' = [nplc EXCEPT ![m] = NplcIndex(arg)]
               /\ UNCHANGED <<mode, range, auto_range, resolution>>
<1> DEFINE e == SenseError(arg, NplcIndex(arg), "OK")
<1>1. m \in Modes /\ arg \in Arg
  BY CommandShape DEF SenseTypeOK, set_numeric_param, Executing
<1>2. e \in Errors /\ NplcIndex(arg) \in {0} \union DOMAIN NPLCs
  BY <1>1, SenseAccepts, SearchesInTables DEF Errors
<1> HIDE DEF e
<1>3. CASE e = "OK" /\ nplc' = [nplc EXCEPT ![m] = NplcIndex(arg)]
             /\ Done /\ UNCHANGED <<mode, range, auto_range, resolution>>
  BY <1>1, <1>2, <1>3 DEF Done, Reply, Answered, Errors
<1>4. CASE (e # "OK" /\ Refuse(e)) \/ OneTooMany \/ HardwareRefuses
  BY <1>2, <1>4, RefusalAnswers DEF Errors
<1>5. QED
  BY <1>3, <1>4 DEF set_numeric_param, e

\* SENSe:FUNCtion and RANGe:AUTO search for nothing.
LEMMA SetFlag ==
  ASSUME SenseTypeOK, sense_function \/ set_bool_param
  PROVE  /\ Answered
         /\ \/ Refused
            \/ /\ mode' \in Modes /\ auto_range' \in [Modes -> BOOLEAN]
               /\ UNCHANGED <<range, resolution, nplc>>
<1>1. mode \in Modes /\ auto_range \in [Modes -> BOOLEAN]
  BY DEF SenseTypeOK
<1>2. CASE sense_function
  <2>1. CASE mode' = m /\ m \in Modes /\ Done
               /\ UNCHANGED <<range, auto_range, resolution, nplc>>
    BY <1>1, <2>1 DEF Done, Reply, Answered, Errors
  <2>2. CASE \/ Refuse("DATA_OUT_OF_RANGE") \/ Refuse("MISSING_PARAMETER")
             \/ HardwareRefuses
    BY <2>2, RefusalAnswers DEF Errors
  <2>3. QED
    BY <1>2, <2>1, <2>2 DEF sense_function
<1>3. CASE set_bool_param
  <2>1. CASE /\ \E b \in BOOLEAN : auto_range' = [auto_range EXCEPT ![m] = b]
             /\ Done /\ UNCHANGED <<mode, range, resolution, nplc>>
    BY <1>1, <2>1 DEF Done, Reply, Answered, Errors
  <2>2. CASE Refuse("MISSING_PARAMETER") \/ OneTooMany \/ HardwareRefuses
    BY <2>2, RefusalAnswers DEF Errors
  <2>3. QED
    BY <1>3, <2>1, <2>2 DEF set_bool_param
<1>4. QED
  BY <1>2, <1>3

\* CONFigure finds a range and a resolution in the table of that range.
LEMMA Configures ==
  ASSUME SenseTypeOK, configure
  PROVE  /\ Answered
         /\ \/ Refused
            \/ /\ result' = "OK" /\ m \in Modes
               /\ ConfiguredRange(arg) \in DOMAIN Ranges
               /\ ConfiguredResolution(Resolutions[ConfiguredRange(arg)], arg2)
                    \in DOMAIN Resolutions[ConfiguredRange(arg)]
               /\ SetMode(ConfiguredRange(arg),
                    ConfiguredResolution(Resolutions[ConfiguredRange(arg)], arg2))
<1> DEFINE i == ConfiguredRange(arg)
           k == IF i = SIZE_MAX THEN SIZE_MAX
                ELSE ConfiguredResolution(AllowedResolutions(i), arg2)
           parsed == FirstError(<<validate_range, validate_resolution>>)
           found == FirstError(<<Unless(i # SIZE_MAX, "DATA_OUT_OF_RANGE"),
                      Unless(k # SIZE_MAX, "CANNOT_ACHIEVE_REQUESTED_RESOLUTION")>>)
<1>1. m \in Modes /\ arg \in Arg /\ arg2 \in Arg
  BY CommandShape DEF SenseTypeOK, configure, Executing
<1>2. i \in {0} \union DOMAIN Ranges
  BY <1>1, SearchesInTables
<1>3. i # 0 => k \in {0} \union DOMAIN Resolutions[i]
  BY <1>1, <1>2, HardwareTables, ResolutionsInTables DEF AllowedResolutions, SIZE_MAX
<1>4. \A a, types : Validate(a, types) \in Errors
  BY FirstOfTwo DEF Validate, Unless, Errors
<1>5. parsed \in Errors
  BY <1>4, FirstOfTwo DEF validate_range, validate_resolution
<1>6. found \in Errors /\ (found = "OK" => i # 0 /\ k # 0)
  BY FirstOfTwo DEF Unless, SIZE_MAX, Errors
<1>7. i # 0 => k = ConfiguredResolution(Resolutions[i], arg2)
  BY DEF SIZE_MAX, AllowedResolutions
<1> HIDE DEF i, k, parsed, found
<1>8. CASE found = "OK" /\ SetMode(i, k) /\ Done
  BY <1>1, <1>2, <1>3, <1>6, <1>7, <1>8 DEF Done, Reply, Answered, Errors, i
<1>9. CASE \/ (parsed # "OK" /\ Refuse(parsed)) \/ (found # "OK" /\ RefuseSearch(found))
           \/ OneTooMany \/ HardwareRefuses
  BY <1>5, <1>6, <1>9, RefusalAnswers DEF Errors
<1>10. QED
  BY <1>8, <1>9 DEF configure, parsed, found, i, k

\* *RST sets every index to the first.
LEMMA Resets ==
  ASSUME reset
  PROVE  /\ Answered
         /\ \/ UNCHANGED selection
            \/ /\ mode' = "DCV" /\ auto_range' = [f \in Modes |-> TRUE]
               /\ range' = [f \in Modes |-> 1] /\ resolution' = [f \in Modes |-> 1]
               /\ nplc' = [f \in Modes |-> 1]
BY DEF reset, Done, Reply, Answered, Errors

-----------------------------------------------------------------------------
(* Queries.                                                                *)

\* What a query answers: numbers, and Outside only from an index outside.
Asked ==
  /\ command' = None /\ result' \in Errors /\ UNCHANGED selection
  /\ response' \in [name : Modes \union {"none"}, values : Seq(Int)]
  /\ AnswersFromTables'

\* Without an entry read outside there is nothing to explain.
LEMMA RefusalAsked ==
  ASSUME NEW e \in Errors, e # "OK", Refuse(e) \/ OneTooMany \/ HardwareRefuses
  PROVE  Asked
<1>1. Answered /\ UNCHANGED selection
  BY RefusalAnswers DEF Refused
<1>2. <<>> \in Seq(Int) /\ DOMAIN <<>> = {}
  BY EmptySeq
<1>3. QED
  BY <1>1, <1>2 DEF Asked, Answered, AnswersFromTables

\* An entry of a table is a number, and no number is Outside.
LEMMA ReadsTable ==
  ASSUME NEW t \in Tables, NEW i
  PROVE  /\ Read(t, i) \in Int
         /\ Read(t, i) = Outside => i \notin DOMAIN t
BY TableShape DEF Read, Outside

\* Nor is the smallest, the largest or the selected entry, but for its index.
LEMMA QueriesTable ==
  ASSUME NEW t \in Tables, NEW a, NEW i
  PROVE  /\ Queried(t, a, i) \in Int
         /\ Queried(t, a, i) = Outside => i \notin DOMAIN t
BY ReadsTable, MinValue, MaxValue DEF Queried

\* A function is left with an integration time outside its table.
Untimed == \E f \in Modes : nplc[f] = SIZE_MAX

\* A query of one number, which is Outside only where a function is so left.
LEMMA QueryAnswers ==
  ASSUME SenseTypeOK, NEW types, NEW value \in Int, value = Outside => Untimed,
         Query(types, value)
  PROVE  Asked
<1>1. CASE Reply("OK", "none", <<value>>) /\ UNCHANGED selection
  <2>1. <<value>> \in Seq(Int) /\ DOMAIN <<value>> = {1} /\ <<value>>[1] = value
    OBVIOUS
  <2>2. Untimed => Untimed'
    BY <1>1 DEF selection, Untimed
  <2>3. QED
    BY <1>1, <2>1, <2>2 DEF Reply, Asked, AnswersFromTables, Untimed, Errors
<1>2. CASE Refuse("ILLEGAL_PARAMETER_VALUE") \/ OneTooMany \/ HardwareRefuses
  BY <1>2, RefusalAsked DEF Errors
<1>3. QED
  BY <1>1, <1>2 DEF Query

\* Every query answers so.
LEMMA Asks == ASSUME SenseTypeOK, Asking PROVE Asked
<1>2. /\ mode \in Modes /\ range \in [Modes -> DOMAIN Ranges]
      /\ nplc \in [Modes -> {SIZE_MAX} \union DOMAIN NPLCs]
  BY DEF SenseTypeOK
<1>3. CASE query_range
  <2>1. m \in Modes
    BY <1>3, CommandShape DEF SenseTypeOK, query_range, Executing
  <2> DEFINE value == Queried(Ranges, arg, range[m])
  <2>2. value \in Int /\ value # Outside
    BY <2>1, <1>2, HardwareTables, QueriesTable
  <2> HIDE DEF value
  <2>3. QED
    BY <1>3, <2>2, QueryAnswers DEF query_range, value
<1>4. CASE query_nplc
  <2>1. m \in Modes
    BY <1>4, CommandShape DEF SenseTypeOK, query_nplc, Executing
  <2> DEFINE value == Queried(NPLCs, arg, nplc[m])
  <2>2. value \in Int /\ (value = Outside => Untimed)
    BY <2>1, <1>2, HardwareTables, QueriesTable DEF Untimed
  <2> HIDE DEF value
  <2>3. QED
    BY <1>4, <2>2, QueryAnswers DEF query_nplc, value
<1>5. CASE query_resolution
  <2>1. m \in Modes
    BY <1>5, CommandShape DEF SenseTypeOK, query_resolution, Executing
  <2> DEFINE value == Queried(AllowedResolutions(range[m]), arg, resolution[m])
  <2>2. value \in Int
    BY <2>1, <1>2, HardwareTables, QueriesTable DEF AllowedResolutions
  <2>3. arg.type \in {"MIN", "MAX"} => value # Outside
    <3>1. AllowedResolutions(range[m]) \in Tables
      BY <2>1, <1>2, HardwareTables DEF AllowedResolutions
    <3>2. QED
      BY <3>1, MinValue, MaxValue, ReadsTable DEF Queried
  <2> HIDE DEF value
  <2>4. Query({"MIN", "MAX"}, value)
    BY <1>5 DEF query_resolution, value
  <2>5. CASE arg.type \in {"MIN", "MAX"}
    BY <2>2, <2>3, <2>4, <2>5, QueryAnswers
  <2>6. CASE arg.type \notin {"MIN", "MAX"}
    BY <2>4, <2>6, RefusalAsked DEF Query, Errors
  <2>7. QED
    BY <2>5, <2>6
<1>6. CASE query_bool_param
  <2> DEFINE value == IF auto_range[m] THEN 1 ELSE 0
  <2>1. value \in Int /\ value # Outside
    BY DEF Outside
  <2> HIDE DEF value
  <2>2. Query({arg.type}, value)
    BY <1>6 DEF query_bool_param, Query, value
  <2>3. QED
    BY <2>1, <2>2, QueryAnswers
<1>7. CASE sense_functionQ
  <2>1. CASE Reply("OK", mode, <<>>) /\ UNCHANGED selection
    <3>1. <<>> \in Seq(Int) /\ DOMAIN <<>> = {}
      BY EmptySeq
    <3>2. QED
      BY <1>2, <2>1, <3>1 DEF Reply, Asked, AnswersFromTables, Errors
  <2>2. CASE HardwareRefuses
    BY <2>2, RefusalAsked DEF Errors
  <2>3. QED
    BY <1>7, <2>1, <2>2 DEF sense_functionQ
<1>8. CASE configureQ
  <2> DEFINE r == Read(Ranges, range[mode])
             k == Read(AllowedResolutions(range[mode]), resolution[mode])
  <2>1. r \in Int /\ r # Outside
    BY <1>2, HardwareTables, ReadsTable
  <2>2. k \in Int /\ (k = Outside => ~Legal(mode))
    BY <1>2, HardwareTables, ReadsTable DEF Legal, AllowedResolutions
  <2> HIDE DEF r, k
  <2>3. CASE Reply("OK", mode, <<r, k>>) /\ UNCHANGED selection
    <3>1. /\ <<r, k>> \in Seq(Int) /\ DOMAIN <<r, k>> = {1, 2}
          /\ <<r, k>>[1] = r /\ <<r, k>>[2] = k
      BY <2>1, <2>2
    <3>2. ~Legal(mode) => ~Legal(mode)' /\ mode' = mode
      BY <2>3 DEF selection, Legal
    <3>3. QED
      BY <1>2, <2>1, <2>2, <2>3, <3>1, <3>2
      DEF Reply, Asked, AnswersFromTables, Errors
  <2>4. CASE HardwareRefuses
    BY <2>4, RefusalAsked DEF Errors
  <2>5. QED
    BY <1>8, <2>3, <2>4 DEF configureQ, r, k
<1>9. QED
  BY <1>3, <1>4, <1>5, <1>6, <1>7, <1>8 DEF Asking

-----------------------------------------------------------------------------
(* Types, and what may leave a function with an index outside its table.   *)

\* A step keeps every variable in its type.
LEMMA SettingInRange == ASSUME SenseTypeOK, Setting PROVE SenseTypeOK'
<1> USE DEF SenseTypeOK, Answered, Refused
<1>1. ASSUME Answered
      PROVE  /\ result' \in Errors /\ command' \in CommandTable \union {None}
             /\ response' \in [name : Modes \union {"none"}, values : Seq(Int)]
  <2>1. <<>> \in Seq(Int)
    BY EmptySeq
  <2>2. QED
    BY <1>1, <2>1
<1>2. ASSUME UNCHANGED selection, Answered  PROVE SenseTypeOK'
  BY <1>1, <1>2 DEF selection
<1>3. CASE set_range
  BY <1>1, <1>2, <1>3, SetRange
<1>4. CASE set_resolution
  <2>1. \A k \in DOMAIN Resolutions[range[m]] :
         m \in Modes => k \in ResolutionIndices
    BY IndicesOfTables
  <2>2. QED
    BY <1>1, <1>2, <1>4, <2>1, SetResolution
<1>5. CASE set_numeric_param
  <2>1. CASE /\ m \in Modes
             /\ NplcIndex(arg) \in {0} \union DOMAIN NPLCs
             /\ nplc' = [nplc EXCEPT ![m] = NplcIndex(arg)]
             /\ UNCHANGED <<mode, range, auto_range, resolution>>
    <3>1. nplc' \in [Modes -> {SIZE_MAX} \union DOMAIN NPLCs]
      BY <2>1 DEF SIZE_MAX
    <3>2. QED
      BY <1>1, <1>5, <2>1, <3>1, SetNplc
  <2>2. QED
    BY <1>2, <1>5, <2>1, SetNplc
<1>6. CASE sense_function \/ set_bool_param
  BY <1>1, <1>2, <1>6, SetFlag
<1>7. CASE configure
  <2>1. \A i \in DOMAIN Ranges : \A k \in DOMAIN Resolutions[i] : k \in ResolutionIndices
    BY IndicesOfTables
  <2>2. ASSUME m \in Modes, NEW i \in DOMAIN Ranges, NEW k \in DOMAIN Resolutions[i],
               SetMode(i, k)
        PROVE  SenseTypeOK'
    <3>1. mode' \in Modes /\ nplc' \in [Modes -> {SIZE_MAX} \union DOMAIN NPLCs]
      BY <2>2 DEF SetMode
    <3>2. range' \in [Modes -> DOMAIN Ranges]
      BY <2>2 DEF SetMode
    <3>3. auto_range' \in [Modes -> BOOLEAN]
      BY <2>2 DEF SetMode
    <3>4. resolution' \in [Modes -> ResolutionIndices]
      BY <2>1, <2>2 DEF SetMode
    <3>5. QED
      BY <1>1, <1>7, <3>1, <3>2, <3>3, <3>4, Configures
  <2>3. /\ Answered
        /\ \/ UNCHANGED selection
           \/ \E i \in DOMAIN Ranges : \E k \in DOMAIN Resolutions[i] :
                m \in Modes /\ SetMode(i, k)
    BY <1>7, Configures, Zenon
  <2> HIDE DEF SenseTypeOK, Answered, Refused
  <2>4. CASE UNCHANGED selection
    BY <1>2, <2>3, <2>4
  <2>5. CASE \E i \in DOMAIN Ranges : \E k \in DOMAIN Resolutions[i] :
               m \in Modes /\ SetMode(i, k)
    <3>1. PICK i \in DOMAIN Ranges : \E k \in DOMAIN Resolutions[i] :
            m \in Modes /\ SetMode(i, k)
      BY <2>5
    <3>2. PICK k \in DOMAIN Resolutions[i] : m \in Modes /\ SetMode(i, k)
      BY <3>1
    <3>3. QED
      BY <2>2, <3>2
  <2>6. QED
    BY <2>3, <2>4, <2>5
<1>8. CASE reset
  <2>1. 1 \in DOMAIN Ranges /\ 1 \in DOMAIN NPLCs /\ "DCV" \in Modes
    BY HardwareTables, TableShape, SenseAssumption
  <2>2. ASSUME mode' = "DCV", auto_range' = [f \in Modes |-> TRUE],
               range' = [f \in Modes |-> 1], resolution' = [f \in Modes |-> 1],
               nplc' = [f \in Modes |-> 1]
        PROVE  /\ mode' \in Modes /\ auto_range' \in [Modes -> BOOLEAN]
               /\ range' \in [Modes -> DOMAIN Ranges]
               /\ resolution' \in [Modes -> ResolutionIndices]
               /\ nplc' \in [Modes -> {SIZE_MAX} \union DOMAIN NPLCs]
    BY <2>1, <2>2, IndicesOfTables DEF SIZE_MAX
  <2>3. QED
    BY <1>1, <1>2, <1>8, <2>2, Resets
<1>9. QED
  BY <1>3, <1>4, <1>5, <1>6, <1>7, <1>8 DEF Setting

\* The functions start with the first entry of each table.
LEMMA InitTyped == Init => SenseTypeOK /\ AnswersFromTables
<1>1. 1 \in DOMAIN Ranges /\ 1 \in DOMAIN NPLCs /\ "DCV" \in Modes
  BY HardwareTables, TableShape, SenseAssumption
<1>2. <<>> \in Seq(Int) /\ DOMAIN <<>> = {}
  BY EmptySeq
<1>3. QED
  BY <1>1, <1>2, IndicesOfTables
  DEF Init, SenseTypeOK, AnswersFromTables, Errors, SIZE_MAX

\* A range is always an index of its table, a resolution one of some table of
\* resolutions, an integration time one of its table or SIZE_MAX.  CONFigure? alone
\* reads outside a table of resolutions, when the function was left with an index
\* that the table of its range does not have, and NPLCycles? alone outside the
\* integration times; RESolution? answers the limits of a table only.
THEOREM SelectionTyped == Spec => [](SenseTypeOK /\ AnswersFromTables)
<1>1. ASSUME SenseTypeOK, AnswersFromTables, [Next]_vars
      PROVE  SenseTypeOK' /\ AnswersFromTables'
  <2>1. CASE UNCHANGED vars
    BY <1>1, <2>1 DEF vars, selection, SenseTypeOK, AnswersFromTables, Legal
  <2>2. CASE \E c \in CommandTable : Receive(c)
    <3>1. <<>> \in Seq(Int) /\ DOMAIN <<>> = {}
      BY EmptySeq
    <3>2. QED
      BY <1>1, <2>2, <3>1
      DEF Receive, selection, SenseTypeOK, AnswersFromTables, Errors
  <2>3. CASE Asking
    BY <1>1, <2>3, Asks DEF Asked, SenseTypeOK, selection
  <2>4. CASE Setting
    <3>1. Answered
      BY <1>1, <2>4, SetRange, SetResolution, SetNplc, SetFlag, Configures, Resets
      DEF Setting
    <3>2. DOMAIN <<>> = {}
      OBVIOUS
    <3>3. AnswersFromTables'
      BY <3>1, <3>2 DEF Answered, AnswersFromTables
    <3>4. QED
      BY <1>1, <2>4, <3>3, SettingInRange
  <2>5. QED
    BY <1>1, <2>1, <2>2, <2>3, <2>4 DEF Next
<1>2. QED
  BY <1>1, InitTyped, PTL DEF Spec

\* Only RANGe leaves a function with a resolution its range does not have.
THEOREM OnlyRangeStrands == Spec => OnlyRangeStrandsResolution
<1>1. ASSUME SenseTypeOK, [Next]_vars, NEW f \in Modes, Legal(f), ~Legal(f)'
      PROVE  Succeeds("RANG")
  <2> USE DEF Legal, Refused
  <2>1. CASE UNCHANGED selection
    BY <1>1, <2>1 DEF selection
  <2>2. CASE set_range
    BY <1>1, <2>1, <2>2, SetRange DEF set_range, Succeeds, Answered
  <2>3. CASE set_resolution
    BY <1>1, <2>1, <2>3, SetResolution DEF SenseTypeOK
  <2>4. CASE set_numeric_param
    BY <1>1, <2>1, <2>4, SetNplc
  <2>5. CASE sense_function \/ set_bool_param
    BY <1>1, <2>1, <2>5, SetFlag
  <2>6. CASE configure
    BY <1>1, <2>1, <2>6, Configures DEF SetMode, SenseTypeOK
  <2>7. CASE reset
    <3>1. 1 \in DOMAIN Resolutions[1]
      BY HardwareTables, TableShape
    <3>2. QED
      BY <1>1, <2>1, <2>7, <3>1, Resets
  <2>8. UNCHANGED selection \/ Setting
    BY <1>1, Asks DEF Next, vars, Receive, Asked
  <2>9. QED
    BY <2>1, <2>2, <2>3, <2>4, <2>5, <2>6, <2>7, <2>8 DEF Setting
<1>2. SenseTypeOK /\ [Next]_vars =>
        [ (\E f \in Modes : Legal(f) /\ ~Legal(f)') => Succeeds("RANG") ]_vars
  BY <1>1
<1>3. QED
  BY <1>2, SelectionTyped, PTL DEF Spec, OnlyRangeStrandsResolution

-----------------------------------------------------------------------------
(* The range chosen for a number.                                          *)

\* The scan for the first range that holds a value finds the smallest such
\* range of an ascending table, and fails only when there is none.
LEMMA RangeScan ==
  ASSUME NEW v, Ascending(Ranges),
         NEW r, r = range_index(v)
  PROVE  /\ r = 0 => \A i \in DOMAIN Ranges : ~Within(v, i)
         /\ r # 0 => /\ r \in DOMAIN Ranges /\ Within(v, r)
                     /\ \A i \in DOMAIN Ranges :
                          Ranges[i] < Ranges[r] => ~Within(v, i)
<1> DEFINE hits == {i \in DOMAIN Ranges : Holds(i, v)}
<1>1. \A i : Holds(i, v) <=> Within(v, i)
  BY DEF Holds, Within
<1>2. hits \subseteq Nat \ {0}
  BY HardwareTables, TableShape
<1>3. /\ hits = {} => r = 0
      /\ hits # {} => r \in hits /\ r # 0 /\ \A j \in hits : r <= j
  <2> HIDE DEF hits
  <2>1. r = First(hits)
    BY DEF hits, range_index
  <2>2. QED
    BY <1>2, <2>1, FirstHit
<1>4. ASSUME r # 0, NEW i \in DOMAIN Ranges, Ranges[i] < Ranges[r], Within(v, i)
      PROVE  FALSE
  <2>1. r \in DOMAIN Ranges /\ i \in DOMAIN Ranges /\ r <= i
    BY <1>1, <1>3, <1>4
  <2>2. r = i \/ r < i
    BY <2>1, HardwareTables, TableShape
  <2>3. Ranges[r] <= Ranges[i]
    BY <2>1, <2>2, HardwareTables, TableShape DEF Ascending
  <2>4. QED
    BY <1>4, <2>1, <2>3, HardwareTables, TableShape
<1>5. QED
  BY <1>1, <1>3, <1>4

\* RANGe and CONFigure answer DATA_OUT_OF_RANGE only for a number no range
\* holds, and otherwise choose the smallest range that holds it.
THEOREM ChosenRangeHolds == Spec => RangeHoldsValue
<1>1. ASSUME SenseTypeOK, [Next]_vars, TablesAscending,
             Executing("RANG") \/ Executing("CONF"), command' = None,
             arg.type = "NUMBER"
      PROVE  /\ result' = "OK" => RangeFits
             /\ result' = "DATA_OUT_OF_RANGE" =>
                  \A i \in DOMAIN Ranges : ~Within(arg.value, i)
  <2> DEFINE r == range_index(arg.value)
  <2>0. m \in Modes /\ range \in [Modes -> DOMAIN Ranges]
    BY <1>1, CommandShape DEF SenseTypeOK, Executing
  <2>1. /\ r = 0 => \A i \in DOMAIN Ranges : ~Within(arg.value, i)
        /\ r # 0 => /\ Within(arg.value, r)
                    /\ \A i \in DOMAIN Ranges :
                         Ranges[i] < Ranges[r] => ~Within(arg.value, i)
    BY <1>1, RangeScan DEF TablesAscending
  <2>2. /\ RangeIndex(arg) = r
        /\ ConfiguredRange(arg) = r
    BY <1>1 DEF RangeIndex, range_index, ConfiguredRange
  <2> HIDE DEF r
  <2>3. set_range \/ configure
    BY <1>1 DEF Next, vars, Executing, None, Command, Receive, Setting, Asking,
       sense_function, set_resolution, set_numeric_param, set_bool_param, reset,
       query_range, query_nplc, query_resolution, query_bool_param,
       sense_functionQ, configureQ
  <2>4. CASE set_range
    <3> DEFINE e == SenseError(arg, r, "DATA_OUT_OF_RANGE")
    <3>1. e = IF r # 0 THEN "OK" ELSE "DATA_OUT_OF_RANGE"
      BY <1>1, FirstOfThree DEF SenseError, Unless, SIZE_MAX
    <3> HIDE DEF e
    <3>2. \/ /\ e = "OK" /\ result' = "OK"
             /\ range' = [range EXCEPT ![m] = r]
          \/ result' = e /\ e # "OK"
          \/ result' \in {"PARAMETER_NOT_ALLOWED", "HARDWARE"}
      BY <2>2, <2>4 DEF e, set_range, Done, Refuse, Reply, OneTooMany,
         HardwareRefuses
    <3>3. QED
      BY <1>1, <2>0, <2>1, <3>1, <3>2 DEF RangeFits
  <2>5. CASE configure
    <3> DEFINE parsed == FirstError(<<validate_range, validate_resolution>>)
               k == IF r = SIZE_MAX THEN SIZE_MAX
                    ELSE ConfiguredResolution(AllowedResolutions(r), arg2)
               found == FirstError(<<Unless(r # SIZE_MAX, "DATA_OUT_OF_RANGE"),
                          Unless(k # SIZE_MAX, "CANNOT_ACHIEVE_REQUESTED_RESOLUTION")>>)
    <3>1. parsed # "DATA_OUT_OF_RANGE"
      <4>1. \A a, types : Validate(a, types) # "DATA_OUT_OF_RANGE"
        BY FirstOfTwo DEF Validate, Unless
      <4>2. QED
        BY <4>1, FirstOfTwo DEF validate_range, validate_resolution
    <3>2. /\ r = 0 => found = "DATA_OUT_OF_RANGE"
          /\ r # 0 => found # "DATA_OUT_OF_RANGE"
      BY FirstOfTwo DEF Unless, SIZE_MAX
    <3> HIDE DEF parsed, found
    <3>3. \/ /\ found = "OK" /\ result' = "OK"
             /\ range' = [range EXCEPT ![m] = r]
          \/ result' = parsed /\ parsed # "OK"
          \/ result' = found /\ found # "OK"
          \/ result' \in {"PARAMETER_NOT_ALLOWED", "HARDWARE"}
      BY <2>2, <2>5 DEF parsed, found, configure, SetMode, Done, Refuse,
         RefuseSearch, Reply, OneTooMany, HardwareRefuses
    <3>4. QED
      BY <1>1, <2>0, <2>1, <3>1, <3>2, <3>3 DEF RangeFits
  <2>6. QED
    BY <2>3, <2>4, <2>5
<1>2. SenseTypeOK /\ [Next]_vars =>
        [ /\ TablesAscending /\ command.header \in {"RANG", "CONF"}
          /\ command' = None /\ arg.type = "NUMBER"
          => /\ result' = "OK" => RangeFits
             /\ result' = "DATA_OUT_OF_RANGE" =>
                  \A i \in DOMAIN Ranges : ~Within(arg.value, i) ]_vars
  BY <1>1 DEF Executing
<1>3. QED
  BY <1>2, SelectionTyped, PTL DEF Spec, RangeHoldsValue

-----------------------------------------------------------------------------
(* CONFigure and SENSe find the same.                                      *)

\* In an ascending table the smallest entry comes first, the largest last.
LEMMA AscendingEnds ==
  ASSUME NEW t \in Tables, Ascending(t)
  PROVE  min_value_index(t) = 1 /\ max_value_index(t) = Len(t)
<1> DEFINE n == Len(t)
<1>1. n \in Nat \ {0} /\ DOMAIN t = 1 .. n /\ \A i \in 1 .. n : t[i] \in Nat
  BY TableShape
<1> HIDE DEF n
<1>2. \A i, j \in 1 .. n : i < j => t[i] < t[j]
  BY <1>1 DEF Ascending
<1>3. /\ min_value_index(t) \in 1 .. n /\ max_value_index(t) \in 1 .. n
      /\ t[min_value_index(t)] <= t[1] /\ t[n] <= t[max_value_index(t)]
  BY <1>1, MinValue, MaxValue
<1>4. QED
  BY <1>1, <1>2, <1>3 DEF n

\* With a large entry the smaller ones lie within the tolerance too.
LEMMA SmallerToo ==
  ASSUME NEW x \in Nat, NEW y \in Nat, x <= y, NEW v \in Int, LessOrEqual(y, v)
  PROVE  LessOrEqual(x, v)
<1>1. Delta \in Nat
  BY SenseAssumption
<1>2. x * Delta <= y * Delta
  BY <1>1
<1>3. x * Delta \in Int /\ y * Delta \in Int /\ v * (Delta + 1) \in Int
  BY <1>1
<1>4. QED
  BY <1>2, <1>3 DEF LessOrEqual

\* On an ascending table, the entry before the first that is too coarse is the
\* largest that is fine enough: CONFigure and SENSe find the same.
LEMMA SearchesMeet ==
  ASSUME NEW t \in Tables, Ascending(t), NEW a \in Arg,
         a.type \in Sought, ConfiguredResolution(t, a) # 0
  PROVE  ConfiguredResolution(t, a) = ResolutionIndex(t, a)
<1> DEFINE n == Len(t)
           v == a.value
           hits == {i \in DOMAIN t : ~LessOrEqual(t[i], v)}
<1>1. /\ n \in Nat \ {0} /\ DOMAIN t = 1 .. n /\ v \in Int
      /\ \A i \in 1 .. n : t[i] \in Nat
  BY TableShape DEF Arg
<1>2. CASE a.type # "NUMBER"
  BY <1>2, AscendingEnds DEF Sought, ConfiguredResolution, ResolutionIndex, max_index
<1>3. CASE a.type = "NUMBER"
  <2> DEFINE i == First(hits)
             r == less_or_equal_index(t, v)
             k == IF i = 0 THEN n ELSE i - 1
  <2>1. ConfiguredResolution(t, a) = k /\ ResolutionIndex(t, a) = r
    BY <1>3 DEF ConfiguredResolution, ResolutionIndex, find_greater_than, max_index
  <2>2. hits \subseteq Nat \ {0}
    BY <1>1
  <2>3. /\ hits = {} => i = 0
        /\ hits # {} => i \in hits /\ i # 0 /\ \A j \in hits : i <= j
    <3> HIDE DEF hits
    <3>1. QED
      BY <2>2, FirstHit
  <2>4. /\ r = 0 => \A j \in 1 .. n : ~LessOrEqual(t[j], v)
        /\ r # 0 => /\ r \in 1 .. n /\ LessOrEqual(t[r], v)
                    /\ \A j \in 1 .. n : LessOrEqual(t[j], v) => t[j] <= t[r]
    BY <1>1, LargestBelow
  <2> HIDE DEF i, r, n, v
  <2>5. k \in 1 .. n
    <3>1. i # 0 => i \in 1 .. n
      BY <1>1, <2>3
    <3>2. QED
      BY <1>1, <2>1, <3>1
  <2>6. LessOrEqual(t[k], v)
    <3>1. k \notin hits
      <4>1. CASE i = 0
        BY <2>3, <4>1
      <4>2. CASE i # 0
        <5>1. ~(i <= k) /\ hits # {}
          BY <1>1, <2>3, <4>2
        <5>2. QED
          BY <2>3, <5>1
      <4>3. QED
        BY <4>1, <4>2
    <3>2. QED
      BY <1>1, <2>5, <3>1
  <2>7. r \in 1 .. n /\ LessOrEqual(t[r], v) /\ t[k] <= t[r]
    BY <2>4, <2>5, <2>6
  <2>8. ~(k < r)
    <3> SUFFICES ASSUME k < r PROVE FALSE
      OBVIOUS
    <3>1. i # 0 /\ i \in 1 .. n /\ i <= r
      BY <1>1, <2>3, <2>7
    <3>2. t[i] <= t[r] /\ t[i] \in Nat /\ t[r] \in Nat
      <4>1. t[i] \in Nat /\ t[r] \in Nat
        BY <1>1, <2>7, <3>1
      <4>2. i = r \/ i < r
        BY <1>1, <2>7, <3>1
      <4>3. i < r => t[i] < t[r]
        BY <1>1, <2>7, <3>1 DEF Ascending
      <4>4. QED
        BY <4>1, <4>2, <4>3
    <3>3. LessOrEqual(t[i], v)
      BY <1>1, <2>7, <3>2, SmallerToo
    <3>4. QED
      BY <2>3, <3>1, <3>3
  <2>9. ~(r < k)
    BY <1>1, <2>5, <2>7 DEF Ascending
  <2>10. QED
    BY <1>1, <2>1, <2>5, <2>7, <2>8, <2>9
<1>4. QED
  BY <1>2, <1>3

\* Only its own action completes a command.
LEMMA OwnAction ==
  ASSUME [Next]_vars, command' = None
  PROVE  /\ Executing("CONF") => configure
         /\ Executing("RES") => set_resolution
         /\ Executing("NPLC") => set_numeric_param
BY DEF Next, vars, Executing, None, Command, Receive, Setting, Asking,
   sense_function, set_range, set_resolution, set_numeric_param, set_bool_param,
   configure, reset, query_range, query_nplc, query_resolution, query_bool_param,
   sense_functionQ, configureQ

\* CONFigure and SENSe search a hardware's ascending tables with one result.
LEMMA ConfigureSearches ==
  ASSUME SenseTypeOK, TablesAscending, configure, result' = "OK"
  PROVE  ConfigureAgrees /\ m \in Modes /\ range'[m] \in DOMAIN Ranges
<1> DEFINE i == ConfiguredRange(arg)
           t == Resolutions[i]
           k == ConfiguredResolution(t, arg2)
<1>1. /\ m \in Modes /\ i \in DOMAIN Ranges /\ k \in DOMAIN t /\ SetMode(i, k)
      /\ arg \in Arg /\ arg2 \in Arg
  BY Configures, CommandShape DEF Refused, SenseTypeOK
<1>2. t \in Tables /\ Ascending(t) /\ k # 0
  BY <1>1, HardwareTables, TableShape DEF TablesAscending
<1>3. arg2.type \in Sought => k = ResolutionIndex(t, arg2)
  BY <1>1, <1>2, SearchesMeet
<1>4. arg.type \in Sought => i = RangeIndex(arg)
  <2>1. min_value_index(Ranges) = 1 /\ max_value_index(Ranges) = Len(Ranges)
    BY HardwareTables, AscendingEnds DEF TablesAscending
  <2>2. QED
    BY <2>1 DEF Sought, ConfiguredRange, RangeIndex, range_index, max_index
<1> HIDE DEF i, k
<1>5. range'[m] = i /\ resolution'[m] = k
  BY <1>1 DEF SetMode, SenseTypeOK
<1>6. QED
  BY <1>1, <1>3, <1>4, <1>5 DEF ConfigureAgrees, i

\* On ascending tables CONFigure chooses what RANGe and RESolution would.
THEOREM SearchesAlike == Spec => SearchesAgree
<1>1. SenseTypeOK /\ [Next]_vars =>
        [TablesAscending /\ Succeeds("CONF") => ConfigureAgrees]_vars
  BY OwnAction, ConfigureSearches DEF Succeeds
<1>2. QED
  BY <1>1, SelectionTyped, PTL DEF Spec, SearchesAgree

\* What less_or_equal_index finds is fine enough, and nothing coarser is.
LEMMA FineEnough ==
  ASSUME NEW s \in Arg, s.type = "NUMBER", range'[m] \in DOMAIN Ranges,
         resolution'[m] = ResolutionIndex(Resolutions[range'[m]], s),
         resolution'[m] # 0
  PROVE  ResolutionFits(s)
<1> DEFINE t == Resolutions[range'[m]]
           r == less_or_equal_index(t, s.value)
<1>1. t \in Tables /\ resolution'[m] = r
  BY HardwareTables DEF ResolutionIndex
<1>2. /\ r \in DOMAIN t /\ LessOrEqual(t[r], s.value)
      /\ \A i \in DOMAIN t : LessOrEqual(t[i], s.value) => t[i] <= t[r]
  BY <1>1, LargestBelow
<1>3. \A i \in DOMAIN t : t[i] \in Nat
  BY <1>1, TableShape
<1> HIDE DEF t, r
<1>4. \A i \in DOMAIN t : t[i] > t[r] => ~LessOrEqual(t[i], s.value)
  BY <1>2, <1>3
<1>5. QED
  BY <1>1, <1>2, <1>4 DEF ResolutionFits, t

\* RESolution and CONFigure choose the coarsest resolution that is fine enough.
THEOREM FinestAsked == Spec => ResolutionAchieved
<1>1. ASSUME SenseTypeOK, [Next]_vars, TablesAscending, Succeeds("RES"),
             arg.type = "NUMBER"
      PROVE  ResolutionFits(arg)
  <2>1. set_resolution /\ m \in Modes /\ arg \in Arg
    BY <1>1, OwnAction, CommandShape DEF Succeeds, Executing, SenseTypeOK
  <2> DEFINE k == ResolutionIndex(Resolutions[range[m]], arg)
  <2>2. /\ k \in DOMAIN Resolutions[range[m]]
        /\ resolution' = [resolution EXCEPT ![m] = k] /\ range' = range
    BY <1>1, <2>1, SetResolution DEF Refused, Succeeds
  <2>3. range[m] \in DOMAIN Ranges /\ k # 0
    BY <1>1, <2>1, <2>2, HardwareTables, TableShape DEF SenseTypeOK
  <2> HIDE DEF k
  <2>4. resolution'[m] = k
    BY <1>1, <2>1, <2>2 DEF SenseTypeOK
  <2>5. QED
    BY <1>1, <2>1, <2>2, <2>3, <2>4, FineEnough DEF k
<1>2. ASSUME SenseTypeOK, [Next]_vars, TablesAscending, Succeeds("CONF"),
             arg2.type = "NUMBER"
      PROVE  ResolutionFits(arg2)
  <2>1. configure /\ arg2 \in Arg /\ SenseTypeOK'
    BY <1>2, OwnAction, CommandShape, SettingInRange
    DEF Succeeds, SenseTypeOK, Setting
  <2>2. ConfigureAgrees /\ m \in Modes /\ range'[m] \in DOMAIN Ranges
    BY <1>2, <2>1, ConfigureSearches DEF Succeeds
  <2>3. resolution'[m] = ResolutionIndex(Resolutions[range'[m]], arg2)
    BY <1>2, <2>2 DEF ConfigureAgrees, Sought
  <2>4. resolution'[m] # 0
    BY <2>1, <2>2, IndicesOfTables DEF SenseTypeOK, SIZE_MAX
  <2>5. QED
    BY <1>2, <2>1, <2>2, <2>3, <2>4, FineEnough
<1>3. SenseTypeOK /\ [Next]_vars =>
        [ TablesAscending =>
            /\ Succeeds("RES") /\ arg.type = "NUMBER" => ResolutionFits(arg)
            /\ Succeeds("CONF") /\ arg2.type = "NUMBER" => ResolutionFits(arg2) ]_vars
  BY <1>1, <1>2
<1>4. QED
  BY <1>3, SelectionTyped, PTL DEF Spec, ResolutionAchieved

\* NPLCycles chooses the shortest time that is long enough.
THEOREM TimeLongEnough == Spec => IntegrationLongEnough
<1> DEFINE Shortest ==
             \/ nplc'[m] = SIZE_MAX /\ LongEnough = {}
             \/ /\ nplc'[m] \in LongEnough
                /\ \A i \in LongEnough : NPLCs[nplc'[m]] <= NPLCs[i]
<1>1. ASSUME SenseTypeOK, [Next]_vars, TablesAscending, Succeeds("NPLC"),
             arg.type = "NUMBER"
      PROVE  Shortest
  <2>1. set_numeric_param /\ m \in Modes
    BY <1>1, OwnAction, CommandShape DEF Succeeds, Executing, SenseTypeOK
  <2>2. nplc' = [nplc EXCEPT ![m] = NplcIndex(arg)]
    BY <1>1, <2>1, SetNplc DEF Refused, Succeeds
  <2> DEFINE k == nplc'[m]
  <2>3. k = First(LongEnough)
    BY <1>1, <2>1, <2>2
    DEF SenseTypeOK, NplcIndex, greater_or_equal_index, LongEnough
  <2>4. /\ DOMAIN NPLCs = 1 .. Len(NPLCs) /\ Ascending(NPLCs)
        /\ \A i \in DOMAIN NPLCs : NPLCs[i] \in Nat
        /\ LongEnough \subseteq DOMAIN NPLCs /\ LongEnough \subseteq Nat \ {0}
    BY <1>1, HardwareTables, TableShape DEF TablesAscending, LongEnough
  <2> HIDE DEF k
  <2>5. /\ LongEnough = {} => k = 0
        /\ LongEnough # {} => k \in LongEnough /\ \A i \in LongEnough : k <= i
    BY <2>3, <2>4, FirstHit
  <2>6. ASSUME LongEnough # {}, NEW i \in LongEnough
        PROVE  NPLCs[k] <= NPLCs[i]
    <3>1. k \in DOMAIN NPLCs /\ i \in DOMAIN NPLCs /\ k <= i
      BY <2>4, <2>5, <2>6
    <3>2. NPLCs[k] \in Nat /\ NPLCs[i] \in Nat /\ (k = i \/ k < i)
      BY <2>4, <3>1
    <3>3. k < i => NPLCs[k] < NPLCs[i]
      BY <2>4, <3>1 DEF Ascending
    <3>4. QED
      BY <3>2, <3>3
  <2>7. QED
    BY <2>5, <2>6 DEF k, SIZE_MAX
<1>2. SenseTypeOK /\ [Next]_vars =>
        [TablesAscending /\ Succeeds("NPLC") /\ arg.type = "NUMBER" => Shortest]_vars
  BY <1>1
<1>3. QED
  BY <1>2, SelectionTyped, PTL DEF Spec, IntegrationLongEnough
=============================================================================
