-------------------------- MODULE ProxySessionProofs --------------------------
(***************************************************************************)
(* Proofs about the state that the requests of a session share, for every  *)
(* number of workers, sessions, texts and limits: its shape and the books  *)
(* of the memo (src/tool_output/state/memo.rs), the completed steps        *)
(* (src/proxy/handler/prior_tool_results.rs), and, of what is sent         *)
(* upstream, that a prefix stays as it was and references are true         *)
(* (src/tool_output.rs, src/tool_output/state/dedup.rs).                   *)
(***************************************************************************)
EXTENDS ProxySession, TLAPS, FiniteSetTheorems, SequenceTheorems, WellFoundedInduction

-----------------------------------------------------------------------------
(* The bytes of the outputs of some calls.                                 *)

\* A non-empty set of natural numbers has a least element.
LEMMA LeastNatural ==
    ASSUME NEW S \in SUBSET Nat, S # {}
    PROVE  \E n \in S : \A m \in S : n <= m
<1>1. PICK n \in S : \A m \in S : ~ (<<m, n>> \in OpToRel(<, Nat))
    BY NatLessThanWellFounded, WFMin, Zenon
<1>2. OpToRel(<, Nat) = {p \in Nat \X Nat : p[1] < p[2]}
    BY Zenon DEF OpToRel
<1>3. ASSUME NEW m \in S PROVE n <= m
    <2>1. <<m, n>> \in Nat \X Nat /\ <<m, n>>[1] = m /\ <<m, n>>[2] = n
        OBVIOUS
    <2>2. ~ (m < n)
        BY <1>1, <1>2, <2>1
    <2> QED BY <2>2
<1> QED BY <1>3

\* What holds of zero, and of a number if it holds of the one before, holds up to a bound.
LEMMA UpTo ==
    ASSUME NEW bound \in Nat, NEW S, 0 \in S,
           \A n \in 1 .. bound : n - 1 \in S => n \in S
    PROVE  \A n \in 0 .. bound : n \in S
<1> DEFINE wrong == {n \in 0 .. bound : n \notin S}
<1> SUFFICES ASSUME wrong # {} PROVE FALSE
    OBVIOUS
<1>1. PICK n \in wrong : \A m \in wrong : n <= m
    <2>1. wrong \in SUBSET Nat
        OBVIOUS
    <2> HIDE DEF wrong
    <2> QED BY <2>1, LeastNatural
<1>2. n # 0 /\ n - 1 \in 0 .. bound /\ ~(n <= n - 1)
    OBVIOUS
<1>3. n - 1 \in S
    BY <1>1, <1>2
<1> QED BY <1>2, <1>3

\* The sums of the outputs' bytes over the first calls.
Sums(g, entries, calls) ==
    /\ g \in [0 .. Len(calls) -> Int] /\ g[0] = 0
    /\ \A n \in 1 .. Len(calls) : g[n] = g[n - 1] + Bytes(entries[calls[n]].out)

\* Sums that follow each other lead to the weight.
LEMMA WeightIs ==
    ASSUME NEW entries, NEW calls, Len(calls) \in Nat, NEW g, Sums(g, entries, calls)
    PROVE  Weight(entries, calls) = g[Len(calls)]
<1> DEFINE Value(f, n) == IF n = 0 THEN 0 ELSE f[n - 1] + Bytes(entries[calls[n]].out)
           sum == CHOOSE f : f = [n \in 0 .. Len(calls) |-> Value(f, n)]
<1>1. g = [n \in 0 .. Len(calls) |-> Value(g, n)]
    <2>1. ASSUME NEW n \in 0 .. Len(calls) PROVE g[n] = Value(g, n)
        BY DEF Sums
    <2> QED BY <2>1 DEF Sums
<1>2. sum = [n \in 0 .. Len(calls) |-> Value(sum, n)]
    BY <1>1
<1>3. Weight(entries, calls) = sum[Len(calls)]
    BY Zenon DEF Weight
<1> HIDE DEF sum
<1>4. {n \in 0 .. Len(calls) : sum[n] # g[n]} = {}
    <2> SUFFICES ASSUME {n \in 0 .. Len(calls) : sum[n] # g[n]} # {} PROVE FALSE
        OBVIOUS
    <2>1. PICK n \in 0 .. Len(calls) :
              sum[n] # g[n] /\ \A m \in 0 .. Len(calls) : sum[m] # g[m] => n <= m
        <3>1. {n \in 0 .. Len(calls) : sum[n] # g[n]} \in SUBSET Nat
            OBVIOUS
        <3> QED BY <3>1, LeastNatural
    <2>2. n # 0
        BY <1>2, <2>1 DEF Sums
    <2>3. n - 1 \in 0 .. Len(calls) /\ ~ (n <= n - 1)
        BY <2>2
    <2>4. sum[n - 1] = g[n - 1]
        BY <2>1, <2>3
    <2>5. sum[n] = Value(sum, n) /\ g[n] = Value(g, n)
        BY <1>1, <1>2
    <2> QED BY <2>1, <2>2, <2>4, <2>5
<1> QED BY <1>3, <1>4

-----------------------------------------------------------------------------
(* Sequences of distinct elements.                                         *)

\* The first elements, and the rest.
LEMMA Cut ==
    ASSUME NEW T, NEW q \in Seq(T), NEW n \in 0 .. Len(q)
    PROVE  /\ SubSeq(q, 1, n) \in Seq(T) /\ Len(SubSeq(q, 1, n)) = n
           /\ \A i \in 1 .. n : SubSeq(q, 1, n)[i] = q[i]
           /\ SubSeq(q, n + 1, Len(q)) \in Seq(T) /\ Len(SubSeq(q, n + 1, Len(q))) = Len(q) - n
           /\ \A i \in 1 .. Len(q) - n : SubSeq(q, n + 1, Len(q))[i] = q[n + i]
<1>1. \A i \in 1 .. Len(q) : q[i] \in T
    OBVIOUS
<1>2. SubSeq(q, 1, n) \in Seq(T) /\ Len(SubSeq(q, 1, n)) = n
      /\ \A i \in 1 .. n : SubSeq(q, 1, n)[i] = q[i]
    <2>1. \A i \in 1 .. n : q[i] \in T
        BY <1>1
    <2> QED BY <2>1, SubSeqProperties
<1>3. /\ SubSeq(q, n + 1, Len(q)) \in Seq(T) /\ Len(SubSeq(q, n + 1, Len(q))) = Len(q) - n
      /\ \A i \in 1 .. Len(q) - n : SubSeq(q, n + 1, Len(q))[i] = q[n + i]
    <2>1. \A i \in n + 1 .. Len(q) : q[i] \in T
        BY <1>1
    <2>2. n + 1 \in Int /\ Len(q) \in Int
        OBVIOUS
    <2>3. /\ SubSeq(q, n + 1, Len(q)) \in Seq(T)
          /\ Len(SubSeq(q, n + 1, Len(q))) = IF n + 1 <= Len(q) THEN Len(q) - (n + 1) + 1 ELSE 0
          /\ \A i \in 1 .. Len(q) - (n + 1) + 1 :
                 SubSeq(q, n + 1, Len(q))[i] = q[n + 1 + i - 1]
        BY <2>1, <2>2, SubSeqProperties
    <2> QED BY <2>3
<1> QED BY <1>2, <1>3

\* Without the element at a place, the others move up.
LEMMA Removed ==
    ASSUME NEW T, NEW q \in Seq(T), IsInjective(q), NEW k \in 1 .. Len(q)
    PROVE  LET others == RemoveFirst(q, q[k])
           IN  /\ others \in Seq(T) /\ Len(others) = Len(q) - 1
               /\ \A i \in 1 .. Len(q) - 1 : others[i] = q[IF i < k THEN i ELSE i + 1]
<1>1. {i \in 1 .. Len(q) : q[i] = q[k]} = {k}
    BY DEF IsInjective
<1>2. Min({k}) = k
    BY DEF Min
<1>3. SelectInSeq(q, LAMBDA v : v = q[k]) = k
    BY <1>1, <1>2 DEF SelectInSeq
<1> DEFINE left == SubSeq(q, 1, k - 1)
           right == SubSeq(q, k + 1, Len(q))
           others == left \o right
<1>4. RemoveFirst(q, q[k]) = others
    BY <1>3 DEF RemoveFirst, RemoveAt
<1>5. left \in Seq(T) /\ Len(left) = k - 1 /\ \A i \in 1 .. k - 1 : left[i] = q[i]
    <2>1. k - 1 \in 0 .. Len(q)
        OBVIOUS
    <2> QED BY <2>1, Cut
<1>6. /\ right \in Seq(T) /\ Len(right) = Len(q) - k
      /\ \A i \in 1 .. Len(q) - k : right[i] = q[k + i]
    <2>1. k \in 0 .. Len(q)
        OBVIOUS
    <2> QED BY <2>1, Cut
<1> HIDE DEF left, right
<1>7. /\ others \in Seq(T) /\ Len(others) = Len(left) + Len(right)
      /\ \A i \in 1 .. Len(left) + Len(right) :
            others[i] = IF i <= Len(left) THEN left[i] ELSE right[i - Len(left)]
    BY <1>5, <1>6, ConcatProperties
<1>8. Len(left) + Len(right) = Len(q) - 1
    BY <1>5, <1>6
<1> HIDE DEF others
<1>9. ASSUME NEW i \in 1 .. Len(q) - 1
      PROVE  others[i] = q[IF i < k THEN i ELSE i + 1]
    <2>1. CASE i < k
        BY <1>5, <1>7, <1>8, <2>1
    <2>2. CASE ~(i < k)
        <3>1. i - (k - 1) \in 1 .. Len(q) - k /\ k + (i - (k - 1)) = i + 1
            BY <2>2
        <3>2. others[i] = right[i - (k - 1)]
            BY <1>5, <1>7, <1>8, <2>2
        <3> QED BY <1>6, <2>2, <3>1, <3>2
    <2> QED BY <2>1, <2>2
<1> QED BY <1>4, <1>7, <1>8, <1>9

\* Without an element, and with a new one, a sequence stays one of distinct elements.
LEMMA Distinct ==
    ASSUME NEW T, NEW q \in Seq(T), IsInjective(q)
    PROVE  /\ \A k \in 1 .. Len(q) :
                  /\ IsInjective(RemoveFirst(q, q[k]))
                  /\ ToSet(RemoveFirst(q, q[k])) = ToSet(q) \ {q[k]}
           /\ \A x \in T \ ToSet(q) :
                  /\ IsInjective(Append(q, x))
                  /\ ToSet(Append(q, x)) = ToSet(q) \cup {x}
           /\ \A n \in 0 .. Len(q) :
                  /\ IsInjective(SubSeq(q, n + 1, Len(q)))
                  /\ ToSet(SubSeq(q, n + 1, Len(q))) \subseteq ToSet(q)
<1>1. DOMAIN q = 1 .. Len(q) /\ Len(q) \in Nat
    OBVIOUS
<1>2. ASSUME NEW k \in 1 .. Len(q)
      PROVE  /\ IsInjective(RemoveFirst(q, q[k]))
             /\ ToSet(RemoveFirst(q, q[k])) = ToSet(q) \ {q[k]}
    <2> DEFINE others == RemoveFirst(q, q[k])
               from(i) == IF i < k THEN i ELSE i + 1
    <2>1. others \in Seq(T) /\ Len(others) = Len(q) - 1
          /\ \A i \in 1 .. Len(q) - 1 : others[i] = q[from(i)]
        BY Removed
    <2> HIDE DEF others
    <2>2. DOMAIN others = 1 .. Len(q) - 1
        BY <2>1
    <2>3. ASSUME NEW i \in 1 .. Len(q) - 1, NEW j \in 1 .. Len(q) - 1, others[i] = others[j]
          PROVE  i = j
        <3>1. from(i) \in 1 .. Len(q) /\ from(j) \in 1 .. Len(q) /\ q[from(i)] = q[from(j)]
            BY <1>1, <2>1, <2>3
        <3>2. from(i) = from(j)
            BY <1>1, <3>1 DEF IsInjective
        <3> QED BY <1>1, <3>2
    <2>4. ASSUME NEW i \in 1 .. Len(q) - 1 PROVE others[i] \in ToSet(q) \ {q[k]}
        <3>1. from(i) \in 1 .. Len(q) /\ from(i) # k
            BY <1>1
        <3> QED BY <1>1, <2>1, <3>1 DEF IsInjective, ToSet
    <2>5. ASSUME NEW j \in 1 .. Len(q), q[j] # q[k] PROVE q[j] \in ToSet(others)
        <3>1. CASE j < k
            <4>1. j \in 1 .. Len(q) - 1 /\ from(j) = j
                BY <1>1, <3>1
            <4> QED BY <2>1, <2>2, <4>1 DEF ToSet
        <3>2. CASE j > k
            <4>1. j - 1 \in 1 .. Len(q) - 1 /\ from(j - 1) = j
                BY <1>1, <3>2
            <4> QED BY <2>1, <2>2, <4>1 DEF ToSet
        <3> QED BY <2>5, <3>1, <3>2
    <2>6. ToSet(others) \subseteq ToSet(q) \ {q[k]}
        BY <2>2, <2>4 DEF ToSet
    <2>7. ToSet(q) \ {q[k]} \subseteq ToSet(others)
        BY <1>1, <2>5 DEF ToSet
    <2> QED BY <2>2, <2>3, <2>6, <2>7 DEF IsInjective, others
<1>3. ASSUME NEW x \in T \ ToSet(q)
      PROVE  IsInjective(Append(q, x)) /\ ToSet(Append(q, x)) = ToSet(q) \cup {x}
    <2> DEFINE longer == Append(q, x)
    <2>1. longer \in Seq(T) /\ Len(longer) = Len(q) + 1 /\ longer[Len(q) + 1] = x
          /\ \A i \in 1 .. Len(q) : longer[i] = q[i]
        BY AppendProperties
    <2> HIDE DEF longer
    <2>2. DOMAIN longer = 1 .. Len(q) + 1
        BY <2>1
    <2>3. \A i \in 1 .. Len(q) + 1 : i \in 1 .. Len(q) \/ i = Len(q) + 1
        BY <1>1
    <2>4. 1 .. Len(q) \subseteq 1 .. Len(q) + 1 /\ Len(q) + 1 \in 1 .. Len(q) + 1
        BY <1>1
    <2>5. \A i \in 1 .. Len(q) : longer[i] = q[i] /\ longer[i] # x /\ longer[i] \in ToSet(q)
        BY <1>1, <2>1 DEF ToSet
    <2>6. IsInjective(longer)
        BY <1>1, <2>1, <2>2, <2>3, <2>5 DEF IsInjective
    <2>7. ToSet(longer) \subseteq ToSet(q) \cup {x}
        BY <2>1, <2>2, <2>3, <2>5 DEF ToSet
    <2>8. ToSet(q) \subseteq ToSet(longer)
        <3>1. ASSUME NEW i \in 1 .. Len(q) PROVE q[i] \in ToSet(longer)
            BY <2>2, <2>4, <2>5, <3>1 DEF ToSet
        <3> QED BY <1>1, <3>1 DEF ToSet
    <2>9. x \in ToSet(longer)
        BY <2>1, <2>2, <2>4 DEF ToSet
    <2> QED BY <2>6, <2>7, <2>8, <2>9 DEF longer
<1>4. ASSUME NEW n \in 0 .. Len(q)
      PROVE  /\ IsInjective(SubSeq(q, n + 1, Len(q)))
             /\ ToSet(SubSeq(q, n + 1, Len(q))) \subseteq ToSet(q)
    <2> DEFINE rest == SubSeq(q, n + 1, Len(q))
    <2>1. rest \in Seq(T) /\ Len(rest) = Len(q) - n
          /\ \A i \in 1 .. Len(q) - n : rest[i] = q[n + i]
        BY Cut
    <2> HIDE DEF rest
    <2>2. DOMAIN rest = 1 .. Len(q) - n
        BY <2>1
    <2>3. \A i \in 1 .. Len(q) - n : n + i \in 1 .. Len(q)
        BY <1>1
    <2>4. ASSUME NEW i \in 1 .. Len(q) - n, NEW j \in 1 .. Len(q) - n, rest[i] = rest[j]
          PROVE  i = j
        <3>1. n + i = n + j
            BY <1>1, <2>1, <2>3, <2>4 DEF IsInjective
        <3> QED BY <1>1, <3>1
    <2>5. ToSet(rest) \subseteq ToSet(q)
        BY <1>1, <2>1, <2>2, <2>3 DEF ToSet
    <2> QED BY <2>2, <2>4, <2>5 DEF IsInjective, rest
<1> QED BY <1>2, <1>3, <1>4

\* Without its first element, a sequence keeps the others.
LEMMA Rest ==
    ASSUME NEW T, NEW q \in Seq(T), IsInjective(q), q # <<>>
    PROVE  /\ Head(q) \in ToSet(q)
           /\ Tail(q) \in Seq(T) /\ IsInjective(Tail(q))
           /\ ToSet(Tail(q)) = ToSet(q) \ {Head(q)}
<1>1. Len(q) \in Nat \ {0} /\ DOMAIN q = 1 .. Len(q) /\ Head(q) = q[1] /\ 1 \in 1 .. Len(q)
    OBVIOUS
<1>2. /\ Tail(q) \in Seq(T) /\ Len(Tail(q)) = Len(q) - 1
      /\ \A i \in 1 .. Len(Tail(q)) : Tail(q)[i] = q[i + 1]
    BY HeadTailProperties
<1> DEFINE others == RemoveFirst(q, q[1])
<1>3. /\ others \in Seq(T) /\ Len(others) = Len(q) - 1
      /\ \A i \in 1 .. Len(q) - 1 : others[i] = q[IF i < 1 THEN i ELSE i + 1]
    BY <1>1, Removed, Zenon
<1>4. IsInjective(others) /\ ToSet(others) = ToSet(q) \ {q[1]}
    BY <1>1, Distinct
<1> HIDE DEF others
<1>5. Tail(q) = others
    BY <1>1, <1>2, <1>3
<1>6. Head(q) \in ToSet(q)
    BY <1>1 DEF ToSet
<1> QED BY <1>1, <1>2, <1>4, <1>5, <1>6, Zenon

-----------------------------------------------------------------------------
(* The books of a memo.                                                    *)

\* The outputs that have a length.
Outs == {out \in Outputs : Bytes(out) \in Nat}

\* A call is in the order once, and the total is the bytes of what is kept.
Book(m) ==
    /\ m = [entries |-> m.entries, order |-> m.order, total |-> m.total]
    /\ m.order \in Seq(Nat) /\ IsInjective(m.order)
    /\ ToSet(m.order) = DOMAIN m.entries
    /\ \A c \in DOMAIN m.entries : m.entries[c].out \in Outs
    /\ \E g : Sums(g, m.entries, m.order) /\ m.total = g[Len(m.order)]

\* A session that is opened has its books in order.
LEMMA EmptyBook == Book(EmptyMemo) /\ EmptyMemo.total = 0
<1> DEFINE g == [n \in 0 .. 0 |-> 0]
<1>1. Len(<<>>) = 0 /\ ToSet(<<>>) = {} /\ IsInjective(<<>>) /\ DOMAIN <<>> = {}
    BY DEF ToSet, IsInjective
<1>2. Sums(g, <<>>, <<>>) /\ g[0] = 0
    BY <1>1 DEF Sums
<1> HIDE DEF g
<1> QED BY <1>1, <1>2 DEF Book, EmptyMemo

\* A memo whose books are in order does not weigh less than what is removed.
LEMMA ForgottenKeeps ==
    ASSUME NEW m, Book(m), NEW call
    PROVE  /\ Book(Forgotten(m, call))
           /\ call \notin DOMAIN Forgotten(m, call).entries
           /\ m.total \in Int /\ Forgotten(m, call).total \in Int
           /\ Forgotten(m, call).total <= m.total
<1>1. PICK g : Sums(g, m.entries, m.order) /\ m.total = g[Len(m.order)]
    BY Zenon DEF Book
<1>2. /\ m.order \in Seq(Nat) /\ IsInjective(m.order) /\ ToSet(m.order) = DOMAIN m.entries
      /\ \A c \in DOMAIN m.entries : m.entries[c].out \in Outs
    BY Zenon DEF Book
<1>3. DOMAIN m.order = 1 .. Len(m.order) /\ Len(m.order) \in Nat
    BY <1>2
<1>4. m.total \in Int
    BY <1>1, <1>3 DEF Sums
<1>5. CASE call \notin DOMAIN m.entries
    <2>1. Forgotten(m, call) = m
        BY <1>5 DEF Forgotten
    <2> QED BY <1>4, <1>5, <2>1
<1>6. CASE call \in DOMAIN m.entries
    <2>1. PICK k \in 1 .. Len(m.order) : m.order[k] = call
        BY <1>2, <1>3, <1>6 DEF ToSet
    <2> DEFINE others == RemoveFirst(m.order, call)
               kept == [c \in DOMAIN m.entries \ {call} |-> m.entries[c]]
               size == Bytes(m.entries[call].out)
               from(i) == IF i < k THEN i ELSE i + 1
               h == [n \in 0 .. Len(m.order) - 1 |-> IF n < k THEN g[n] ELSE g[n + 1] - size]
               total == m.total - size
    <2>2. Forgotten(m, call) = [entries |-> kept, order |-> others, total |-> total]
        BY <1>6 DEF Forgotten
    <2>3. size \in Nat
        BY <1>2, <1>6 DEF Outs
    <2>4. /\ others \in Seq(Nat) /\ Len(others) = Len(m.order) - 1
          /\ \A i \in 1 .. Len(m.order) - 1 : others[i] = m.order[from(i)]
        BY <1>2, <2>1, Removed
    <2>5. IsInjective(others) /\ ToSet(others) = DOMAIN m.entries \ {call}
        BY <1>2, <2>1, Distinct
    <2>6. DOMAIN kept = DOMAIN m.entries \ {call}
          /\ \A c \in DOMAIN kept : kept[c] = m.entries[c]
        OBVIOUS
    <2>7. ASSUME NEW i \in 1 .. Len(m.order) - 1
          PROVE  kept[others[i]] = m.entries[m.order[from(i)]]
        <3>1. others[i] \in ToSet(others)
            BY <2>4 DEF ToSet
        <3> QED BY <2>4, <2>5, <2>6, <3>1
    <2> DEFINE from2 == [i \in 1 .. Len(m.order) - 1 |-> from(i)]
               bytes == [i \in 1 .. Len(m.order) |-> Bytes(m.entries[m.order[i]].out)]
    <2>8. \A n \in 1 .. Len(m.order) : g[n] = g[n - 1] + bytes[n]
        BY <1>1 DEF Sums
    <2>9. ASSUME NEW i \in 1 .. Len(m.order) - 1
          PROVE  Bytes(kept[others[i]].out) = bytes[from(i)]
        <3>1. from(i) \in 1 .. Len(m.order)
            BY <1>3
        <3> HIDE DEF from, kept, others
        <3>2. bytes[from(i)] = Bytes(m.entries[m.order[from(i)]].out)
            BY <3>1
        <3> QED BY <2>7, <3>2
    <2>10. bytes[k] = size
        BY <2>1
    <2>18. \A i \in 1 .. Len(m.order) : bytes[i] \in Nat
        <3>1. \A i \in 1 .. Len(m.order) : m.order[i] \in DOMAIN m.entries
            BY <1>2, <1>3 DEF ToSet
        <3> QED BY <1>2, <3>1 DEF Outs
    <2> HIDE DEF others, kept, size, bytes
    <2>11. g \in [0 .. Len(m.order) -> Int] /\ g[0] = 0
        BY <1>1 DEF Sums
    <2>12. h \in [0 .. Len(m.order) - 1 -> Int] /\ h[0] = 0
        BY <1>3, <2>3, <2>11
    <2>13. ASSUME NEW n \in 1 .. Len(m.order) - 1
           PROVE  h[n] = h[n - 1] + bytes[from(n)]
        <3>1. n \in 1 .. Len(m.order) /\ n + 1 \in 1 .. Len(m.order) /\ n - 1 \in 0 .. Len(m.order) - 1
            BY <1>3
        <3>2. g[n] = g[n - 1] + bytes[n] /\ g[n + 1] = g[n] + bytes[n + 1]
            <4>1. (n + 1) - 1 = n
                BY <1>3
            <4> QED BY <2>8, <3>1, <4>1
        <3>3. g[n - 1] \in Int /\ g[n] \in Int /\ g[n + 1] \in Int
            BY <1>3, <2>11, <3>1
        <3>4. CASE n < k
            BY <1>3, <3>1, <3>2, <3>4
        <3>5. CASE n = k
            <4>1. h[n] = g[n + 1] - size /\ h[n - 1] = g[n - 1] /\ from(n) = n + 1
                BY <1>3, <3>1, <3>5
            <4>2. bytes[n] = size
                BY <2>10, <3>5
            <4> HIDE DEF h, from
            <4>3. g[n] = g[n - 1] + size
                BY <3>2, <4>2
            <4>4. g[n + 1] = g[n] + bytes[n + 1] /\ bytes[n + 1] \in Nat
                BY <2>18, <3>1, <3>2
            <4>5. bytes[from(n)] = bytes[n + 1]
                BY <4>1
            <4> QED BY <2>3, <3>3, <4>1, <4>3, <4>4, <4>5
        <3>6. CASE n > k
            <4>1. h[n] = g[n + 1] - size /\ h[n - 1] = g[n] - size /\ from(n) = n + 1
                BY <1>3, <3>1, <3>6
            <4> HIDE DEF h, from
            <4> QED BY <2>3, <2>18, <3>1, <3>2, <3>3, <4>1
        <3> QED BY <1>3, <3>4, <3>5, <3>6
    <2>14. total = h[Len(m.order) - 1]
        <3>1. Len(m.order) \in 1 .. Len(m.order) /\ Len(m.order) - 1 \in 0 .. Len(m.order) - 1
            BY <1>3
        <3>2. CASE k = Len(m.order)
            <4>1. g[Len(m.order)] = g[Len(m.order) - 1] + size
                BY <2>8, <2>10, <3>1, <3>2
            <4>2. h[Len(m.order) - 1] = g[Len(m.order) - 1] /\ g[Len(m.order) - 1] \in Int
                BY <1>3, <2>11, <3>1, <3>2
            <4> HIDE DEF h
            <4> QED BY <1>1, <2>3, <4>1, <4>2
        <3>3. CASE k # Len(m.order)
            <4>1. h[Len(m.order) - 1] = g[Len(m.order)] - size
                BY <1>3, <3>1, <3>3
            <4> QED BY <1>1, <4>1
        <3> QED BY <3>2, <3>3
    <2> HIDE DEF h, from
    <2>15. Sums(h, kept, others) /\ total = h[Len(others)]
        BY <2>4, <2>9, <2>12, <2>13, <2>14 DEF Sums
    <2>16. total \in Int /\ total <= m.total
        BY <1>4, <2>3
    <2>17. \A c \in DOMAIN kept : kept[c].out \in Outs
        BY <1>2, <2>6
    <2> HIDE DEF total
    <2> QED BY <1>4, <2>2, <2>4, <2>5, <2>6, <2>15, <2>16, <2>17 DEF Book
<1> QED BY <1>5, <1>6

\* A call that is not in the books is entered at the end.
LEMMA AddedKeeps ==
    ASSUME NEW m, Book(m), NEW call \in Nat \ DOMAIN m.entries, NEW entry, entry.out \in Outs
    PROVE  Book([entries |-> [c \in DOMAIN m.entries \cup {call} |->
                                 IF c = call THEN entry ELSE m.entries[c]],
                 order |-> Append(m.order, call), total |-> m.total + Bytes(entry.out)])
<1>1. PICK g : Sums(g, m.entries, m.order) /\ m.total = g[Len(m.order)]
    BY Zenon DEF Book
<1>2. /\ m.order \in Seq(Nat) /\ IsInjective(m.order) /\ ToSet(m.order) = DOMAIN m.entries
      /\ \A c \in DOMAIN m.entries : m.entries[c].out \in Outs
    BY Zenon DEF Book
<1>3. DOMAIN m.order = 1 .. Len(m.order) /\ Len(m.order) \in Nat
    BY <1>2
<1> DEFINE kept == [c \in DOMAIN m.entries \cup {call} |->
                       IF c = call THEN entry ELSE m.entries[c]]
           order == Append(m.order, call)
           size == Bytes(entry.out)
           h == [n \in 0 .. Len(m.order) + 1 |->
                    IF n = Len(m.order) + 1 THEN g[Len(m.order)] + size ELSE g[n]]
<1>4. size \in Nat
    BY DEF Outs
<1>5. /\ order \in Seq(Nat) /\ Len(order) = Len(m.order) + 1
      /\ order[Len(m.order) + 1] = call /\ \A i \in 1 .. Len(m.order) : order[i] = m.order[i]
    BY <1>2, AppendProperties
<1>6. IsInjective(order) /\ ToSet(order) = DOMAIN m.entries \cup {call}
    BY <1>2, Distinct
<1>7. /\ DOMAIN kept = DOMAIN m.entries \cup {call} /\ kept[call] = entry
      /\ \A c \in DOMAIN m.entries : kept[c] = m.entries[c]
    OBVIOUS
<1>8. \A i \in 1 .. Len(m.order) : kept[order[i]] = m.entries[m.order[i]]
    BY <1>2, <1>3, <1>5, <1>7 DEF ToSet
<1>9. \A c \in DOMAIN kept : kept[c].out \in Outs
    BY <1>2, <1>7
<1> HIDE DEF kept, order
<1>10. g \in [0 .. Len(m.order) -> Int] /\ g[0] = 0
    BY <1>1 DEF Sums
<1>11. h \in [0 .. Len(m.order) + 1 -> Int] /\ h[0] = 0
       /\ h[Len(m.order) + 1] = g[Len(m.order)] + size
    <2> HIDE DEF size
    <2> QED BY <1>3, <1>4, <1>10
<1>12. ASSUME NEW n \in 1 .. Len(m.order) + 1
       PROVE  h[n] = h[n - 1] + Bytes(kept[order[n]].out)
    <2>1. CASE n = Len(m.order) + 1
        <3>1. kept[order[n]] = entry /\ n - 1 = Len(m.order)
            BY <1>3, <1>5, <1>7, <2>1
        <3>2. h[n - 1] = g[Len(m.order)]
            BY <1>3, <3>1
        <3> QED BY <1>11, <2>1, <3>1, <3>2
    <2>2. CASE n # Len(m.order) + 1
        <3>1. n \in 1 .. Len(m.order) /\ n - 1 # Len(m.order) + 1
            BY <1>3, <2>2
        <3>2. h[n] = g[n] /\ h[n - 1] = g[n - 1]
            BY <1>3, <2>2, <3>1
        <3>3. kept[order[n]] = m.entries[m.order[n]]
            BY <1>8, <3>1
        <3>4. g[n] = g[n - 1] + Bytes(m.entries[m.order[n]].out)
            BY <1>1, <3>1 DEF Sums
        <3> QED BY <3>2, <3>3, <3>4
    <2> QED BY <2>1, <2>2
<1> HIDE DEF h
<1>13. Sums(h, kept, order)
    BY <1>5, <1>11, <1>12 DEF Sums
<1>14. m.total + size = h[Len(order)]
    BY <1>1, <1>5, <1>11
<1> HIDE DEF size
<1>15. Book([entries |-> kept, order |-> order, total |-> m.total + size])
    BY <1>5, <1>6, <1>7, <1>9, <1>13, <1>14 DEF Book
<1> QED BY <1>15 DEF kept, order, size

\* What goes brings the total within its limit.
LEMMA EvictedKeeps ==
    ASSUME NEW m, Book(m)
    PROVE  /\ Book(Evicted(m)) /\ Evicted(m).total <= MaxMemoBytes
           /\ \A c \in DOMAIN Evicted(m).entries :
                 c \in DOMAIN m.entries /\ Evicted(m).entries[c] = m.entries[c]
<1>1. PICK g : Sums(g, m.entries, m.order) /\ m.total = g[Len(m.order)]
    BY Zenon DEF Book
<1>2. /\ m.order \in Seq(Nat) /\ IsInjective(m.order) /\ ToSet(m.order) = DOMAIN m.entries
      /\ \A c \in DOMAIN m.entries : m.entries[c].out \in Outs
    BY Zenon DEF Book
<1>3. DOMAIN m.order = 1 .. Len(m.order) /\ Len(m.order) \in Nat
    BY <1>2
<1> DEFINE after(n) == m.total - Weight(m.entries, SubSeq(m.order, 1, n))
           fits == {k \in 0 .. Len(m.order) : after(k) <= MaxMemoBytes}
<1>4. g \in [0 .. Len(m.order) -> Int] /\ g[0] = 0
    BY <1>1 DEF Sums
<1>5. ASSUME NEW n \in 0 .. Len(m.order) PROVE after(n) = g[Len(m.order)] - g[n]
    <2> DEFINE first == SubSeq(m.order, 1, n)
               h == [i \in 0 .. n |-> g[i]]
    <2>1. Len(first) = n /\ \A i \in 1 .. n : first[i] = m.order[i]
        BY <1>2, Cut
    <2> HIDE DEF first
    <2>2. h \in [0 .. n -> Int] /\ h[0] = 0 /\ h[n] = g[n]
        BY <1>3, <1>4
    <2>3. ASSUME NEW i \in 1 .. n PROVE h[i] = h[i - 1] + Bytes(m.entries[first[i]].out)
        <3>1. i \in 1 .. Len(m.order) /\ h[i] = g[i] /\ h[i - 1] = g[i - 1]
            BY <1>3
        <3> QED BY <1>1, <2>1, <3>1 DEF Sums
    <2> HIDE DEF h
    <2>4. Sums(h, m.entries, first) /\ Len(first) \in Nat
        BY <1>3, <2>1, <2>2, <2>3 DEF Sums
    <2>5. Weight(m.entries, first) = h[Len(first)]
        BY <2>4, WeightIs
    <2> QED BY <1>1, <2>1, <2>2, <2>5 DEF first
<1> HIDE DEF after
<1>6. PICK n \in fits : n = Min(fits)
    <2>1. MaxMemoBytes \in Nat
        BY ToolOutputAssumption
    <2>2. Len(m.order) \in fits
        BY <1>3, <1>4, <1>5, <2>1
    <2>3. fits \in SUBSET Nat /\ fits # {}
        BY <2>2
    <2> HIDE DEF fits
    <2>4. \E n \in fits : \A k \in fits : n <= k
        BY <2>3, LeastNatural
    <2>5. Min(fits) \in fits
        BY <2>4 DEF Min
    <2> QED BY <2>5
<1>7. n \in 0 .. Len(m.order) /\ after(n) <= MaxMemoBytes
    BY <1>6
<1> DEFINE order == SubSeq(m.order, n + 1, Len(m.order))
           kept == [c \in ToSet(order) |-> m.entries[c]]
<1>8. Evicted(m) = [entries |-> kept, order |-> order, total |-> after(n)]
    BY <1>6 DEF Evicted, after
<1>9. /\ order \in Seq(Nat) /\ Len(order) = Len(m.order) - n
      /\ \A i \in 1 .. Len(m.order) - n : order[i] = m.order[n + i]
    BY <1>2, <1>7, Cut
<1>10. IsInjective(order) /\ ToSet(order) \subseteq DOMAIN m.entries
    BY <1>2, <1>7, Distinct
<1> HIDE DEF order, fits
<1>11. /\ DOMAIN kept = ToSet(order)
       /\ \A c \in DOMAIN kept :
             c \in DOMAIN m.entries /\ kept[c] = m.entries[c] /\ kept[c].out \in Outs
    BY <1>2, <1>10
<1>12. \A i \in 1 .. Len(m.order) - n : kept[order[i]] = m.entries[m.order[n + i]]
    <2>1. \A i \in 1 .. Len(m.order) - n : order[i] \in ToSet(order)
        BY <1>3, <1>7, <1>9 DEF ToSet
    <2> QED BY <1>9, <1>11, <2>1
<1> HIDE DEF kept
<1> DEFINE h == [i \in 0 .. Len(m.order) - n |-> g[n + i] - g[n]]
<1>13. h \in [0 .. Len(m.order) - n -> Int] /\ h[0] = 0
       /\ h[Len(m.order) - n] = g[Len(m.order)] - g[n]
    BY <1>3, <1>4, <1>7
<1>14. ASSUME NEW i \in 1 .. Len(m.order) - n
       PROVE  h[i] = h[i - 1] + Bytes(kept[order[i]].out)
    <2>1. n + i \in 1 .. Len(m.order) /\ n + (i - 1) = (n + i) - 1
          /\ n + i \in 0 .. Len(m.order) /\ n + i - 1 \in 0 .. Len(m.order)
          /\ i \in 0 .. Len(m.order) - n /\ i - 1 \in 0 .. Len(m.order) - n
        BY <1>3, <1>7
    <2>2. h[i] = g[n + i] - g[n] /\ h[i - 1] = g[n + i - 1] - g[n]
        BY <2>1
    <2> HIDE DEF h
    <2> DEFINE size == Bytes(m.entries[m.order[n + i]].out)
    <2>3. g[n + i] = g[n + i - 1] + size
        BY <1>1, <2>1 DEF Sums
    <2>4. size \in Nat
        <3>1. m.order[n + i] \in DOMAIN m.entries
            BY <1>2, <1>3, <2>1 DEF ToSet
        <3> QED BY <1>2, <3>1 DEF Outs
    <2>5. Bytes(kept[order[i]].out) = size
        BY <1>12
    <2> HIDE DEF size
    <2>6. g[n] \in Int /\ g[n + i] \in Int /\ g[n + i - 1] \in Int
        BY <1>4, <1>7, <2>1
    <2> QED BY <2>2, <2>3, <2>4, <2>5, <2>6
<1> HIDE DEF h
<1>15. Sums(h, kept, order) /\ after(n) = h[Len(order)]
    BY <1>5, <1>7, <1>9, <1>13, <1>14 DEF Sums
<1>16. Book([entries |-> kept, order |-> order, total |-> after(n)])
    BY <1>9, <1>10, <1>11, <1>15 DEF Book
<1>17. Evicted(m).entries = kept /\ Evicted(m).total = after(n)
    BY <1>8
<1> QED BY <1>7, <1>8, <1>11, <1>16, <1>17

-----------------------------------------------------------------------------
(* Sessions in the order they came.                                        *)

\* Every session that is held is in the order once, and there are not too many.
SessionsOf(held) ==
    /\ held = [order |-> held.order, of |-> [s \in Held(held) |-> held.of[s]]]
    /\ held.order \in Seq(Sessions) /\ IsInjective(held.order)
    /\ ToSet(held.order) = Held(held)
    /\ IsFiniteSet(Held(held)) /\ Cardinality(Held(held)) <= MaxSessions

LEMMA NoneHeld == SessionsOf(NoSessions) /\ Held(NoSessions) = {}
<1>1. <<>> \in Seq(Sessions) /\ ToSet(<<>>) = {} /\ IsInjective(<<>>) /\ DOMAIN <<>> = {}
    BY DEF ToSet, IsInjective
<1>2. <<>> = [s \in {} |-> <<>>[s]]
    OBVIOUS
<1>3. IsFiniteSet({}) /\ Cardinality({}) = 0 /\ MaxSessions \in Nat
    BY FS_EmptySet, ToolOutputAssumption
<1>4. Held(NoSessions) = {}
    BY <1>1 DEF Held, NoSessions
<1>5. NoSessions.order = <<>> /\ NoSessions.of = <<>>
    BY DEF NoSessions
<1>6. [s \in Held(NoSessions) |-> NoSessions.of[s]] = <<>>
    BY <1>2, <1>4, <1>5
<1>7. NoSessions = [order |-> NoSessions.order,
                    of |-> [s \in Held(NoSessions) |-> NoSessions.of[s]]]
    BY <1>5, <1>6 DEF NoSessions
<1>8. /\ NoSessions.order \in Seq(Sessions) /\ IsInjective(NoSessions.order)
      /\ ToSet(NoSessions.order) = Held(NoSessions)
    BY <1>1, <1>4, <1>5, Zenon
<1>9. IsFiniteSet(Held(NoSessions)) /\ Cardinality(Held(NoSessions)) <= MaxSessions
    BY <1>3, <1>4
<1> QED BY <1>4, <1>7, <1>8, <1>9, Zenon DEF SessionsOf

\* A session that gets a value displaces another one, not itself, and changes no other.
LEMMA SessionKept ==
    ASSUME NEW held, SessionsOf(held), NEW session \in Sessions, NEW empty, NEW value
    PROVE  LET opened == Opened(held, session, empty)
               next == Trimmed([opened EXCEPT !.of[session] = value], session)
           IN  /\ opened.of[session] = IF session \in Held(held) THEN held.of[session] ELSE empty
               /\ SessionsOf(next)
               /\ \A s \in Held(next) :
                     \/ s = session /\ next.of[s] = value
                     \/ s \in Held(held) /\ next.of[s] = held.of[s]
<1> DEFINE opened == Opened(held, session, empty)
           order == IF session \in Held(held) THEN held.order ELSE Append(held.order, session)
           all == Held(held) \cup {session}
           of == [s \in all |-> IF s = session THEN value ELSE held.of[s]]
           changed == [order |-> order, of |-> of]
           next == Trimmed(changed, session)
<1>1. /\ held = [order |-> held.order, of |-> [s \in Held(held) |-> held.of[s]]]
      /\ held.order \in Seq(Sessions) /\ IsInjective(held.order)
      /\ ToSet(held.order) = Held(held)
      /\ IsFiniteSet(Held(held)) /\ Cardinality(Held(held)) <= MaxSessions
    BY Zenon DEF SessionsOf
<1>2. /\ [opened EXCEPT !.of[session] = value] = changed
      /\ opened.of[session] = IF session \in Held(held) THEN held.of[session] ELSE empty
    <2> DEFINE before == [s \in all |-> IF s \in Held(held) THEN held.of[s] ELSE empty]
    <2>1. opened = [order |-> order, of |-> before]
        <3>1. CASE session \in Held(held)
            <4>1. opened = held /\ all = Held(held) /\ order = held.order
                BY <3>1 DEF Opened
            <4> QED BY <1>1, <4>1
        <3>2. CASE session \notin Held(held)
            <4>1. opened = [order |-> order,
                            of |-> [s \in all |-> IF s = session THEN empty ELSE held.of[s]]]
                BY <3>2 DEF Opened
            <4>2. [s \in all |-> IF s = session THEN empty ELSE held.of[s]] = before
                BY <3>2
            <4> QED BY <4>1, <4>2
        <3> QED BY <3>1, <3>2
    <2> HIDE DEF opened, order
    <2>2. opened.of[session] = before[session] /\ session \in all
        BY <2>1
    <2>3. [opened EXCEPT !.of[session] = value] =
              [order |-> order, of |-> [before EXCEPT ![session] = value]]
        BY <2>1
    <2>4. [before EXCEPT ![session] = value] = of
        OBVIOUS
    <2> QED BY <2>2, <2>3, <2>4
<1>3. /\ order \in Seq(Sessions) /\ IsInjective(order) /\ ToSet(order) = all
      /\ session \notin Held(held) => order = Append(held.order, session)
    <2>1. CASE session \in Held(held)
        BY <1>1, <2>1
    <2>2. CASE session \notin Held(held)
        BY <1>1, <2>2, AppendProperties, Distinct
    <2> QED BY <2>1, <2>2
<1>4. /\ IsFiniteSet(all) /\ Cardinality(all) \in Nat /\ Cardinality(Held(held)) \in Nat
      /\ Cardinality(all) = IF session \in Held(held) THEN Cardinality(Held(held))
                                                       ELSE Cardinality(Held(held)) + 1
    BY <1>1, FS_AddElement, FS_CardinalityType
<1>5. Held(changed) = all /\ changed.order = order /\ changed.of = of
    BY DEF Held
<1> HIDE DEF order
<1>6. CASE Cardinality(all) <= MaxSessions
    <2>1. next = changed
        BY <1>5, <1>6 DEF Trimmed
    <2>2. SessionsOf(next)
        BY <1>3, <1>4, <1>5, <1>6, <2>1 DEF SessionsOf
    <2>3. ASSUME NEW s \in Held(next)
          PROVE  \/ s = session /\ next.of[s] = value
                 \/ s \in Held(held) /\ next.of[s] = held.of[s]
        BY <1>5, <2>1
    <2> HIDE DEF next, opened
    <2>4. next = Trimmed([opened EXCEPT !.of[session] = value], session)
        BY <1>2 DEF next
    <2> QED BY <1>2, <2>2, <2>3, <2>4 DEF opened
<1>7. CASE ~(Cardinality(all) <= MaxSessions)
    <2>1. MaxSessions \in Nat \ {0}
        BY ToolOutputAssumption
    <2>2. session \notin Held(held) /\ Cardinality(Held(held)) = MaxSessions
        BY <1>1, <1>4, <1>7, <2>1
    <2>3. Held(held) # {}
        BY <2>1, <2>2, FS_EmptySet
    <2>4. held.order # <<>>
        BY <1>1, <2>3 DEF ToSet
    <2>5. Head(order) = Head(held.order) /\ order # <<>>
        BY <1>1, <1>3, <2>2, <2>4, HeadTailAppend, AppendProperties
    <2> DEFINE oldest == Head(order)
    <2>6. oldest \in Held(held)
        BY <1>1, <2>4, <2>5, Rest
    <2>7. /\ Tail(order) \in Seq(Sessions) /\ IsInjective(Tail(order))
          /\ ToSet(Tail(order)) = all \ {oldest}
        BY <1>3, <2>5, Rest
    <2>8. IsFiniteSet(all \ {oldest}) /\ Cardinality(all \ {oldest}) = Cardinality(all) - 1
        BY <1>4, <2>6, FS_RemoveElement
    <2>9. Cardinality(all \ {oldest}) <= MaxSessions
        BY <1>4, <2>1, <2>2, <2>8
    <2>10. next = [order |-> Tail(order), of |-> [s \in all \ {oldest} |-> of[s]]]
        <3>1. oldest # session
            BY <2>2, <2>6
        <3> QED BY <1>5, <1>7, <3>1 DEF Trimmed
    <2> HIDE DEF oldest, of
    <2>11. Held(next) = all \ {oldest} /\ \A s \in Held(next) : next.of[s] = of[s]
        BY <2>10 DEF Held
    <2>12. SessionsOf(next)
        <3>1. next.order = Tail(order) /\ next.of = [s \in all \ {oldest} |-> of[s]]
            BY <2>10
        <3>2. [s \in Held(next) |-> next.of[s]] = [s \in all \ {oldest} |-> of[s]]
            BY <2>11
        <3>3. next = [order |-> next.order, of |-> [s \in Held(next) |-> next.of[s]]]
            BY <2>10, <3>1, <3>2
        <3> HIDE DEF next
        <3> QED BY <2>7, <2>8, <2>9, <2>11, <3>1, <3>3, Zenon DEF SessionsOf
    <2>13. ASSUME NEW s \in Held(next)
           PROVE  \/ s = session /\ next.of[s] = value
                  \/ s \in Held(held) /\ next.of[s] = held.of[s]
        BY <2>11 DEF of
    <2> HIDE DEF next, opened
    <2>14. next = Trimmed([opened EXCEPT !.of[session] = value], session)
        BY <1>2, Zenon DEF next
    <2> QED BY <1>2, <2>12, <2>13, <2>14, Zenon DEF opened
<1> QED BY <1>6, <1>7

\* When there is room for all sessions none goes.
LEMMA NoneTrimmed ==
    ASSUME Roomy, NEW state, Held(state) \subseteq Sessions, NEW session
    PROVE  Trimmed(state, session) = state
<1>1. Cardinality(Held(state)) <= Cardinality(Sessions) /\ IsFiniteSet(Held(state))
    BY FS_Subset DEF Roomy
<1>2. Cardinality(Held(state)) \in Nat /\ Cardinality(Sessions) \in Nat /\ MaxSessions \in Nat
    BY <1>1, FS_CardinalityType, ToolOutputAssumption DEF Roomy
<1>3. Cardinality(Held(state)) <= MaxSessions
    BY <1>1, <1>2 DEF Roomy
<1> QED BY <1>3 DEF Trimmed

-----------------------------------------------------------------------------
(* Histories, and the messages made of them.                               *)

Items ==
    [kind : {"call"}, id : RawIds \cup {NoId}, tool : Tools]
        \cup [kind : {"result"}, id : RawIds, status : Statuses, text : Texts]

Messages ==
    [kind : {"call"}, call : Nat, tool : Tools] \cup [kind : {"result"}, call : Nat, out : Outs]

\* What openai_to_messages has after some messages.
Parsed(parse, n) ==
    /\ parse = [seen |-> parse.seen, counter |-> parse.counter,
                pending |-> parse.pending, messages |-> parse.messages]
    /\ parse.seen \in SUBSET Nat /\ IsFiniteSet(parse.seen)
    /\ parse.counter \in Nat
    /\ parse.pending \in [RawIds -> Seq(Nat)]
    /\ parse.messages \in Seq(Messages) /\ Len(parse.messages) = n

\* There is always an id left to generate.
LEMMA GeneratedIsNew ==
    ASSUME NEW seen \in SUBSET Nat, IsFiniteSet(seen), NEW from \in Nat
    PROVE  Generated(seen, from) \in Nat \ seen
<1> DEFINE size == Cardinality(seen)
           free == {n \in from .. (from + size) : n \notin seen}
<1>1. size \in Nat
    BY FS_CardinalityType
<1>2. free # {}
    <2> SUFFICES ASSUME free = {} PROVE FALSE
        OBVIOUS
    <2>1. from .. (from + size) \in SUBSET seen
        OBVIOUS
    <2> HIDE DEF size
    <2>2. Cardinality(from .. (from + size)) = size + 1
        <3>1. from \in Int /\ from + size \in Int /\ ~(from > from + size)
            BY <1>1
        <3>2. Cardinality(from .. (from + size)) = (from + size) - from + 1
            BY <3>1, FS_Interval
        <3> QED BY <1>1, <3>2
    <2>3. Cardinality(from .. (from + size)) <= size
        BY <2>1, FS_Subset DEF size
    <2> QED BY <1>1, <2>2, <2>3
<1>3. PICK n \in free : \A m \in free : n <= m
    <2>1. free \in SUBSET Nat
        BY <1>1
    <2> HIDE DEF free
    <2> QED BY <1>2, <2>1, LeastNatural
<1>4. n \in from .. (from + size) /\ n \notin seen /\ from .. (n - 1) \subseteq seen
    BY <1>1, <1>3
<1> HIDE DEF free
<1>5. Generated(seen, from) \in {k \in from .. (from + size) : k \notin seen}
    BY <1>4 DEF Generated
<1> QED BY <1>1, <1>5

\* A message is made of every item.
LEMMA NamedKeeps ==
    ASSUME NEW n \in Nat, NEW parse, Parsed(parse, n), NEW item \in Items
    PROVE  Parsed(Named(parse, item), n + 1)
<1>1. /\ parse.seen \in SUBSET Nat /\ IsFiniteSet(parse.seen)
      /\ parse.counter \in Nat
      /\ parse.pending \in [RawIds -> Seq(Nat)]
      /\ parse.messages \in Seq(Messages) /\ Len(parse.messages) = n
      /\ parse = [seen |-> parse.seen, counter |-> parse.counter,
                  pending |-> parse.pending, messages |-> parse.messages]
    BY Zenon DEF Parsed
<1>2. RawIds \subseteq Nat /\ NoId \notin Nat
    BY PriorResultsAssumption
<1>3. CASE item \in [kind : {"call"}, id : RawIds \cup {NoId}, tool : Tools]
    <2> DEFINE fresh == Generated(parse.seen, parse.counter)
               keeps == item.id # NoId /\ item.id \notin parse.seen
               id == IF keeps THEN item.id ELSE fresh
               next == IF keeps THEN parse.counter ELSE fresh + 1
               pending == IF item.id = NoId THEN parse.pending
                          ELSE [parse.pending EXCEPT ![item.id] = Append(@, id)]
               message == [kind |-> "call", call |-> id, tool |-> item.tool]
    <2>1. fresh \in Nat
        BY <1>1, GeneratedIsNew
    <2>2. item.kind = "call" /\ item.id \in RawIds \cup {NoId} /\ item.tool \in Tools
        BY <1>3
    <2> HIDE DEF fresh
    <2>3. id \in Nat /\ next \in Nat
        BY <1>1, <1>2, <2>1, <2>2
    <2> HIDE DEF next, id
    <2>4. pending \in [RawIds -> Seq(Nat)]
        BY <1>1, <2>2, <2>3
    <2>5. message \in Messages
        BY <2>2, <2>3 DEF Messages
    <2>6. parse.seen \cup {id} \in SUBSET Nat /\ IsFiniteSet(parse.seen \cup {id})
        BY <1>1, <2>3, FS_AddElement
    <2>7. Named(parse, item) = [seen |-> parse.seen \cup {id}, counter |-> next,
                                pending |-> pending,
                                messages |-> Append(parse.messages, message)]
        BY <2>2, Zenon DEF Named, NameCall, next, id, fresh
    <2> HIDE DEF pending, message
    <2>8. /\ Append(parse.messages, message) \in Seq(Messages)
          /\ Len(Append(parse.messages, message)) = n + 1
        BY <1>1, <2>5, AppendProperties
    <2> QED BY <2>3, <2>4, <2>6, <2>7, <2>8 DEF Parsed
<1>4. CASE item \in [kind : {"result"}, id : RawIds, status : Statuses, text : Texts]
    <2> DEFINE waiting == parse.pending[item.id]
               id == IF waiting = <<>> THEN item.id ELSE Head(waiting)
               pending == IF waiting = <<>> THEN parse.pending
                          ELSE [parse.pending EXCEPT ![item.id] = Tail(waiting)]
               message == [kind |-> "result", call |-> id, out |-> Verbatim(item.text)]
    <2>1. item.kind = "result" /\ item.id \in RawIds /\ item.id # NoId /\ item.text \in Texts
        BY <1>2, <1>4
    <2>2. waiting \in Seq(Nat)
        BY <1>1, <2>1
    <2> HIDE DEF waiting
    <2>3. waiting # <<>> => Head(waiting) \in Nat /\ Tail(waiting) \in Seq(Nat)
        BY <2>2, HeadTailProperties
    <2>4. id \in Nat
        BY <1>2, <2>1, <2>3
    <2>5. pending \in [RawIds -> Seq(Nat)]
        BY <1>1, <2>1, <2>3
    <2>6. Verbatim(item.text) \in Outs
        <3>1. TextBytes[item.text] \in Nat
            BY <2>1, ToolOutputAssumption
        <3> QED BY <2>1, <3>1 DEF Outs, Outputs, Verbatim, Bytes
    <2> HIDE DEF id
    <2>7. message \in Messages
        BY <2>4, <2>6 DEF Messages
    <2>8. Named(parse, item) = [parse EXCEPT !.pending = pending,
                                             !.messages = Append(parse.messages, message)]
        BY <2>1, Zenon DEF Named, NameResult, waiting, id
    <2> HIDE DEF pending, message
    <2>9. Named(parse, item) = [seen |-> parse.seen, counter |-> parse.counter,
                                pending |-> pending,
                                messages |-> Append(parse.messages, message)]
        BY <1>1, <2>8
    <2>10. /\ Append(parse.messages, message) \in Seq(Messages)
           /\ Len(Append(parse.messages, message)) = n + 1
        BY <1>1, <2>7, AppendProperties
    <2> QED BY <1>1, <2>5, <2>9, <2>10 DEF Parsed
<1> QED BY <1>3, <1>4 DEF Items

\* What the conversion of a history has before its first item.
Begin(from) ==
    [seen |-> {}, counter |-> from, pending |-> [id \in RawIds |-> <<>>], messages |-> <<>>]

\* What it has after each item follows from what it had before.
Parses(parse, items, from) ==
    /\ parse[0] = Begin(from)
    /\ \A n \in 1 .. Len(items) : parse[n] = Named(parse[n - 1], items[n])

\* A history is converted item by item.
LEMMA ConvertedStepwise ==
    ASSUME NEW items \in Seq(Items), NEW from \in Nat
    PROVE  \E parse : Parses(parse, items, from) /\ Converted(items, from) = parse[Len(items)]
<1> DEFINE begin == Begin(from)
           Value(f, n) == IF n = 0 THEN begin ELSE Named(f[n - 1], items[n])
           follows(f, k) == f = [n \in 0 .. k |-> Value(f, n)]
           parse == CHOOSE f : f = [n \in 0 .. Len(items) |-> Value(f, n)]
<1>1. Len(items) \in Nat /\ \A n \in 1 .. Len(items) : items[n] \in Items
    OBVIOUS
<1> HIDE DEF begin
<1>2. \E f : follows(f, Len(items))
    <2> DEFINE stuck == {k \in 0 .. Len(items) : ~ \E f : follows(f, k)}
    <2> SUFFICES ASSUME stuck # {} PROVE FALSE
        BY <1>1
    <2>1. PICK k \in stuck : \A l \in stuck : k <= l
        <3>1. stuck \in SUBSET Nat
            OBVIOUS
        <3> HIDE DEF stuck
        <3> QED BY <3>1, LeastNatural
    <2>2. k # 0
        <3> DEFINE f == [n \in 0 .. 0 |-> begin]
        <3>1. \A n \in 0 .. 0 : n = 0
            OBVIOUS
        <3>2. follows(f, 0)
            BY <3>1
        <3> QED BY <3>2
    <2>3. k \in 0 .. Len(items) /\ k - 1 \in 0 .. Len(items) /\ ~(k <= k - 1)
        BY <2>2
    <2>4. PICK f : follows(f, k - 1)
        BY <2>1, <2>3
    <2> DEFINE longer == [n \in 0 .. k |-> IF n = k THEN Named(f[k - 1], items[k]) ELSE f[n]]
    <2>5. ASSUME NEW n \in 0 .. k PROVE longer[n] = Value(longer, n)
        <3>1. CASE n = k
            <4>1. longer[k - 1] = f[k - 1] /\ longer[n] = Named(f[k - 1], items[k])
                BY <2>2, <2>3, <3>1
            <4> QED BY <2>2, <3>1, <4>1
        <3>2. CASE n # k
            <4>1. n \in 0 .. k - 1
                BY <2>3, <3>2
            <4>2. f[n] = Value(f, n)
                BY <2>4, <4>1
            <4>3. longer[n] = f[n] /\ (n # 0 => longer[n - 1] = f[n - 1])
                BY <2>3, <3>2
            <4> QED BY <4>2, <4>3
        <3> QED BY <3>1, <3>2
    <2>6. follows(longer, k)
        BY <2>5
    <2> QED BY <2>1, <2>6
<1>3. parse = [n \in 0 .. Len(items) |-> Value(parse, n)]
    BY <1>2
<1>4. Converted(items, from) = parse[Len(items)]
    BY Zenon DEF Converted, begin, Begin
<1> HIDE DEF parse
<1>5. parse[0] = begin
    BY <1>1, <1>3
<1>6. ASSUME NEW n \in 1 .. Len(items) PROVE parse[n] = Named(parse[n - 1], items[n])
    BY <1>1, <1>3
<1> QED BY <1>4, <1>5, <1>6 DEF Parses, begin

\* A message is made of every item of a history.
LEMMA ConvertedIs ==
    ASSUME NEW items \in Seq(Items), NEW from \in Nat
    PROVE  Parsed(Converted(items, from), Len(items))
<1>1. Len(items) \in Nat /\ \A n \in 1 .. Len(items) : items[n] \in Items
    OBVIOUS
<1>2. PICK parse : Parses(parse, items, from) /\ Converted(items, from) = parse[Len(items)]
    BY ConvertedStepwise
<1> DEFINE right == {n \in 0 .. Len(items) : Parsed(parse[n], n)}
<1>3. 0 \in right
    <2>1. <<>> \in Seq(Messages) /\ Len(<<>>) = 0 /\ <<>> \in Seq(Nat)
          /\ {} \in SUBSET Nat /\ IsFiniteSet({})
        BY FS_EmptySet
    <2>2. Parsed(Begin(from), 0)
        BY <2>1 DEF Parsed, Begin
    <2> QED BY <1>1, <1>2, <2>2 DEF Parses
<1>4. ASSUME NEW n \in 1 .. Len(items), n - 1 \in right PROVE n \in right
    <2>1. n - 1 \in Nat /\ (n - 1) + 1 = n /\ items[n] \in Items
        BY <1>1
    <2>2. Parsed(parse[n - 1], n - 1)
        BY <1>4
    <2>3. Parsed(Named(parse[n - 1], items[n]), (n - 1) + 1)
        BY <2>1, <2>2, NamedKeeps
    <2>4. parse[n] = Named(parse[n - 1], items[n])
        BY <1>2 DEF Parses
    <2> QED BY <2>1, <2>3, <2>4
<1> HIDE DEF right
<1>5. \A n \in 0 .. Len(items) : n \in right
    BY <1>1, <1>3, <1>4, UpTo
<1>6. Len(items) \in right
    BY <1>1, <1>5
<1> QED BY <1>2, <1>6 DEF right

\* The next result is the place of a result, or behind the last message.
LEMMA NextResultIs ==
    ASSUME NEW messages, Len(messages) \in Nat, NEW i \in 1 .. (Len(messages) + 1)
    PROVE  /\ NextResult(messages, i) \in 1 .. (Len(messages) + 1)
           /\ NextResult(messages, i) <= Len(messages)
                  => messages[NextResult(messages, i)].kind = "result"
<1> DEFINE found == {k \in i .. Len(messages) : messages[k].kind = "result"}
                        \cup {Len(messages) + 1}
<1>1. found \in SUBSET Nat /\ found # {}
    OBVIOUS
<1>2. ASSUME NEW k \in found
      PROVE  /\ k \in 1 .. (Len(messages) + 1)
             /\ k <= Len(messages) => messages[k].kind = "result"
    OBVIOUS
<1>3. NextResult(messages, i) = Min(found)
    BY DEF NextResult
<1> HIDE DEF found
<1>4. \E n \in found : \A m \in found : n <= m
    BY <1>1, LeastNatural
<1>5. Min(found) \in found
    BY <1>4 DEF Min
<1> QED BY <1>2, <1>3, <1>5

\* A non-empty set of places in a sequence has a last one.
LEMMA LastPlace ==
    ASSUME NEW n \in Nat, NEW S \in SUBSET (1 .. n), S # {}
    PROVE  Max(S) \in S
<1> DEFINE bounds == {b \in Nat : \A k \in S : k <= b}
<1>1. n \in bounds
    OBVIOUS
<1>2. PICK b \in bounds : \A c \in bounds : b <= c
    <2>1. bounds \in SUBSET Nat /\ bounds # {}
        BY <1>1
    <2> HIDE DEF bounds
    <2> QED BY <2>1, LeastNatural
<1>3. b \in S
    <2> SUFFICES ASSUME b \notin S PROVE FALSE
        OBVIOUS
    <2>1. b - 1 \in bounds
        <3>1. \A k \in S : k <= b /\ k # b /\ k \in 1 .. n
            OBVIOUS
        <3>2. PICK k \in S : TRUE
            OBVIOUS
        <3>3. b \in Nat /\ b # 0
            BY <3>1, <3>2
        <3>4. \A l \in S : l <= b - 1
            BY <3>1, <3>3
        <3> QED BY <3>3, <3>4
    <2>2. ~(b <= b - 1)
        OBVIOUS
    <2> QED BY <1>2, <2>1, <2>2
<1>4. \E x \in S : \A y \in S : x >= y
    BY <1>3
<1> QED BY <1>4 DEF Max

-----------------------------------------------------------------------------
(* The state that requests share.                                          *)

Records == [tool : Tools \cup {"generic"}, out : Outs, call : Nat]

DedupInv(state) ==
    /\ SessionsOf(state)
    /\ \A s \in Held(state) :
          state.of[s] \in Seq(Records) /\ Len(state.of[s]) \in 1 .. MaxEntries

MemoInv(state) ==
    /\ SessionsOf(state)
    /\ \A s \in Held(state) : Book(state.of[s]) /\ state.of[s].total <= MaxMemoBytes

\* The filters, and a reference, give outputs that have a length.
LEMMA OutputsHaveLengths ==
    /\ \A text \in Texts, config \in Configs : Filtered(text, config) \in Outs
    /\ \A text \in Texts, call \in Nat : Reference(call, text) \in Outs
<1>1. ASSUME NEW text \in Texts, NEW config \in Configs
      PROVE  Filtered(text, config) \in Outs
    <2> DEFINE form == FormOf[config.mode][text]
    <2>1. config.mode \in DOMAIN FormOf
        BY ProxySessionAssumption
    <2>2. /\ form \in {"text", "binary", "dictionary"}
          /\ form = "dictionary" => TextBytes[text] > 0
        BY <2>1, ToolOutputAssumption
    <2>3. TextBytes[text] \in Nat /\ ReferenceBytes \in Nat
        BY ToolOutputAssumption
    <2>4. Filtered(text, config) = [form |-> form, text |-> text, of |-> NoId]
        BY Zenon DEF Filtered
    <2> HIDE DEF form
    <2> DEFINE out == [form |-> form, text |-> text, of |-> NoId]
    <2>5. out \in Outputs
        BY <2>2 DEF Outputs
    <2>6. Bytes(out) \in Nat
        <3>1. CASE form = "text"
            BY <2>3, <3>1 DEF Bytes
        <3>2. CASE form = "binary"
            BY <2>3, <3>2 DEF Bytes
        <3>3. CASE form = "dictionary"
            BY <2>2, <2>3, <3>3 DEF Bytes
        <3> QED BY <2>2, <3>1, <3>2, <3>3
    <2> QED BY <2>4, <2>5, <2>6 DEF Outs
<1>2. ASSUME NEW text \in Texts, NEW call \in Nat
      PROVE  Reference(call, text) \in Outs
    <2>1. ReferenceBytes \in Nat
        BY ToolOutputAssumption
    <2>2. Reference(call, text) \in Outputs
        BY DEF Reference, Outputs
    <2>3. Bytes(Reference(call, text)) = ReferenceBytes
        BY DEF Reference, Bytes
    <2> QED BY <2>1, <2>2, <2>3 DEF Outs
<1> QED BY <1>1, <1>2

\* A duplicate is a call that is on record.
LEMMA DuplicateIs ==
    ASSUME NEW state, DedupInv(state), NEW session, NEW call, NEW tool, NEW out
    PROVE  DuplicateOf(state, session, call, tool, out) \in Nat \cup {NoId}
<1> DEFINE known == Duplicates(state, session, tool, out)
<1>1. CASE known = {}
    BY <1>1 DEF DuplicateOf
<1>2. CASE known # {}
    <2>1. session \in Held(state)
        BY <1>2 DEF Duplicates
    <2>2. state.of[session] \in Seq(Records)
        BY <2>1 DEF DedupInv
    <2>3. known \in SUBSET (DOMAIN state.of[session])
        BY <2>1 DEF Duplicates
    <2>4. known \in SUBSET Nat
        BY <2>2, <2>3
    <2> HIDE DEF known
    <2>5. \E n \in known : \A m \in known : n <= m
        BY <1>2, <2>4, LeastNatural
    <2>6. Min(known) \in known
        BY <2>5 DEF Min
    <2>7. state.of[session][Min(known)] \in Records
        BY <2>2, <2>3, <2>6
    <2>8. state.of[session][Min(known)].call \in Nat
        BY <2>7 DEF Records
    <2> QED BY <1>2, <2>8 DEF DuplicateOf, known
<1> QED BY <1>1, <1>2

\* Records of a session are kept up to their number.
LEMMA DeduplicatedKeeps ==
    ASSUME NEW state, DedupInv(state), NEW session \in Sessions, NEW call \in Nat,
           NEW tool \in Tools \cup {"generic"}, NEW out \in Outs
    PROVE  DedupInv(Deduplicated(state, session, call, tool, out))
<1>1. CASE Duplicates(state, session, tool, out) # {}
    BY <1>1 DEF Deduplicated
<1>2. CASE ~(Duplicates(state, session, tool, out) # {})
    <2> DEFINE opened == Opened(state, session, <<>>)
               record == [tool |-> tool, out |-> out, call |-> call]
               before == opened.of[session]
               records == Append(before, record)
               kept == IF Len(records) > MaxEntries THEN Tail(records) ELSE records
               next == Trimmed([opened EXCEPT !.of[session] = kept], session)
    <2>1. Deduplicated(state, session, call, tool, out) = next
        BY <1>2 DEF Deduplicated
    <2> HIDE DEF opened, kept
    <2>2. /\ opened.of[session] = IF session \in Held(state) THEN state.of[session] ELSE <<>>
          /\ SessionsOf(next)
          /\ \A s \in Held(next) :
                \/ s = session /\ next.of[s] = kept
                \/ s \in Held(state) /\ next.of[s] = state.of[s]
        BY SessionKept, Zenon DEF DedupInv, opened
    <2>3. MaxEntries \in Nat \ {0}
        BY ToolOutputAssumption
    <2>4. before \in Seq(Records) /\ Len(before) \in 0 .. MaxEntries
        <3>1. CASE session \in Held(state)
            <4>1. before = state.of[session]
                BY <2>2, <3>1
            <4> QED BY <2>3, <3>1, <4>1 DEF DedupInv
        <3>2. CASE session \notin Held(state)
            <4>1. before = <<>>
                BY <2>2, <3>2
            <4> QED BY <2>3, <4>1
        <3> QED BY <3>1, <3>2
    <2> HIDE DEF before
    <2>5. record \in Records
        BY DEF Records
    <2> HIDE DEF record
    <2>6. records \in Seq(Records) /\ Len(records) = Len(before) + 1 /\ records # <<>>
        BY <2>4, <2>5, AppendProperties
    <2> HIDE DEF records
    <2>7. Tail(records) \in Seq(Records) /\ Len(Tail(records)) = Len(records) - 1
        BY <2>6, HeadTailProperties
    <2>8. kept \in Seq(Records) /\ Len(kept) \in 1 .. MaxEntries
        BY <2>3, <2>4, <2>6, <2>7 DEF kept
    <2> HIDE DEF next
    <2> QED BY <2>1, <2>2, <2>8 DEF DedupInv
<1> QED BY <1>1, <1>2

\* What a memo stores leaves its books in order and within the limit.
LEMMA MemoizedKeeps ==
    ASSUME NEW state, MemoInv(state), NEW session \in Sessions, NEW call \in Nat,
           NEW entry, entry.out \in Outs
    PROVE  MemoInv(Memoized(state, session, call, entry))
<1> DEFINE oversized == Bytes(entry.out) > MaxMemoOutput
           opened == Opened(state, session, EmptyMemo)
           before == opened.of[session]
           cleared == Forgotten(before, call)
           added == [entries |-> [c \in DOMAIN cleared.entries \cup {call} |->
                                     IF c = call THEN entry ELSE cleared.entries[c]],
                     order |-> Append(cleared.order, call),
                     total |-> cleared.total + Bytes(entry.out)]
           value == IF oversized THEN cleared ELSE Evicted(added)
           next == Trimmed([opened EXCEPT !.of[session] = value], session)
<1>1. Memoized(state, session, call, entry) =
          IF oversized /\ session \notin Held(state) THEN state ELSE next
    BY DEF Memoized
<1> HIDE DEF opened, value
<1>2. /\ opened.of[session] = IF session \in Held(state) THEN state.of[session] ELSE EmptyMemo
      /\ SessionsOf(next)
      /\ \A s \in Held(next) :
            \/ s = session /\ next.of[s] = value
            \/ s \in Held(state) /\ next.of[s] = state.of[s]
    BY SessionKept, Zenon DEF MemoInv, opened
<1>3. MaxMemoBytes \in Nat
    BY ToolOutputAssumption
<1>4. Book(before) /\ before.total <= MaxMemoBytes
    BY <1>2, <1>3, EmptyBook DEF MemoInv
<1> HIDE DEF before
<1>5. /\ Book(cleared) /\ call \notin DOMAIN cleared.entries
      /\ cleared.total \in Int /\ before.total \in Int /\ cleared.total <= before.total
    BY <1>4, ForgottenKeeps
<1>6. cleared.total <= MaxMemoBytes
    BY <1>3, <1>4, <1>5
<1> HIDE DEF cleared
<1>7. Book(added)
    <2>1. call \in Nat \ DOMAIN cleared.entries /\ Book(cleared) /\ entry.out \in Outs
        BY <1>5
    <2> QED BY <2>1, AddedKeeps, ZenonT(60)
<1> HIDE DEF added
<1>8. Book(Evicted(added)) /\ Evicted(added).total <= MaxMemoBytes
    BY <1>7, EvictedKeeps
<1>9. Book(value) /\ value.total <= MaxMemoBytes
    BY <1>5, <1>6, <1>8 DEF value
<1> HIDE DEF next
<1>10. MemoInv(next)
    BY <1>2, <1>9 DEF MemoInv
<1> QED BY <1>1, <1>10

-----------------------------------------------------------------------------
(* Requests.                                                               *)

RequestInv(r) ==
    /\ r = [pc |-> r.pc, config |-> r.config, raw |-> r.raw, messages |-> r.messages,
            out |-> r.out, at |-> r.at]
    /\ r.pc \in {"lookup", "dedup", "store"}
    /\ r.config \in Configs
    /\ r.messages \in Seq(Messages) /\ Len(r.messages) = Len(r.raw)
    /\ r.at \in 1 .. (Len(r.messages) + 1)
    /\ r.at <= Len(r.messages) => r.messages[r.at].kind = "result"
    /\ r.pc # "lookup" => r.at <= Len(r.messages) /\ r.out \in Outs

\* The message that a request is at.
LEMMA AtResult ==
    ASSUME NEW r, RequestInv(r), r.at <= Len(r.messages)
    PROVE  /\ r.at \in 1 .. Len(r.messages)
           /\ r.messages[r.at].call \in Nat
           /\ r.messages[r.at].out \in Outs /\ r.messages[r.at].out.text \in Texts
           /\ r.messages[r.at] = [kind |-> "result", call |-> r.messages[r.at].call,
                                  out |-> r.messages[r.at].out]
<1> DEFINE m == r.messages[r.at]
<1>1. r.messages \in Seq(Messages) /\ r.at \in 1 .. (Len(r.messages) + 1) /\ m.kind = "result"
    BY DEF RequestInv
<1>2. r.at \in 1 .. Len(r.messages)
    BY <1>1
<1>3. m \in Messages
    BY <1>1, <1>2
<1> HIDE DEF m
<1>4. m.kind = "result" /\ m \in [kind : {"result"}, call : Nat, out : Outs]
    BY <1>1, <1>3 DEF Messages
<1>5. m.call \in Nat /\ m.out \in Outs
      /\ m = [kind |-> "result", call |-> m.call, out |-> m.out]
    BY <1>4
<1>6. m.out.text \in Texts
    BY <1>5 DEF Outs, Outputs
<1> QED BY <1>2, <1>5, <1>6 DEF m

\* Whoever remembers or compares has a session.
LEMMA SessionNamed ==
    ASSUME NEW r, RequestInv(r), Remembers(r) \/ Compares(r)
    PROVE  r.config.session \in Sessions
<1>1. r.config.session \in Sessions \cup {NoSession}
    BY ProxySessionAssumption DEF RequestInv
<1> QED BY <1>1 DEF Remembers, Compares

\* A call has a tool, or a result without one is generic.
LEMMA ToolIs ==
    ASSUME NEW r, RequestInv(r), r.at <= Len(r.messages)
    PROVE  ToolOf(r) \in Tools \cup {"generic"}
<1> DEFINE calls == Answered(r.messages, r.at)
<1>1. CASE calls = {}
    BY <1>1 DEF ToolOf
<1>2. CASE calls # {}
    <2>1. r.messages \in Seq(Messages) /\ r.at \in 1 .. Len(r.messages)
        BY AtResult DEF RequestInv
    <2>2. calls \in SUBSET (1 .. (r.at - 1))
          /\ \A j \in calls : r.messages[j].kind = "call"
        BY DEF Answered
    <2>3. r.at - 1 \in Nat
        BY <2>1
    <2> HIDE DEF calls
    <2>4. Max(calls) \in calls
        BY <1>2, <2>2, <2>3, LastPlace
    <2>5. Max(calls) \in 1 .. Len(r.messages)
        <3>1. Max(calls) \in 1 .. (r.at - 1)
            BY <2>2, <2>4
        <3>2. Len(r.messages) \in Nat
            BY <2>1
        <3> QED BY <2>1, <3>1, <3>2
    <2> DEFINE m == r.messages[Max(calls)]
    <2>6. m \in Messages /\ m.kind = "call"
        BY <2>1, <2>2, <2>4, <2>5
    <2> HIDE DEF m
    <2>7. m.tool \in Tools
        BY <2>6 DEF Messages
    <2> QED BY <1>2, <2>7, Zenon DEF ToolOf, calls, m
<1> QED BY <1>1, <1>2

\* A request goes on to its next result.
LEMMA ReplacedKeeps ==
    ASSUME NEW r, RequestInv(r), r.at <= Len(r.messages), NEW out \in Outs
    PROVE  RequestInv(Replaced(r, out))
<1> DEFINE m == r.messages[r.at]
           n == Len(r.messages)
           messages == [r.messages EXCEPT ![r.at] = [m EXCEPT !.out = out]]
           next == NextResult(r.messages, r.at + 1)
<1>1. /\ r = [pc |-> r.pc, config |-> r.config, raw |-> r.raw, messages |-> r.messages,
              out |-> r.out, at |-> r.at]
      /\ r.config \in Configs
      /\ r.messages \in Seq(Messages) /\ n = Len(r.raw) /\ n \in Nat
    BY DEF RequestInv
<1>2. r.at \in 1 .. n /\ m = [kind |-> "result", call |-> m.call, out |-> m.out] /\ m.call \in Nat
    BY AtResult
<1>3. [m EXCEPT !.out = out] = [kind |-> "result", call |-> m.call, out |-> out]
    BY <1>2
<1>4. [m EXCEPT !.out = out] \in Messages /\ [m EXCEPT !.out = out].kind = m.kind
    BY <1>2, <1>3 DEF Messages
<1>5. /\ messages \in Seq(Messages) /\ Len(messages) = n
      /\ \A i \in 1 .. n : messages[i].kind = r.messages[i].kind
    BY <1>1, <1>2, <1>4
<1>6. /\ next \in 1 .. (n + 1)
      /\ next <= n => r.messages[next].kind = "result"
    <2>1. r.at + 1 \in 1 .. (Len(r.messages) + 1)
        BY <1>1, <1>2
    <2> QED BY <1>1, <2>1, NextResultIs
<1>7. Replaced(r, out) =
          [[[[r EXCEPT !.messages = messages] EXCEPT !.pc = "lookup"] EXCEPT !.at = next]
              EXCEPT !.out = <<>>]
    BY Zenon DEF Replaced
<1> HIDE DEF messages, next
<1>8. Replaced(r, out) = [pc |-> "lookup", config |-> r.config, raw |-> r.raw,
                          messages |-> messages, out |-> <<>>, at |-> next]
    BY <1>1, <1>7
<1>9. next <= n => messages[next].kind = "result"
    BY <1>1, <1>5, <1>6
<1> QED BY <1>1, <1>5, <1>6, <1>8, <1>9 DEF RequestInv

-----------------------------------------------------------------------------
(* The invariant.                                                          *)

Inv ==
    /\ history \in Seq(Items)
    /\ counter \in Nat
    /\ DedupInv(dedup)
    /\ MemoInv(memo)
    /\ DOMAIN request = Workers
    /\ \A w \in Workers : request[w] = NoRequest \/ RequestInv(request[w])

LEMMA InitInv == Init => Inv
<1> SUFFICES ASSUME Init PROVE Inv
    OBVIOUS
<1>1. history \in Seq(Items) /\ counter \in Nat
    BY DEF Init
<1>2. DedupInv(dedup) /\ MemoInv(memo)
    BY NoneHeld DEF Init, DedupInv, MemoInv
<1>3. DOMAIN request = Workers /\ \A w \in Workers : request[w] = NoRequest
    BY DEF Init
<1> QED BY <1>1, <1>2, <1>3 DEF Inv

\* The client appends an item.
LEMMA SayKeeps ==
    ASSUME Inv, NEW item \in Items, Say(item)
    PROVE  Inv'
<1>1. history' \in Seq(Items)
    BY AppendProperties DEF Inv, Say
<1> QED BY <1>1 DEF Inv, Say

\* A worker's request changes, and one of the shared states at most.
LEMMA RequestKeeps ==
    ASSUME Inv, NEW w \in Workers, NEW r, r = NoRequest \/ RequestInv(r),
           request' = [request EXCEPT ![w] = r], UNCHANGED history,
           counter' \in Nat, DedupInv(dedup'), MemoInv(memo')
    PROVE  Inv'
<1>1. DOMAIN request' = Workers
    BY DEF Inv
<1>2. ASSUME NEW v \in Workers PROVE request'[v] = NoRequest \/ RequestInv(request'[v])
    BY DEF Inv
<1> QED BY <1>1, <1>2 DEF Inv

\* A worker that is not idle handles a request.
LEMMA Busy ==
    ASSUME Inv, NEW w \in Workers, request[w].pc # "idle"
    PROVE  RequestInv(request[w])
<1>1. NoRequest.pc = "idle"
    BY DEF NoRequest
<1>2. request[w] = NoRequest \/ RequestInv(request[w])
    BY DEF Inv
<1> QED BY <1>1, <1>2

\* A result has its output, and another step is due.
LEMMA OutputKeeps ==
    ASSUME NEW r, RequestInv(r), r.at <= Len(r.messages), NEW out \in Outs,
           NEW pc \in {"dedup", "store"}
    PROVE  /\ [r EXCEPT !.out = out, !.pc = pc] =
                 [pc |-> pc, config |-> r.config, raw |-> r.raw, messages |-> r.messages,
                  out |-> out, at |-> r.at]
           /\ RequestInv([r EXCEPT !.out = out, !.pc = pc])
<1> DEFINE next == [pc |-> pc, config |-> r.config, raw |-> r.raw, messages |-> r.messages,
                    out |-> out, at |-> r.at]
<1>1. r = [pc |-> r.pc, config |-> r.config, raw |-> r.raw, messages |-> r.messages,
           out |-> r.out, at |-> r.at]
    BY Zenon DEF RequestInv
<1>2. ASSUME NEW after, after = [[r EXCEPT !.out = out] EXCEPT !.pc = pc]
      PROVE  after = next
    BY <1>1, <1>2
<1>3. [r EXCEPT !.out = out, !.pc = pc] = next
    BY <1>2, Zenon
<1>4. RequestInv(next)
    BY DEF RequestInv
<1> QED BY <1>3, <1>4, Zenon

LEMMA ReceiveKeeps ==
    ASSUME Inv, NEW w \in Workers, NEW config \in Configs, Receive(w, config)
    PROVE  Inv'
<1> DEFINE parse == Converted(history, counter)
           at == IF config.mode = "disabled" THEN Len(history) + 1
                                             ELSE NextResult(parse.messages, 1)
           r == [pc |-> "lookup", config |-> config, raw |-> history,
                 messages |-> parse.messages, out |-> <<>>, at |-> at]
<1>1. /\ request' = [request EXCEPT ![w] = r] /\ counter' = parse.counter
      /\ UNCHANGED <<history, dedup, memo>>
    BY Zenon DEF Receive
<1>2. Parsed(parse, Len(history)) /\ Len(history) \in Nat
    BY ConvertedIs DEF Inv
<1> HIDE DEF parse
<1>3. /\ parse.messages \in Seq(Messages) /\ Len(parse.messages) = Len(history)
      /\ parse.counter \in Nat
    BY <1>2 DEF Parsed
<1>4. /\ at \in 1 .. (Len(parse.messages) + 1)
      /\ at <= Len(parse.messages) => parse.messages[at].kind = "result"
    <2>1. 1 \in 1 .. (Len(parse.messages) + 1) /\ Len(parse.messages) \in Nat
        BY <1>2, <1>3
    <2>2. CASE config.mode = "disabled"
        BY <1>2, <1>3, <2>2
    <2>3. CASE config.mode # "disabled"
        BY <2>1, <2>3, NextResultIs
    <2> QED BY <2>2, <2>3
<1> HIDE DEF at
<1>5. RequestInv(r)
    BY <1>3, <1>4 DEF RequestInv
<1> HIDE DEF r
<1>6. DedupInv(dedup') /\ MemoInv(memo')
    BY <1>1 DEF Inv
<1> QED BY <1>1, <1>3, <1>5, <1>6, RequestKeeps

LEMMA LookupKeeps ==
    ASSUME Inv, NEW w \in Workers, Lookup(w)
    PROVE  Inv'
<1> DEFINE r == request[w]
           m == r.messages[r.at]
           hit == Remembers(r) /\ MemoLookup(memo, r.config.session, m.call, m.out.text, r.config)
           found == memo.of[r.config.session].entries[m.call].out
           filtered == Filtered(m.out.text, r.config)
           next == IF hit THEN Replaced(r, found)
                   ELSE [r EXCEPT !.out = filtered, !.pc = "dedup"]
<1>1. /\ r.pc = "lookup" /\ r.at <= Len(r.messages)
      /\ request' = [request EXCEPT ![w] = next]
      /\ UNCHANGED <<history, counter, dedup, memo>>
    BY Zenon DEF Lookup
<1>2. RequestInv(r)
    <2>1. r.pc # "idle"
        BY <1>1, Zenon
    <2> QED BY <2>1, Busy
<1>3. m.call \in Nat /\ m.out.text \in Texts
    BY <1>1, <1>2, AtResult, Zenon
<1>4. RequestInv(next)
    <2>1. CASE hit
        <3>1. r.config.session \in Held(memo)
              /\ m.call \in DOMAIN memo.of[r.config.session].entries
            BY <2>1, Zenon DEF MemoLookup
        <3>2. Book(memo.of[r.config.session])
            BY <3>1 DEF Inv, MemoInv
        <3>3. found \in Outs
            BY <3>1, <3>2, Zenon DEF Book
        <3> HIDE DEF found, r, hit
        <3>4. RequestInv(Replaced(r, found))
            BY <1>1, <1>2, <3>3, ReplacedKeeps
        <3> QED BY <2>1, <3>4
    <2>2. CASE ~hit
        <3>1. filtered \in Outs
            BY <1>2, <1>3, OutputsHaveLengths DEF RequestInv
        <3> HIDE DEF filtered, r, hit
        <3>2. RequestInv([r EXCEPT !.out = filtered, !.pc = "dedup"])
            BY <1>1, <1>2, <3>1, OutputKeeps, Zenon
        <3> QED BY <2>2, <3>2
    <2> QED BY <2>1, <2>2, Zenon
<1> HIDE DEF next
<1>5. counter' \in Nat /\ DedupInv(dedup') /\ MemoInv(memo')
    BY <1>1 DEF Inv
<1> QED BY <1>1, <1>4, <1>5, RequestKeeps, Zenon

LEMMA DeduplicateKeeps ==
    ASSUME Inv, NEW w \in Workers, Deduplicate(w)
    PROVE  Inv'
<1> DEFINE r == request[w]
           m == r.messages[r.at]
           tool == ToolOf(r)
           state == Deduplicated(dedup, r.config.session, m.call, tool, r.out)
           first == DuplicateOf(dedup, r.config.session, m.call, tool, r.out)
           reference == Reference(first, r.out.text)
           refers == Compares(r) /\ first # NoId /\ Bytes(reference) < Bytes(r.out)
           out == IF refers THEN reference ELSE r.out
           next == [r EXCEPT !.out = out, !.pc = "store"]
<1>1. /\ r.pc = "dedup" /\ UNCHANGED <<history, counter, memo>>
      /\ dedup' = IF Compares(r) THEN state ELSE dedup
      /\ request' = [request EXCEPT ![w].pc = "store",
                                    ![w].out = IF refers THEN reference ELSE @]
    BY Zenon DEF Deduplicate
<1>2. RequestInv(r)
    <2>1. r.pc # "idle"
        BY <1>1
    <2> QED BY <2>1, Busy
<1>3. r.at <= Len(r.messages) /\ r.out \in Outs /\ r.out.text \in Texts
    BY <1>1, <1>2 DEF RequestInv, Outs, Outputs
<1>4. m.call \in Nat /\ tool \in Tools \cup {"generic"}
    BY <1>2, <1>3, AtResult, ToolIs
<1>5. w \in DOMAIN request /\ DedupInv(dedup) /\ MemoInv(memo) /\ counter \in Nat
    BY DEF Inv
<1>6. first \in Nat \cup {NoId}
    BY <1>5, DuplicateIs
<1>7. DedupInv(IF Compares(r) THEN state ELSE dedup)
    <2>1. CASE Compares(r)
        <3>1. r.config.session \in Sessions
            BY <1>2, <2>1, SessionNamed
        <3> HIDE DEF r, m, tool
        <3>2. DedupInv(state)
            BY <1>3, <1>4, <1>5, <3>1, DeduplicatedKeeps
        <3> QED BY <2>1, <3>2
    <2>2. CASE ~Compares(r)
        BY <1>5, <2>2
    <2> QED BY <2>1, <2>2
<1> HIDE DEF state, first
<1>8. out \in Outs
    <2>1. CASE refers
        BY <1>3, <1>6, <2>1, OutputsHaveLengths
    <2>2. CASE ~refers
        BY <1>3, <2>2
    <2> QED BY <2>1, <2>2
<1> HIDE DEF refers, reference
<1>9. request' = [request EXCEPT ![w] = next]
    <2>1. r = [pc |-> r.pc, config |-> r.config, raw |-> r.raw, messages |-> r.messages,
               out |-> r.out, at |-> r.at]
        BY <1>2, Zenon DEF RequestInv
    <2> QED BY <1>1, <1>5, <2>1
<1> HIDE DEF out
<1>10. RequestInv(next)
    <2> HIDE DEF r
    <2> QED BY <1>2, <1>3, <1>8, OutputKeeps
<1> HIDE DEF next
<1>11. counter' \in Nat /\ MemoInv(memo') /\ DedupInv(dedup')
    BY <1>1, <1>5, <1>7
<1>12. UNCHANGED history
    BY <1>1
<1> QED BY <1>9, <1>10, <1>11, <1>12, RequestKeeps

LEMMA StoreKeeps ==
    ASSUME Inv, NEW w \in Workers, Store(w)
    PROVE  Inv'
<1> DEFINE r == request[w]
           m == r.messages[r.at]
           entry == [text |-> m.out.text, config |-> Fingerprint(r.config), out |-> r.out]
           state == Memoized(memo, r.config.session, m.call, entry)
           next == Replaced(r, r.out)
<1>1. /\ r.pc = "store" /\ UNCHANGED <<history, counter, dedup>>
      /\ memo' = IF Remembers(r) THEN state ELSE memo
      /\ request' = [request EXCEPT ![w] = next]
    BY Zenon DEF Store
<1>2. RequestInv(r)
    <2>1. r.pc # "idle"
        BY <1>1
    <2> QED BY <2>1, Busy
<1>3. r.at <= Len(r.messages) /\ r.out \in Outs
    BY <1>1, <1>2 DEF RequestInv
<1>4. m.call \in Nat
    BY <1>2, <1>3, AtResult
<1>5. DedupInv(dedup) /\ MemoInv(memo) /\ counter \in Nat
    BY DEF Inv
<1>6. entry.out \in Outs
    BY <1>3
<1> HIDE DEF entry
<1>7. MemoInv(IF Remembers(r) THEN state ELSE memo)
    <2>1. CASE Remembers(r)
        <3>1. r.config.session \in Sessions
            BY <1>2, <2>1, SessionNamed
        <3> HIDE DEF r, m
        <3>2. MemoInv(state)
            BY <1>4, <1>5, <1>6, <3>1, MemoizedKeeps
        <3> QED BY <2>1, <3>2
    <2>2. CASE ~Remembers(r)
        BY <1>5, <2>2
    <2> QED BY <2>1, <2>2
<1> HIDE DEF state
<1>8. RequestInv(next)
    <2> HIDE DEF r
    <2> QED BY <1>2, <1>3, ReplacedKeeps
<1> HIDE DEF next
<1>9. counter' \in Nat /\ MemoInv(memo') /\ DedupInv(dedup')
    BY <1>1, <1>5, <1>7
<1>10. UNCHANGED history /\ request' = [request EXCEPT ![w] = next]
    BY <1>1
<1> QED BY <1>8, <1>9, <1>10, RequestKeeps

LEMMA ForwardKeeps ==
    ASSUME Inv, NEW w \in Workers, Forward(w)
    PROVE  Inv'
<1>1. /\ request' = [request EXCEPT ![w] = NoRequest]
      /\ UNCHANGED <<history, counter, dedup, memo>>
    BY Zenon DEF Forward
<1>2. counter' \in Nat /\ DedupInv(dedup') /\ MemoInv(memo')
    BY <1>1 DEF Inv
<1> DEFINE r == NoRequest
<1>3. r = NoRequest \/ RequestInv(r)
    OBVIOUS
<1> HIDE DEF r
<1> QED BY <1>1, <1>2, <1>3, RequestKeeps DEF r

LEMMA RestartKeeps ==
    ASSUME Inv, Restart
    PROVE  Inv'
<1>1. DedupInv(NoSessions) /\ MemoInv(NoSessions)
    BY NoneHeld DEF DedupInv, MemoInv
<1>2. /\ history' = history /\ counter' = 0 /\ dedup' = NoSessions /\ memo' = NoSessions
      /\ request' = [w \in Workers |-> NoRequest]
    BY DEF Restart
<1>3. history' \in Seq(Items) /\ counter' \in Nat
    BY <1>2 DEF Inv
<1>4. DedupInv(dedup') /\ MemoInv(memo')
    BY <1>1, <1>2
<1>5. DOMAIN request' = Workers /\ \A w \in Workers : request'[w] = NoRequest
    BY <1>2
<1> QED BY <1>3, <1>4, <1>5 DEF Inv

LEMMA NextInv == Inv /\ [Next]_vars => Inv'
<1> SUFFICES ASSUME Inv, [Next]_vars PROVE Inv'
    OBVIOUS
<1>1. CASE Client
    <2>1. ASSUME NEW id \in RawIds \cup {NoId}, NEW tool \in Tools, ModelCalls(id, tool)
          PROVE  Inv'
        <3>1. Call(id, tool) \in Items
            BY DEF Items, Call
        <3>2. Say(Call(id, tool))
            BY <2>1 DEF ModelCalls
        <3> QED BY <3>1, <3>2, SayKeeps
    <2>2. ASSUME NEW id \in RawIds, NEW a \in Answers, ToolAnswers(id, a[1], a[2])
          PROVE  Inv'
        <3>1. a[1] \in Statuses /\ a[2] \in Texts
            BY ProxySessionAssumption
        <3>2. Result(id, a[1], a[2]) \in Items
            BY <3>1 DEF Items, Result
        <3>3. Say(Result(id, a[1], a[2]))
            BY <2>2 DEF ToolAnswers
        <3> QED BY <3>2, <3>3, SayKeeps
    <2> QED BY <1>1, <2>1, <2>2 DEF Client
<1>2. CASE Restart
    BY <1>2, RestartKeeps
<1>3. ASSUME NEW w \in Workers, NEW config \in Configs, Receive(w, config) PROVE Inv'
    BY <1>3, ReceiveKeeps
<1>4. ASSUME NEW w \in Workers, Compress(w) PROVE Inv'
    BY <1>4, LookupKeeps, DeduplicateKeeps, StoreKeeps DEF Compress
<1>5. ASSUME NEW w \in Workers, Forward(w) PROVE Inv'
    BY <1>5, ForwardKeeps
<1>6. CASE UNCHANGED vars
    BY <1>6 DEF vars, Inv, DedupInv, MemoInv
<1> QED BY <1>1, <1>2, <1>3, <1>4, <1>5, <1>6 DEF Next

LEMMA Invariant == Spec => []Inv
<1> QED BY InitInv, NextInv, PTL DEF Spec

-----------------------------------------------------------------------------
\* The shape of what is shared and of every request in flight: a conversion has a
\* message for every item, a place in it is within it, every output has a form, and a
\* session keeps between one and MaxEntries records (message_parse.rs, dedup.rs).
THEOREM TypesHold == Spec => []TypeOK
<1>1. Inv => TypeOK
    <2> SUFFICES ASSUME Inv PROVE TypeOK
        OBVIOUS
    <2>1. \A i \in DOMAIN history : history[i].kind \in {"call", "result"}
        <3>1. \A i \in DOMAIN history : history[i] \in Items
            BY DEF Inv
        <3> QED BY <3>1 DEF Items
    <2>2. \A s \in Held(dedup) : Len(dedup.of[s]) \in 1 .. MaxEntries
        BY DEF Inv, DedupInv
    <2>3. ASSUME NEW w \in InFlight
          PROVE  LET r == request[w]
                 IN  /\ r.pc \in {"lookup", "dedup", "store"}
                     /\ r.at \in 1 .. (Len(r.messages) + 1)
                     /\ Len(r.messages) = Len(r.raw)
                     /\ \A i \in DOMAIN r.messages :
                           r.messages[i].kind = "result" => r.messages[i].out \in Outputs
        <3> DEFINE r == request[w]
        <3>1. RequestInv(r)
            BY Busy DEF InFlight
        <3> HIDE DEF r
        <3>2. ASSUME NEW i \in DOMAIN r.messages, r.messages[i].kind = "result"
              PROVE  r.messages[i].out \in Outputs
            <4>1. r.messages[i] \in Messages
                BY <3>1 DEF RequestInv
            <4> QED BY <3>2, <4>1 DEF Messages, Outs
        <3>3. /\ r.pc \in {"lookup", "dedup", "store"}
              /\ r.at \in 1 .. (Len(r.messages) + 1)
              /\ Len(r.messages) = Len(r.raw)
            BY <3>1 DEF RequestInv
        <3> QED BY <3>2, <3>3 DEF r
    <2> QED BY <2>1, <2>2, <2>3 DEF TypeOK, Inv
<1> QED BY <1>1, Invariant, PTL

\* The books of the memo balance whatever requests run beside each other and whatever
\* they store: the total is the bytes of what is kept, an entry is in the eviction order
\* once, and neither the sessions nor the bytes exceed their limit (memo.rs).
THEOREM BooksBalance == Spec => []MemoAccounts
<1>1. Inv => MemoAccounts
    <2> SUFFICES ASSUME Inv PROVE MemoAccounts
        OBVIOUS
    <2>1. SessionsOf(memo)
        BY DEF Inv, MemoInv
    <2>2. ASSUME NEW s \in Held(memo)
          PROVE  LET m == memo.of[s]
                 IN  /\ ToSet(m.order) = DOMAIN m.entries /\ IsInjective(m.order)
                     /\ m.total = Weight(m.entries, m.order)
                     /\ m.total <= MaxMemoBytes
        <3> DEFINE m == memo.of[s]
        <3>1. Book(m) /\ m.total <= MaxMemoBytes
            BY DEF Inv, MemoInv
        <3> HIDE DEF m
        <3>2. PICK g : Sums(g, m.entries, m.order) /\ m.total = g[Len(m.order)]
            BY <3>1, Zenon DEF Book
        <3>3. m.order \in Seq(Nat)
            BY <3>1 DEF Book
        <3>4. m.total = Weight(m.entries, m.order)
            BY <3>2, <3>3, WeightIs
        <3>5. ToSet(m.order) = DOMAIN m.entries /\ IsInjective(m.order)
            BY <3>1 DEF Book
        <3> QED BY <3>1, <3>4, <3>5 DEF m
    <2> QED BY <2>1, <2>2 DEF MemoAccounts, SessionsOf
<1> QED BY <1>1, Invariant, PTL

\* An item is a call or a result.
LEMMA ItemIs ==
    ASSUME NEW h \in Seq(Items), NEW k \in 1 .. Len(h)
    PROVE  /\ h[k].kind \in {"call", "result"}
           /\ h[k].kind = "result" =>
                 h[k].id \in RawIds /\ h[k].status \in Statuses /\ h[k].text \in Texts
           /\ h[k].kind = "call" => h[k].id \in RawIds \cup {NoId} /\ h[k].tool \in Tools
<1>1. h[k] \in Items
    OBVIOUS
<1> QED BY <1>1 DEF Items

\* Raw ids are numbers, and a missing id is none of them.
LEMMA RawIdIs == \A id \in RawIds : id \in Nat /\ id # NoId
    BY PriorResultsAssumption

-----------------------------------------------------------------------------
(* Which call a result answers: the results of an id answer its calls in   *)
(* order, whatever ids the conversion gives them.                          *)

\* The calls, or the results, of an id among the first items of a history.
Count(h, kind, id, n) == Cardinality({i \in 1 .. n : h[i].kind = kind /\ h[i].id = id})

\* At no place have there been more results of an id than calls.
Balanced(h) ==
    \A n \in 0 .. Len(h) : \A id \in RawIds : Count(h, "result", id, n) <= Count(h, "call", id, n)

\* Items are counted one by one.
LEMMA CountIs ==
    ASSUME NEW h, NEW kind, NEW id, NEW n \in Nat
    PROVE  Count(h, kind, id, n) \in Nat /\ (n = 0 => Count(h, kind, id, n) = 0)
<1> DEFINE of == {i \in 1 .. n : h[i].kind = kind /\ h[i].id = id}
<1>1. of \in SUBSET (1 .. n) /\ IsFiniteSet(1 .. n) /\ (n = 0 => of = {})
    BY FS_Interval
<1> HIDE DEF of
<1>2. IsFiniteSet(of)
    BY <1>1, FS_Subset
<1>3. Cardinality(of) \in Nat /\ (n = 0 => Cardinality(of) = 0)
    BY <1>1, <1>2, FS_CardinalityType, FS_EmptySet
<1> QED BY <1>3, Zenon DEF Count, of

LEMMA CountNext ==
    ASSUME NEW h, NEW kind, NEW id, NEW n \in Nat \ {0}
    PROVE  /\ h[n].kind = kind /\ h[n].id = id
                  => Count(h, kind, id, n) = Count(h, kind, id, n - 1) + 1
           /\ ~(h[n].kind = kind /\ h[n].id = id)
                  => Count(h, kind, id, n) = Count(h, kind, id, n - 1)
<1> DEFINE of(m) == {i \in 1 .. m : h[i].kind = kind /\ h[i].id = id}
<1>1. n - 1 \in Nat /\ n \notin of(n - 1) /\ \A i \in 1 .. n : i = n \/ i \in 1 .. (n - 1)
    OBVIOUS
<1>2. \A i \in 1 .. (n - 1) : i \in 1 .. n
    OBVIOUS
<1>3. of(n - 1) \in SUBSET (1 .. (n - 1)) /\ IsFiniteSet(1 .. (n - 1))
    BY <1>1, FS_Interval
<1>4. ASSUME h[n].kind = kind, h[n].id = id
      PROVE  Count(h, kind, id, n) = Count(h, kind, id, n - 1) + 1
    <2>1. of(n) = of(n - 1) \cup {n}
        BY <1>1, <1>2, <1>4
    <2> HIDE DEF of
    <2>2. IsFiniteSet(of(n - 1))
        BY <1>3, FS_Subset
    <2>3. Cardinality(of(n)) = Cardinality(of(n - 1)) + 1
        BY <1>1, <2>1, <2>2, FS_AddElement
    <2> QED BY <2>3, Zenon DEF Count, of
<1>5. ASSUME ~(h[n].kind = kind /\ h[n].id = id)
      PROVE  Count(h, kind, id, n) = Count(h, kind, id, n - 1)
    <2>1. of(n) = of(n - 1)
        BY <1>1, <1>2, <1>5
    <2> QED BY <2>1, Zenon DEF Count
<1> QED BY <1>4, <1>5

\* What comes later does not count.
LEMMA CountSame ==
    ASSUME NEW h, NEW g, NEW n \in Nat, \A i \in 1 .. n : h[i] = g[i], NEW kind, NEW id
    PROVE  Count(h, kind, id, n) = Count(g, kind, id, n)
<1>1. {i \in 1 .. n : h[i].kind = kind /\ h[i].id = id} = {i \in 1 .. n : g[i].kind = kind /\ g[i].id = id}
    OBVIOUS
<1> QED BY <1>1, Zenon DEF Count

\* No two calls of an id are the same in their order.
LEMMA CountsApart ==
    ASSUME NEW h, NEW kind, NEW id, NEW i \in Nat \ {0}, NEW j \in Nat \ {0},
           h[i].kind = kind, h[i].id = id, h[j].kind = kind, h[j].id = id,
           Count(h, kind, id, i) = Count(h, kind, id, j)
    PROVE  i = j
<1>1. ASSUME NEW a \in Nat, NEW b \in Nat \ {0}, a < b, h[b].kind = kind, h[b].id = id
      PROVE  Count(h, kind, id, a) < Count(h, kind, id, b)
    <2> DEFINE of(n) == {k \in 1 .. n : h[k].kind = kind /\ h[k].id = id}
    <2>1. b - 1 \in Nat /\ a <= b - 1
        BY <1>1
    <2>2. of(a) \subseteq of(b - 1) /\ of(b - 1) \in SUBSET (1 .. (b - 1)) /\ IsFiniteSet(1 .. (b - 1))
        BY <2>1, FS_Interval
    <2> HIDE DEF of
    <2>3. IsFiniteSet(of(b - 1))
        BY <2>2, FS_Subset
    <2>4. Cardinality(of(a)) <= Cardinality(of(b - 1))
        BY <2>2, <2>3, FS_Subset
    <2>5. Count(h, kind, id, a) <= Count(h, kind, id, b - 1)
        BY <2>4, Zenon DEF Count, of
    <2>6. Count(h, kind, id, b) = Count(h, kind, id, b - 1) + 1
        BY <1>1, CountNext
    <2>7. Count(h, kind, id, a) \in Nat /\ Count(h, kind, id, b - 1) \in Nat
        BY <2>1, CountIs
    <2> QED BY <2>5, <2>6, <2>7
<1>2. Count(h, kind, id, i) \in Nat
    BY CountIs
<1>3. ~(i < j) /\ ~(j < i)
    <2>1. ASSUME i < j PROVE FALSE
        <3>1. Count(h, kind, id, i) < Count(h, kind, id, j)
            BY <1>1, <2>1
        <3> QED BY <1>2, <3>1
    <2>2. ASSUME j < i PROVE FALSE
        <3>1. Count(h, kind, id, j) < Count(h, kind, id, i)
            BY <1>1, <2>2
        <3> QED BY <1>2, <3>1
    <2> QED BY <2>1, <2>2
<1> QED BY <1>3

\* A history goes on by a call, or by the result of a call that has none.
LEMMA BalancedLonger ==
    ASSUME NEW h \in Seq(Items), Balanced(h), NEW item \in Items,
           item.kind = "result" =>
               Count(h, "call", item.id, Len(h)) > Count(h, "result", item.id, Len(h))
    PROVE  Balanced(Append(h, item))
<1> DEFINE longer == Append(h, item)
<1>1. /\ Len(h) \in Nat /\ Len(longer) = Len(h) + 1 /\ longer[Len(h) + 1] = item
      /\ \A i \in 1 .. Len(h) : longer[i] = h[i]
    BY AppendProperties
<1> HIDE DEF longer
<1>2. ASSUME NEW n \in 0 .. Len(longer), NEW id \in RawIds
      PROVE  Count(longer, "result", id, n) <= Count(longer, "call", id, n)
    <2>1. ASSUME NEW m \in 0 .. Len(h), NEW kind
          PROVE  Count(longer, kind, id, m) = Count(h, kind, id, m)
        <3>1. m \in Nat /\ \A i \in 1 .. m : longer[i] = h[i]
            BY <1>1
        <3> QED BY <3>1, CountSame
    <2>2. CASE n \in 0 .. Len(h)
        BY <2>1, <2>2 DEF Balanced
    <2>3. CASE n = Len(h) + 1
        <3> DEFINE last == Len(h)
                   calls == Count(h, "call", id, last)
                   results == Count(h, "result", id, last)
        <3>1. last \in 0 .. Len(h) /\ n \in Nat \ {0} /\ n - 1 = last
            BY <1>1, <2>3
        <3>2. calls \in Nat /\ results \in Nat
            BY <1>1, CountIs
        <3>3. results <= calls
            BY <3>1 DEF Balanced
        <3>4. Count(longer, "call", id, last) = calls /\ Count(longer, "result", id, last) = results
            BY <2>1, <3>1
        <3>5. longer[n] = item
            BY <1>1, <2>3
        <3>6. item.kind = "result" /\ item.id = id => calls > results
            OBVIOUS
        <3> HIDE DEF calls, results, last
        <3>7. CASE item.kind = "call" /\ item.id = id
            <4>1. Count(longer, "call", id, n) = calls + 1
                BY <3>1, <3>4, <3>5, <3>7, CountNext
            <4>2. Count(longer, "result", id, n) = results
                BY <3>1, <3>4, <3>5, <3>7, CountNext
            <4> QED BY <3>2, <3>3, <4>1, <4>2
        <3>8. CASE item.kind = "result" /\ item.id = id
            <4>1. Count(longer, "call", id, n) = calls
                BY <3>1, <3>4, <3>5, <3>8, CountNext
            <4>2. Count(longer, "result", id, n) = results + 1
                BY <3>1, <3>4, <3>5, <3>8, CountNext
            <4> QED BY <3>2, <3>6, <3>8, <4>1, <4>2
        <3>9. CASE item.id # id
            <4>1. Count(longer, "call", id, n) = calls
                BY <3>1, <3>4, <3>5, <3>9, CountNext
            <4>2. Count(longer, "result", id, n) = results
                BY <3>1, <3>4, <3>5, <3>9, CountNext
            <4> QED BY <3>3, <4>1, <4>2
        <3>10. item.kind \in {"call", "result"}
            BY DEF Items
        <3> QED BY <3>7, <3>8, <3>9, <3>10
    <2> QED BY <1>1, <2>2, <2>3
<1> QED BY <1>2 DEF Balanced, longer

\* A message says what its item says, whatever its id.
Says(m, item) ==
    /\ m.kind = item.kind
    /\ m.kind = "call" => m.tool = item.tool
    /\ m.kind = "result" => m.out.text = item.text

\* The call at a place of a history, by its order among those of its id.
CallAt(h, id, j, order) ==
    h[j].kind = "call" /\ h[j].id = id /\ Count(h, "call", id, j) = order

\* Among the first items, the call of an order has a message with some id.
Called(messages, h, n, id, order, call) ==
    \E j \in 1 .. n : CallAt(h, id, j, order) /\ messages[j].call = call

\* What the conversion has after some items: what waits in the queue of an id are
\* its calls that have no result, in their order.
Pairs(parse, h, n) ==
    /\ \A id \in RawIds :
          /\ Len(parse.pending[id]) + Count(h, "result", id, n) = Count(h, "call", id, n)
          /\ \A p \in 1 .. Len(parse.pending[id]) :
                Called(parse.messages, h, n, id, Count(h, "result", id, n) + p, parse.pending[id][p])
    /\ \A i \in 1 .. n : h[i].kind = "call" =>
          /\ parse.messages[i].call \in parse.seen
          /\ \A j \in 1 .. n :
                h[j].kind = "call" /\ parse.messages[j].call = parse.messages[i].call => i = j
    /\ \A k \in 1 .. n : Says(parse.messages[k], h[k])
    /\ \A k \in 1 .. n : h[k].kind = "result" =>
          /\ parse.messages[k].out = Verbatim(h[k].text)
          /\ Called(parse.messages, h, k - 1, h[k].id, Count(h, "result", h[k].id, k),
                    parse.messages[k].call)

\* Messages that come later change nothing.
LEMMA CalledLater ==
    ASSUME NEW h, NEW messages, NEW more, NEW n \in Nat, NEW m \in Nat, n <= m,
           \A i \in 1 .. n : more[i] = messages[i], NEW id, NEW order, NEW call,
           Called(messages, h, n, id, order, call)
    PROVE  Called(more, h, m, id, order, call)
<1>1. PICK j \in 1 .. n : CallAt(h, id, j, order) /\ messages[j].call = call
    BY Zenon DEF Called
<1>2. j \in 1 .. m /\ more[j].call = call
    BY <1>1
<1> QED BY <1>1, <1>2, Zenon DEF Called

\* A call is given an id that no message before it has, and waits behind those of
\* its raw id.
LEMMA NameCallPairs ==
    ASSUME NEW h \in Seq(Items), NEW n \in 1 .. Len(h), NEW parse, Parsed(parse, n - 1),
           Pairs(parse, h, n - 1), h[n].kind = "call"
    PROVE  Pairs(NameCall(parse, h[n]), h, n)
<1> DEFINE item == h[n]
           fresh == Generated(parse.seen, parse.counter)
           keeps == item.id # NoId /\ item.id \notin parse.seen
           id == IF keeps THEN item.id ELSE fresh
           m == [kind |-> "call", call |-> id, tool |-> item.tool]
           next == NameCall(parse, item)
<1>1. n \in Nat \ {0} /\ Len(h) \in Nat /\ n - 1 \in Nat /\ n <= Len(h)
    OBVIOUS
<1>2. item.id \in RawIds \cup {NoId} /\ item.tool \in Tools
    BY ItemIs
<1>3. /\ parse.seen \in SUBSET Nat /\ IsFiniteSet(parse.seen) /\ parse.counter \in Nat
      /\ parse.pending \in [RawIds -> Seq(Nat)]
      /\ parse.messages \in Seq(Messages) /\ Len(parse.messages) = n - 1
    BY DEF Parsed
<1>4. id \in Nat /\ id \notin parse.seen
    <2>1. fresh \in Nat \ parse.seen
        BY <1>3, GeneratedIsNew
    <2> HIDE DEF fresh
    <2> QED BY <1>2, <2>1, RawIdIs
<1>5. /\ next.seen = parse.seen \cup {id}
      /\ next.pending = IF item.id = NoId THEN parse.pending
                        ELSE [parse.pending EXCEPT ![item.id] = Append(@, id)]
      /\ next.messages = Append(parse.messages, m)
    BY Zenon DEF NameCall, fresh
<1>6. m.kind = "call" /\ m.call = id /\ m.tool = item.tool
    OBVIOUS
<1> HIDE DEF next, id, keeps, fresh
<1>7. m \in Messages
    BY <1>2, <1>4 DEF Messages
<1> HIDE DEF m
<1>8. /\ next.messages[n] = m
      /\ \A l \in 1 .. (n - 1) : next.messages[l] = parse.messages[l]
    BY <1>1, <1>3, <1>5, <1>7, AppendProperties
<1>9. \A i \in 1 .. n : i = n \/ i \in 1 .. (n - 1)
    BY <1>1
<1>10. ASSUME NEW i \in RawIds
       PROVE  /\ Len(next.pending[i]) + Count(h, "result", i, n) = Count(h, "call", i, n)
              /\ \A p \in 1 .. Len(next.pending[i]) :
                    Called(next.messages, h, n, i, Count(h, "result", i, n) + p, next.pending[i][p])
    <2> DEFINE calls == Count(h, "call", i, n - 1)
               results == Count(h, "result", i, n - 1)
               waiting == parse.pending[i]
    <2>1. calls \in Nat /\ results \in Nat
        BY <1>1, CountIs
    <2>2. Len(waiting) + results = calls /\ waiting \in Seq(Nat) /\ Len(waiting) \in Nat
        BY <1>3 DEF Pairs
    <2>3. Count(h, "result", i, n) = results
        BY <1>1, CountNext
    <2>4. ASSUME NEW p \in 1 .. Len(waiting)
          PROVE  Called(next.messages, h, n, i, results + p, waiting[p])
        <3>1. Called(parse.messages, h, n - 1, i, results + p, waiting[p])
            BY DEF Pairs
        <3>2. n - 1 \in Nat /\ n \in Nat /\ n - 1 <= n
            BY <1>1
        <3> QED BY <1>8, <3>1, <3>2, CalledLater
    <2>5. CASE i = item.id
        <3>1. item.id # NoId
            BY <2>5, RawIdIs
        <3>2. next.pending[i] = Append(waiting, id)
            BY <1>3, <1>5, <2>5, <3>1
        <3>3. Count(h, "call", i, n) = calls + 1
            BY <1>1, <2>5, CountNext
        <3> HIDE DEF calls, results, waiting
        <3>4. /\ Len(next.pending[i]) = Len(waiting) + 1
              /\ next.pending[i][Len(waiting) + 1] = id
              /\ \A l \in 1 .. Len(waiting) : next.pending[i][l] = waiting[l]
            BY <1>4, <2>2, <3>2, AppendProperties
        <3>5. Called(next.messages, h, n, i, calls + 1, id)
            <4>1. CallAt(h, i, n, calls + 1)
                BY <2>5, <3>3 DEF CallAt
            <4>2. n \in 1 .. n /\ next.messages[n].call = id
                BY <1>1, <1>6, <1>8
            <4> QED BY <4>1, <4>2, Zenon DEF Called
        <3>6. results + (Len(waiting) + 1) = calls + 1
            BY <2>1, <2>2
        <3>7. ASSUME NEW p \in 1 .. Len(next.pending[i])
              PROVE  Called(next.messages, h, n, i, results + p, next.pending[i][p])
            <4>1. p \in 1 .. Len(waiting) \/ p = Len(waiting) + 1
                BY <2>2, <3>4
            <4> QED BY <2>4, <3>4, <3>5, <3>6, <4>1
        <3>8. Len(next.pending[i]) + results = calls + 1
            BY <2>1, <2>2, <3>4
        <3> QED BY <2>3, <3>3, <3>7, <3>8
    <2>6. CASE i # item.id
        <3>1. next.pending[i] = waiting
            BY <1>3, <1>5, <2>6
        <3>2. Count(h, "call", i, n) = calls
            BY <1>1, <2>6, CountNext
        <3> HIDE DEF calls, results, waiting
        <3> QED BY <2>2, <2>3, <2>4, <3>1, <3>2
    <2> QED BY <2>5, <2>6
<1>11. ASSUME NEW i \in 1 .. n, h[i].kind = "call"
       PROVE  /\ next.messages[i].call \in next.seen
              /\ \A j \in 1 .. n :
                    h[j].kind = "call" /\ next.messages[j].call = next.messages[i].call => i = j
    <2>1. \A j \in 1 .. (n - 1) : h[j].kind = "call" =>
             /\ next.messages[j].call = parse.messages[j].call /\ parse.messages[j].call \in parse.seen
             /\ \A l \in 1 .. (n - 1) :
                   h[l].kind = "call" /\ parse.messages[l].call = parse.messages[j].call => j = l
        BY <1>8 DEF Pairs
    <2>2. next.messages[n].call = id
        BY <1>6, <1>8
    <2>3. next.messages[i].call \in next.seen
        BY <1>5, <1>9, <1>11, <2>1, <2>2
    <2>4. ASSUME NEW j \in 1 .. n, h[j].kind = "call", next.messages[j].call = next.messages[i].call
          PROVE  i = j
        <3>1. CASE i = n /\ j = n
            BY <3>1
        <3>2. CASE i = n /\ j \in 1 .. (n - 1)
            BY <1>4, <2>1, <2>2, <2>4, <3>2
        <3>3. CASE i \in 1 .. (n - 1) /\ j = n
            BY <1>4, <1>11, <2>1, <2>2, <2>4, <3>3
        <3>4. CASE i \in 1 .. (n - 1) /\ j \in 1 .. (n - 1)
            BY <1>8, <1>11, <2>1, <2>4, <3>4
        <3> QED BY <1>9, <3>1, <3>2, <3>3, <3>4
    <2> QED BY <2>3, <2>4
<1>12. ASSUME NEW k \in 1 .. n PROVE Says(next.messages[k], h[k])
    <2>1. Says(m, item)
        BY <1>6 DEF Says
    <2> QED BY <1>8, <1>9, <2>1 DEF Pairs
<1>13. ASSUME NEW k \in 1 .. n, h[k].kind = "result"
       PROVE  /\ next.messages[k].out = Verbatim(h[k].text)
              /\ Called(next.messages, h, k - 1, h[k].id, Count(h, "result", h[k].id, k),
                        next.messages[k].call)
    <2>1. k \in 1 .. (n - 1)
        BY <1>9, <1>13
    <2>2. /\ parse.messages[k].out = Verbatim(h[k].text)
          /\ Called(parse.messages, h, k - 1, h[k].id, Count(h, "result", h[k].id, k),
                    parse.messages[k].call)
        BY <1>13, <2>1 DEF Pairs
    <2>3. k - 1 \in Nat /\ k - 1 <= k - 1 /\ \A l \in 1 .. (k - 1) : next.messages[l] = parse.messages[l]
        BY <1>8, <2>1
    <2>4. Called(next.messages, h, k - 1, h[k].id, Count(h, "result", h[k].id, k),
                 parse.messages[k].call)
        BY <2>2, <2>3, CalledLater
    <2> QED BY <1>8, <2>1, <2>2, <2>4
<1> QED BY <1>10, <1>11, <1>12, <1>13 DEF Pairs, next

\* A result is given the id of the first call that waits.
LEMMA NameResultPairs ==
    ASSUME NEW h \in Seq(Items), Balanced(h), NEW n \in 1 .. Len(h), NEW parse,
           Parsed(parse, n - 1), Pairs(parse, h, n - 1), h[n].kind = "result"
    PROVE  Pairs(NameResult(parse, h[n]), h, n)
<1> DEFINE item == h[n]
           waiting == parse.pending[item.id]
           calls == Count(h, "call", item.id, n - 1)
           results == Count(h, "result", item.id, n - 1)
           id == Head(waiting)
           m == [kind |-> "result", call |-> id, out |-> Verbatim(item.text)]
           pending == [parse.pending EXCEPT ![item.id] = Tail(waiting)]
           next == [seen |-> parse.seen, counter |-> parse.counter, pending |-> pending,
                    messages |-> Append(parse.messages, m)]
<1>1. n \in Nat \ {0} /\ Len(h) \in Nat /\ n - 1 \in Nat /\ n <= Len(h) /\ n \in 0 .. Len(h)
    OBVIOUS
<1>2. item.id \in RawIds /\ item.text \in Texts /\ item.id # NoId /\ item.id \in Nat
    BY ItemIs, RawIdIs
<1>3. /\ parse.pending \in [RawIds -> Seq(Nat)] /\ parse.counter \in Nat
      /\ parse.messages \in Seq(Messages) /\ Len(parse.messages) = n - 1
      /\ parse = [seen |-> parse.seen, counter |-> parse.counter,
                  pending |-> parse.pending, messages |-> parse.messages]
    BY DEF Parsed
<1>4. waiting \in Seq(Nat) /\ Len(waiting) \in Nat /\ Len(waiting) + results = calls
    BY <1>2, <1>3 DEF Pairs
<1>5. Count(h, "call", item.id, n) = calls /\ Count(h, "result", item.id, n) = results + 1
    BY <1>1, CountNext
<1>6. calls \in Nat /\ results \in Nat /\ results + 1 <= calls
    <2>1. calls \in Nat /\ results \in Nat
        BY <1>1, CountIs
    <2> QED BY <1>1, <1>2, <1>5, <2>1 DEF Balanced
<1>7. /\ waiting # <<>> /\ id = waiting[1] /\ 1 \in 1 .. Len(waiting)
      /\ Tail(waiting) \in Seq(Nat) /\ Len(Tail(waiting)) = Len(waiting) - 1
      /\ \A l \in 1 .. Len(Tail(waiting)) : Tail(waiting)[l] = waiting[l + 1]
    <2> HIDE DEF waiting, calls, results
    <2>1. Len(waiting) >= 1
        BY <1>4, <1>6
    <2>2. waiting # <<>>
        BY <2>1
    <2>3. /\ Tail(waiting) \in Seq(Nat) /\ Len(Tail(waiting)) = Len(waiting) - 1
          /\ \A l \in 1 .. Len(Tail(waiting)) : Tail(waiting)[l] = waiting[l + 1]
        BY <1>4, <2>2, HeadTailProperties
    <2> QED BY <1>4, <2>1, <2>2, <2>3
<1>8. NameResult(parse, item) = next
    <2>1. NameResult(parse, item) =
             [parse EXCEPT !.pending = pending, !.messages = Append(@, m)]
        BY <1>2, <1>7, Zenon DEF NameResult
    <2> HIDE DEF m, pending
    <2> QED BY <1>3, <2>1
<1>9. m.kind = "result" /\ m.call = id /\ m.out = Verbatim(item.text)
    OBVIOUS
<1>10. /\ next.messages[n] = m /\ next.seen = parse.seen /\ next.pending = pending
       /\ \A l \in 1 .. (n - 1) : next.messages[l] = parse.messages[l]
    <2> HIDE DEF m, pending
    <2> QED BY <1>1, <1>3
<1> HIDE DEF m, next
<1>11. \A i \in 1 .. n : i = n \/ i \in 1 .. (n - 1)
    BY <1>1
<1>12. ASSUME NEW i \in RawIds
       PROVE  /\ Len(next.pending[i]) + Count(h, "result", i, n) = Count(h, "call", i, n)
              /\ \A p \in 1 .. Len(next.pending[i]) :
                    Called(next.messages, h, n, i, Count(h, "result", i, n) + p, next.pending[i][p])
    <2>1. ASSUME NEW p \in 1 .. Len(parse.pending[i])
          PROVE  Called(next.messages, h, n, i, Count(h, "result", i, n - 1) + p, parse.pending[i][p])
        <3>1. Called(parse.messages, h, n - 1, i, Count(h, "result", i, n - 1) + p, parse.pending[i][p])
            BY DEF Pairs
        <3>2. n - 1 \in Nat /\ n \in Nat /\ n - 1 <= n
            BY <1>1
        <3> QED BY <1>10, <3>1, <3>2, CalledLater
    <2>2. CASE i = item.id
        <3>1. next.pending[i] = Tail(waiting)
            BY <1>2, <1>3, <1>10, <2>2
        <3>2. ASSUME NEW p \in 1 .. Len(waiting)
              PROVE  Called(next.messages, h, n, i, results + p, waiting[p])
            BY <2>1, <2>2
        <3>3. Count(h, "call", i, n) = calls /\ Count(h, "result", i, n) = results + 1
            BY <1>5, <2>2
        <3> HIDE DEF waiting, calls, results, pending
        <3>4. ASSUME NEW p \in 1 .. Len(Tail(waiting))
              PROVE  Called(next.messages, h, n, i, (results + 1) + p, Tail(waiting)[p])
            <4>1. /\ p + 1 \in 1 .. Len(waiting) /\ Tail(waiting)[p] = waiting[p + 1]
                  /\ (results + 1) + p = results + (p + 1)
                BY <1>4, <1>6, <1>7
            <4> QED BY <3>2, <4>1
        <3>5. Len(Tail(waiting)) + (results + 1) = calls
            BY <1>4, <1>6, <1>7
        <3> QED BY <3>1, <3>3, <3>4, <3>5
    <2>3. CASE i # item.id
        <3>1. next.pending[i] = parse.pending[i]
            BY <1>2, <1>3, <1>10, <2>3
        <3>2. /\ Count(h, "call", i, n) = Count(h, "call", i, n - 1)
              /\ Count(h, "result", i, n) = Count(h, "result", i, n - 1)
            BY <1>1, <2>3, CountNext
        <3> QED BY <2>1, <3>1, <3>2 DEF Pairs
    <2> QED BY <2>2, <2>3
<1>13. ASSUME NEW i \in 1 .. n, h[i].kind = "call"
       PROVE  /\ next.messages[i].call \in next.seen
              /\ \A j \in 1 .. n :
                    h[j].kind = "call" /\ next.messages[j].call = next.messages[i].call => i = j
    <2>1. \A j \in 1 .. n : h[j].kind = "call" => j \in 1 .. (n - 1)
        BY <1>11
    <2> QED BY <1>10, <1>13, <2>1 DEF Pairs
<1>14. ASSUME NEW k \in 1 .. n PROVE Says(next.messages[k], h[k])
    <2>1. Says(m, item)
        BY <1>9 DEF Says, Verbatim
    <2> QED BY <1>10, <1>11, <2>1 DEF Pairs
<1>15. ASSUME NEW k \in 1 .. n, h[k].kind = "result"
       PROVE  /\ next.messages[k].out = Verbatim(h[k].text)
              /\ Called(next.messages, h, k - 1, h[k].id, Count(h, "result", h[k].id, k),
                        next.messages[k].call)
    <2>1. k - 1 \in Nat /\ k - 1 <= k - 1 /\ \A l \in 1 .. (k - 1) : next.messages[l] = parse.messages[l]
        BY <1>10
    <2>2. CASE k = n
        <3>1. Called(parse.messages, h, n - 1, item.id, results + 1, waiting[1])
            BY <1>2, <1>7 DEF Pairs
        <3>2. Called(next.messages, h, n - 1, item.id, results + 1, waiting[1])
            BY <2>1, <2>2, <3>1, CalledLater
        <3> HIDE DEF waiting, results, calls
        <3> QED BY <1>5, <1>7, <1>9, <1>10, <2>2, <3>2
    <2>3. CASE k # n
        <3>1. k \in 1 .. (n - 1)
            BY <1>11, <2>3
        <3>2. /\ parse.messages[k].out = Verbatim(h[k].text)
              /\ Called(parse.messages, h, k - 1, h[k].id, Count(h, "result", h[k].id, k),
                        parse.messages[k].call)
            BY <1>15, <3>1 DEF Pairs
        <3>3. Called(next.messages, h, k - 1, h[k].id, Count(h, "result", h[k].id, k),
                     parse.messages[k].call)
            BY <2>1, <3>2, CalledLater
        <3> QED BY <1>10, <3>1, <3>2, <3>3
    <2> QED BY <2>2, <2>3
<1> HIDE DEF pending
<1> QED BY <1>8, <1>12, <1>13, <1>14, <1>15 DEF Pairs

\* So it is of a whole history.
LEMMA ConvertedPairs ==
    ASSUME NEW h \in Seq(Items), Balanced(h), NEW from \in Nat
    PROVE  Pairs(Converted(h, from), h, Len(h))
<1>1. Len(h) \in Nat /\ \A n \in 1 .. Len(h) : h[n] \in Items
    OBVIOUS
<1>2. PICK parse : Parses(parse, h, from) /\ Converted(h, from) = parse[Len(h)]
    BY ConvertedStepwise
<1> DEFINE right == {n \in 0 .. Len(h) : Parsed(parse[n], n) /\ Pairs(parse[n], h, n)}
<1>3. 0 \in right
    <2>1. <<>> \in Seq(Messages) /\ Len(<<>>) = 0 /\ <<>> \in Seq(Nat)
          /\ {} \in SUBSET Nat /\ IsFiniteSet({})
        BY FS_EmptySet
    <2>2. Parsed(Begin(from), 0)
        BY <2>1 DEF Parsed, Begin
    <2>3. \A id \in RawIds : Count(h, "call", id, 0) = 0 /\ Count(h, "result", id, 0) = 0
        BY CountIs
    <2>4. Pairs(Begin(from), h, 0)
        BY <2>1, <2>3 DEF Pairs, Begin
    <2> QED BY <1>1, <1>2, <2>2, <2>4 DEF Parses
<1>4. ASSUME NEW n \in 1 .. Len(h), n - 1 \in right PROVE n \in right
    <2>1. n - 1 \in Nat /\ (n - 1) + 1 = n /\ n \in 0 .. Len(h) /\ h[n] \in Items
        BY <1>1
    <2>2. Parsed(parse[n - 1], n - 1) /\ Pairs(parse[n - 1], h, n - 1)
        BY <1>4
    <2>3. Parsed(Named(parse[n - 1], h[n]), (n - 1) + 1)
        BY <2>1, <2>2, NamedKeeps
    <2>4. parse[n] = Named(parse[n - 1], h[n])
        BY <1>2 DEF Parses
    <2>5. Pairs(Named(parse[n - 1], h[n]), h, n)
        BY <2>1, <2>2, ItemIs, NameCallPairs, NameResultPairs DEF Named
    <2> QED BY <2>1, <2>3, <2>4, <2>5
<1> HIDE DEF right
<1>5. \A n \in 0 .. Len(h) : n \in right
    BY <1>1, <1>3, <1>4, UpTo
<1>6. Len(h) \in right
    BY <1>1, <1>5
<1> QED BY <1>2, <1>6 DEF right

\* The message of a result answers the message of one call, which is the call the
\* result answers in the history.
LEMMA PairedIs ==
    ASSUME NEW h \in Seq(Items), NEW parse, Parsed(parse, Len(h)), Pairs(parse, h, Len(h)),
           NEW k \in 1 .. Len(h), h[k].kind = "result"
    PROVE  /\ AnsweredBy(h, k) \in 1 .. (k - 1)
           /\ Answered(parse.messages, k) = {AnsweredBy(h, k)}
<1> DEFINE id == h[k].id
           order == Count(h, "result", id, k)
           messages == parse.messages
           fits(i) == h[i].kind = "call" /\ h[i].id = h[k].id /\ Rank(h, i) = Rank(h, k)
<1>1. Len(h) \in Nat /\ DOMAIN h = 1 .. Len(h) /\ \A i \in 1 .. (k - 1) : i \in 1 .. Len(h)
    OBVIOUS
<1>2. PICK j \in 1 .. (k - 1) : CallAt(h, id, j, order) /\ messages[j].call = messages[k].call
    BY DEF Pairs, Called
<1>3. \A i \in 1 .. Len(h) : Rank(h, i) = Count(h, h[i].kind, h[i].id, i)
    BY DEF Rank, Count
<1>4. \A i \in 1 .. Len(h) : fits(i) <=> CallAt(h, id, i, order)
    BY <1>3 DEF CallAt
<1>5. AnsweredBy(h, k) = CHOOSE i \in DOMAIN h : fits(i)
    BY Zenon DEF AnsweredBy
<1> HIDE DEF fits
<1>6. ASSUME NEW i \in 1 .. Len(h), CallAt(h, id, i, order) PROVE i = j
    BY <1>1, <1>2, <1>6, CountsApart DEF CallAt
<1>7. AnsweredBy(h, k) = j
    BY <1>1, <1>2, <1>4, <1>5, <1>6
<1>8. \A i \in 1 .. Len(h) : Says(messages[i], h[i])
    BY DEF Pairs
<1>9. ASSUME NEW i \in 1 .. (k - 1), messages[i].kind = "call", messages[i].call = messages[k].call
      PROVE  i = j
    <2>1. h[i].kind = "call" /\ h[j].kind = "call" /\ messages[j].call = messages[i].call
        BY <1>1, <1>2, <1>8, <1>9 DEF Says, CallAt
    <2> QED BY <1>1, <2>1 DEF Pairs
<1>10. messages[j].kind = "call"
    BY <1>1, <1>2, <1>8 DEF Says, CallAt
<1>11. Answered(messages, k) = {j}
    BY <1>2, <1>9, <1>10 DEF Answered
<1> QED BY <1>7, <1>11

-----------------------------------------------------------------------------
(* Histories of clients that name their calls themselves.                  *)

\* An id stands for one call and has one result, which comes after it.
Well(h) ==
    /\ \A i, j \in 1 .. Len(h) :
          h[i].kind = h[j].kind /\ h[i].id = h[j].id /\ h[i].id # NoId => i = j
    /\ \A k \in 1 .. Len(h) : h[k].kind = "result" =>
          \E j \in 1 .. (k - 1) : h[j].kind = "call" /\ h[j].id = h[k].id

\* What a request repeats of a history.
Begins(raw, h) ==
    /\ raw \in Seq(Items) /\ h \in Seq(Items) /\ Len(raw) <= Len(h)
    /\ \A i \in 1 .. Len(raw) : raw[i] = h[i]

\* The call that a result answers.
CallOf(h, k) == CHOOSE j \in 1 .. (k - 1) : h[j].kind = "call" /\ h[j].id = h[k].id

HistoryInv ==
    /\ Len(history) <= MaxItems
    /\ Balanced(history)
    /\ OwnIds => Well(history)

\* The call of a result is the only one of its id.
LEMMA CallOfIs ==
    ASSUME NEW h \in Seq(Items), Well(h), NEW k \in 1 .. Len(h), h[k].kind = "result"
    PROVE  /\ CallOf(h, k) \in 1 .. (k - 1)
           /\ h[CallOf(h, k)].kind = "call" /\ h[CallOf(h, k)].id = h[k].id
           /\ \A j \in 1 .. Len(h) :
                 h[j].kind = "call" /\ h[j].id = h[k].id => j = CallOf(h, k)
<1>1. \E j \in 1 .. (k - 1) : h[j].kind = "call" /\ h[j].id = h[k].id
    BY DEF Well
<1>2. /\ CallOf(h, k) \in 1 .. (k - 1)
      /\ h[CallOf(h, k)].kind = "call" /\ h[CallOf(h, k)].id = h[k].id
    BY <1>1 DEF CallOf
<1>3. h[k].id # NoId
    BY ItemIs, RawIdIs
<1>4. CallOf(h, k) \in 1 .. Len(h)
    BY <1>2
<1>5. ASSUME NEW j \in 1 .. Len(h), h[j].kind = "call", h[j].id = h[k].id
      PROVE  j = CallOf(h, k)
    BY <1>2, <1>3, <1>4, <1>5 DEF Well
<1> QED BY <1>2, <1>5

\* The beginning of such a history is one.
LEMMA BeginningIsWell ==
    ASSUME NEW raw, NEW h, Begins(raw, h), Well(h)
    PROVE  /\ Well(raw)
           /\ \A k \in 1 .. Len(raw) : CallOf(raw, k) = CallOf(h, k)
<1>1. /\ raw \in Seq(Items) /\ h \in Seq(Items) /\ Len(raw) \in Nat /\ Len(h) \in Nat
      /\ Len(raw) <= Len(h) /\ \A i \in 1 .. Len(raw) : raw[i] = h[i]
    BY DEF Begins
<1>2. \A i \in 1 .. Len(raw) : i \in 1 .. Len(h)
    BY <1>1
<1>3. ASSUME NEW k \in 1 .. Len(raw), raw[k].kind = "result"
      PROVE  \E j \in 1 .. (k - 1) : raw[j].kind = "call" /\ raw[j].id = raw[k].id
    <2>1. PICK j \in 1 .. (k - 1) : h[j].kind = "call" /\ h[j].id = h[k].id
        BY <1>1, <1>2, <1>3 DEF Well
    <2>2. j \in 1 .. Len(raw)
        BY <1>1, <2>1
    <2> QED BY <1>1, <2>1, <2>2
<1>4. Well(raw)
    BY <1>1, <1>2, <1>3 DEF Well
<1>5. ASSUME NEW k \in 1 .. Len(raw) PROVE CallOf(raw, k) = CallOf(h, k)
    <2>1. \A j \in 1 .. (k - 1) : raw[j] = h[j]
        BY <1>1
    <2>2. raw[k] = h[k]
        BY <1>1
    <2> QED BY <2>1, <2>2, Zenon DEF CallOf
<1> QED BY <1>4, <1>5

\* A history goes on by an item, and every beginning stays one.
LEMMA BeginsLonger ==
    ASSUME NEW raw, NEW h, Begins(raw, h), NEW item \in Items
    PROVE  Begins(raw, Append(h, item)) /\ Begins(h, Append(h, item))
<1>1. /\ raw \in Seq(Items) /\ h \in Seq(Items) /\ Len(raw) \in Nat /\ Len(h) \in Nat
      /\ Len(raw) <= Len(h) /\ \A i \in 1 .. Len(raw) : raw[i] = h[i]
    BY DEF Begins
<1> DEFINE longer == Append(h, item)
<1>2. /\ longer \in Seq(Items) /\ Len(longer) = Len(h) + 1
      /\ \A i \in 1 .. Len(h) : longer[i] = h[i]
    BY <1>1, AppendProperties
<1> HIDE DEF longer
<1>3. Len(raw) <= Len(longer) /\ Len(h) <= Len(longer)
    BY <1>1, <1>2
<1>4. \A i \in 1 .. Len(raw) : raw[i] = longer[i]
    BY <1>1, <1>2
<1> QED BY <1>1, <1>2, <1>3, <1>4 DEF Begins, longer

\* A call that is open has an id of its own and no result.
LEMMA OpenIs ==
    ASSUME NEW id \in RawIds, history \in Seq(Items), Well(history), Open(id)
    PROVE  /\ \E j \in 1 .. Len(history) : history[j].kind = "call" /\ history[j].id = id
           /\ \A j \in 1 .. Len(history) : ~(history[j].kind = "result" /\ history[j].id = id)
<1> DEFINE of(kind) == {i \in DOMAIN history : history[i].kind = kind /\ history[i].id = id}
           calls == of("call")
           results == of("result")
<1>1. Cardinality(calls) > Cardinality(results)
    BY Zenon DEF Open
<1>2. DOMAIN history = 1 .. Len(history) /\ Len(history) \in Nat /\ id # NoId
    BY RawIdIs
<1>3. IsFiniteSet(calls) /\ IsFiniteSet(results)
    <2>1. IsFiniteSet(1 .. Len(history))
        BY <1>2, FS_Interval
    <2> QED BY <1>2, <2>1, FS_Subset
<1>4. Cardinality(calls) \in Nat /\ Cardinality(results) \in Nat
    BY <1>3, FS_CardinalityType
<1>5. calls # {}
    <2> HIDE DEF calls, results
    <2>1. ASSUME calls = {} PROVE FALSE
        <3>1. Cardinality(calls) = 0
            BY <2>1, FS_EmptySet
        <3> QED BY <1>1, <1>4, <3>1
    <2> QED BY <2>1
<1>6. PICK j \in calls : TRUE
    BY <1>5
<1>7. calls = {j}
    BY <1>2, <1>6 DEF Well
<1>8. Cardinality(calls) = 1
    BY <1>7, FS_Singleton
<1>9. Cardinality(results) = 0
    BY <1>1, <1>4, <1>8
<1>10. results = {}
    <2> HIDE DEF results
    <2> QED BY <1>3, <1>9, FS_EmptySet
<1> QED BY <1>2, <1>6, <1>10

\* The client's steps keep its history that way.
LEMMA ClientKeepsWell ==
    ASSUME OwnIds, Inv, Well(history), Client
    PROVE  Well(history')
<1>1. history \in Seq(Items) /\ Len(history) \in Nat
    BY DEF Inv
<1>2. ASSUME NEW item \in Items, Say(item),
             \A i \in 1 .. Len(history) :
                ~(history[i].kind = item.kind /\ history[i].id = item.id /\ item.id # NoId),
             item.kind = "result" =>
                \E j \in 1 .. Len(history) : history[j].kind = "call" /\ history[j].id = item.id
      PROVE  Well(history')
    <2>1. history' = Append(history, item)
        BY <1>2 DEF Say
    <2>2. /\ Len(history') = Len(history) + 1 /\ history'[Len(history) + 1] = item
          /\ \A i \in 1 .. Len(history) : history'[i] = history[i]
        BY <1>1, <2>1, AppendProperties
    <2>3. \A i \in 1 .. Len(history') : i \in 1 .. Len(history) \/ i = Len(history) + 1
        BY <1>1, <2>2
    <2>4. ASSUME NEW i \in 1 .. Len(history'), NEW j \in 1 .. Len(history'),
                 history'[i].kind = history'[j].kind, history'[i].id = history'[j].id,
                 history'[i].id # NoId
          PROVE  i = j
        BY <1>1, <1>2, <2>2, <2>3, <2>4 DEF Well
    <2>5. ASSUME NEW k \in 1 .. Len(history'), history'[k].kind = "result"
          PROVE  \E j \in 1 .. (k - 1) : history'[j].kind = "call" /\ history'[j].id = history'[k].id
        <3>1. CASE k \in 1 .. Len(history)
            <4>1. PICK j \in 1 .. (k - 1) : history[j].kind = "call" /\ history[j].id = history[k].id
                BY <1>1, <2>2, <2>5, <3>1 DEF Well
            <4>2. j \in 1 .. Len(history)
                BY <1>1, <3>1, <4>1
            <4> QED BY <2>2, <3>1, <4>1, <4>2
        <3>2. CASE k = Len(history) + 1
            <4>1. PICK j \in 1 .. Len(history) : history[j].kind = "call" /\ history[j].id = item.id
                BY <1>2, <2>2, <2>5, <3>2
            <4>2. j \in 1 .. (k - 1)
                BY <1>1, <3>2
            <4> QED BY <2>2, <3>2, <4>1, <4>2
        <3> QED BY <2>3, <3>1, <3>2
    <2> QED BY <2>4, <2>5 DEF Well
<1>3. ASSUME NEW id \in RawIds \cup {NoId}, NEW tool \in Tools, ModelCalls(id, tool)
      PROVE  Well(history')
    <2>1. Call(id, tool) \in Items /\ Call(id, tool).kind = "call" /\ Call(id, tool).id = id
        BY DEF Items, Call
    <2>2. Say(Call(id, tool)) /\ id \notin Used \ {NoId}
        BY <1>3 DEF ModelCalls, OwnIds
    <2>3. \A i \in 1 .. Len(history) : ~(history[i].kind = "call" /\ history[i].id = id /\ id # NoId)
        BY <1>1, <2>2 DEF Used
    <2> QED BY <1>2, <2>1, <2>2, <2>3
<1>4. ASSUME NEW id \in RawIds, NEW a \in Answers, ToolAnswers(id, a[1], a[2])
      PROVE  Well(history')
    <2>1. a[1] \in Statuses /\ a[2] \in Texts
        BY ProxySessionAssumption
    <2> DEFINE item == Result(id, a[1], a[2])
    <2>2. item \in Items /\ item.kind = "result" /\ item.id = id
        BY <2>1 DEF Items, Result
    <2>3. Say(item) /\ Open(id)
        BY <1>4 DEF ToolAnswers
    <2> HIDE DEF item
    <2>4. /\ \E j \in 1 .. Len(history) : history[j].kind = "call" /\ history[j].id = id
          /\ \A j \in 1 .. Len(history) : ~(history[j].kind = "result" /\ history[j].id = id)
        BY <1>1, <2>3, OpenIs
    <2> QED BY <1>2, <2>2, <2>3, <2>4
<1> QED BY <1>3, <1>4 DEF Client

\* Whatever ids it uses, a client gives a result only to a call that has none.
LEMMA ClientKeepsHistory ==
    ASSUME Inv, HistoryInv, Client
    PROVE  /\ HistoryInv'
           /\ \E item \in Items : Say(item)
<1>1. history \in Seq(Items) /\ Len(history) \in Nat /\ Balanced(history) /\ MaxItems \in Nat
    BY ProxySessionAssumption DEF Inv, HistoryInv
<1>2. PICK item \in Items :
          /\ Say(item)
          /\ item.kind = "result" =>
                Count(history, "call", item.id, Len(history)) > Count(history, "result", item.id, Len(history))
    <2>1. ASSUME NEW id \in RawIds \cup {NoId}, NEW tool \in Tools, ModelCalls(id, tool)
          PROVE  \E item \in Items : Say(item) /\ item.kind = "call"
        <3>1. Call(id, tool) \in Items /\ Call(id, tool).kind = "call"
            BY DEF Items, Call
        <3> QED BY <2>1, <3>1 DEF ModelCalls
    <2>2. ASSUME NEW id \in RawIds, NEW a \in Answers, ToolAnswers(id, a[1], a[2])
          PROVE  \E item \in Items :
                    /\ Say(item)
                    /\ Count(history, "call", item.id, Len(history))
                           > Count(history, "result", item.id, Len(history))
        <3>1. a[1] \in Statuses /\ a[2] \in Texts
            BY ProxySessionAssumption
        <3> DEFINE item == Result(id, a[1], a[2])
        <3>2. item \in Items /\ item.id = id
            BY <3>1 DEF Items, Result
        <3>3. Say(item) /\ Open(id)
            BY <2>2 DEF ToolAnswers
        <3> HIDE DEF item
        <3>4. DOMAIN history = 1 .. Len(history)
            BY <1>1
        <3>5. Count(history, "call", id, Len(history)) > Count(history, "result", id, Len(history))
            BY <3>3, <3>4, Zenon DEF Open, Count
        <3> QED BY <3>2, <3>3, <3>5
    <2> QED BY <2>1, <2>2 DEF Client
<1>3. history' = Append(history, item) /\ Len(history) < MaxItems
    BY <1>2 DEF Say
<1>4. Len(history') = Len(history) + 1
    BY <1>1, <1>3
<1>5. Balanced(history')
    BY <1>1, <1>2, <1>3, BalancedLonger
<1>6. OwnIds => Well(history')
    BY ClientKeepsWell DEF HistoryInv
<1> QED BY <1>1, <1>2, <1>3, <1>4, <1>5, <1>6 DEF HistoryInv, Well, Balanced, Count

-----------------------------------------------------------------------------
(* The ids that the conversion gives.                                      *)

\* A message stands for an item: what has an id keeps it, and what has none
\* is given one that no client uses.
Stands(m, item) ==
    /\ m.kind = item.kind
    /\ m.kind = "call" =>
          /\ m.tool = item.tool
          /\ IF item.id = NoId THEN m.call \notin RawIds ELSE m.call = item.id
    /\ m.kind = "result" => m.call = item.id /\ m.out.text = item.text

\* What the conversion has after some items of a history.
Converts(parse, h, n, from) ==
    /\ parse.counter \in from .. (from + n)
    /\ \A id \in parse.seen :
          \/ id \in Nat /\ id < parse.counter
          \/ \E j \in 1 .. n : h[j].kind = "call" /\ h[j].id = id
    /\ \A id \in RawIds : \A i \in 1 .. Len(parse.pending[id]) : parse.pending[id][i] = id
    /\ \A k \in 1 .. n : Stands(parse.messages[k], h[k])

\* A number that is not taken is generated at once.
LEMMA GeneratedIsCounter ==
    ASSUME NEW seen \in SUBSET Nat, IsFiniteSet(seen), NEW from \in Nat, from \notin seen
    PROVE  Generated(seen, from) = from
<1>1. Cardinality(seen) \in Nat
    BY FS_CardinalityType
<1>2. from \in from .. (from + Cardinality(seen)) /\ from .. (from - 1) \subseteq seen
    BY <1>1
<1>3. ASSUME NEW n \in from .. (from + Cardinality(seen)), n \notin seen,
             from .. (n - 1) \subseteq seen
      PROVE  n = from
    <2>1. n \in Nat /\ n >= from
        BY <1>1
    <2>2. n > from => from \in from .. (n - 1)
        BY <2>1
    <2> QED BY <1>3, <2>1, <2>2
<1> QED BY <1>2, <1>3 DEF Generated

\* No client uses an id below what all requests can draw.
Drawn == MaxItems * MaxRequests

LEMMA DrawnIs == Drawn \in Nat
<1>1. MaxItems \in Nat /\ MaxRequests \in Nat
    BY ProxySessionAssumption
<1> QED BY <1>1 DEF Drawn

\* A call that has an id of its own keeps it, and another gets the counter.
LEMMA NameCallTells ==
    ASSUME OwnIds, NEW h \in Seq(Items), Well(h), NEW n \in 1 .. Len(h), NEW from \in Nat,
           from + n <= Drawn, NEW parse, Parsed(parse, n - 1), Converts(parse, h, n - 1, from),
           h[n].kind = "call"
    PROVE  Converts(NameCall(parse, h[n]), h, n, from)
<1> DEFINE item == h[n]
           fresh == Generated(parse.seen, parse.counter)
           keeps == item.id # NoId /\ item.id \notin parse.seen
           id == IF keeps THEN item.id ELSE fresh
           next == NameCall(parse, item)
<1>1. n \in Nat /\ Len(h) \in Nat /\ n - 1 \in Nat /\ Drawn \in Nat /\ n <= Len(h)
    BY DrawnIs
<1>2. item.id \in RawIds \cup {NoId} /\ item.tool \in Tools
    BY ItemIs
<1>3. /\ parse.seen \in SUBSET Nat /\ IsFiniteSet(parse.seen) /\ parse.counter \in Nat
      /\ parse.pending \in [RawIds -> Seq(Nat)]
      /\ parse.messages \in Seq(Messages) /\ Len(parse.messages) = n - 1
    BY DEF Parsed
<1>4. parse.counter < Drawn /\ parse.counter \in from .. (from + (n - 1))
    BY <1>1, <1>3 DEF Converts
<1>5. \A i \in RawIds : i \in Nat /\ i >= Drawn /\ i # NoId
    BY RawIdIs DEF OwnIds, Drawn
<1>6. parse.counter \notin parse.seen
    <2>1. SUFFICES ASSUME parse.counter \in parse.seen PROVE FALSE
        OBVIOUS
    <2>2. ~(parse.counter < parse.counter)
        BY <1>3
    <2>3. PICK j \in 1 .. (n - 1) : h[j].kind = "call" /\ h[j].id = parse.counter
        BY <2>1, <2>2 DEF Converts
    <2>4. j \in 1 .. Len(h)
        BY <1>1
    <2>5. h[j].id \in RawIds \cup {NoId}
        BY <2>3, <2>4, ItemIs
    <2>6. h[j].id # NoId
        BY <1>3, <2>3, PriorResultsAssumption
    <2>7. parse.counter >= Drawn
        BY <1>5, <2>3, <2>5, <2>6
    <2> QED BY <1>1, <1>3, <1>4, <2>7
<1>7. fresh = parse.counter
    BY <1>3, <1>6, GeneratedIsCounter
<1> HIDE DEF fresh
<1>8. item.id # NoId => keeps
    <2>1. SUFFICES ASSUME item.id \in RawIds, item.id \in parse.seen PROVE FALSE
        BY <1>2
    <2>2. ~(item.id < parse.counter)
        BY <1>1, <1>3, <1>4, <1>5, <2>1
    <2>3. PICK j \in 1 .. (n - 1) : h[j].kind = "call" /\ h[j].id = item.id
        BY <2>1, <2>2 DEF Converts
    <2>4. j \in 1 .. Len(h) /\ j # n
        BY <1>1
    <2> QED BY <1>5, <2>1, <2>3, <2>4 DEF Well
<1>9. /\ next.seen = parse.seen \cup {id}
      /\ next.counter = IF keeps THEN parse.counter ELSE fresh + 1
      /\ next.pending = IF item.id = NoId THEN parse.pending
                        ELSE [parse.pending EXCEPT ![item.id] = Append(@, id)]
      /\ next.messages = Append(parse.messages,
                                [kind |-> "call", call |-> id, tool |-> item.tool])
    BY Zenon DEF NameCall, fresh
<1> HIDE DEF next
<1>10. id = IF item.id = NoId THEN parse.counter ELSE item.id
    BY <1>7, <1>8
<1>11. next.counter \in from .. (from + n) /\ next.counter >= parse.counter
       /\ (item.id = NoId => next.counter = parse.counter + 1)
    BY <1>1, <1>3, <1>4, <1>7, <1>8, <1>9
<1> HIDE DEF keeps, id
<1>12. ASSUME NEW i \in next.seen
       PROVE  \/ i \in Nat /\ i < next.counter
              \/ \E j \in 1 .. n : h[j].kind = "call" /\ h[j].id = i
    <2>1. CASE i \in parse.seen
        <3>1. CASE i \in Nat /\ i < parse.counter
            BY <1>1, <1>3, <1>11, <3>1
        <3>2. CASE \E j \in 1 .. (n - 1) : h[j].kind = "call" /\ h[j].id = i
            <4>1. \A j \in 1 .. (n - 1) : j \in 1 .. n
                BY <1>1
            <4> QED BY <3>2, <4>1
        <3> QED BY <2>1, <3>1, <3>2 DEF Converts
    <2>2. CASE i = id
        <3>1. CASE item.id = NoId
            BY <1>3, <1>10, <1>11, <2>2, <3>1
        <3>2. CASE item.id # NoId
            <4>1. n \in 1 .. n
                BY <1>1
            <4> QED BY <1>10, <2>2, <3>2, <4>1
        <3> QED BY <3>1, <3>2
    <2> QED BY <1>9, <2>1, <2>2
<1>13. ASSUME NEW i \in RawIds, NEW k \in 1 .. Len(next.pending[i])
       PROVE  next.pending[i][k] = i
    <2>1. CASE i = item.id
        <3>1. item.id # NoId /\ id = i
            BY <1>5, <1>10, <2>1
        <3>2. next.pending[i] = Append(parse.pending[i], i) /\ parse.pending[i] \in Seq(Nat) /\ i \in Nat
            BY <1>3, <1>5, <1>9, <2>1, <3>1
        <3>3. /\ Len(next.pending[i]) = Len(parse.pending[i]) + 1
              /\ next.pending[i][Len(parse.pending[i]) + 1] = i
              /\ \A l \in 1 .. Len(parse.pending[i]) : next.pending[i][l] = parse.pending[i][l]
            BY <3>2, AppendProperties
        <3>4. k \in 1 .. Len(parse.pending[i]) \/ k = Len(parse.pending[i]) + 1
            BY <3>2, <3>3
        <3> QED BY <3>3, <3>4 DEF Converts
    <2>2. CASE i # item.id
        <3>1. next.pending[i] = parse.pending[i]
            BY <1>3, <1>9, <2>2
        <3> QED BY <3>1 DEF Converts
    <2> QED BY <2>1, <2>2
<1>14. ASSUME NEW k \in 1 .. n
       PROVE  Stands(next.messages[k], h[k])
    <2> DEFINE m == [kind |-> "call", call |-> id, tool |-> item.tool]
    <2>1. /\ next.messages[n] = m
          /\ \A l \in 1 .. n - 1 : next.messages[l] = parse.messages[l]
        <3>1. id \in Nat
            BY <1>2, <1>3, <1>5, <1>10
        <3>2. m \in Messages
            BY <1>2, <3>1 DEF Messages
        <3> HIDE DEF m
        <3> QED BY <1>1, <1>3, <1>9, <3>2, AppendProperties DEF m
    <2>2. CASE k = n
        <3>1. parse.counter \notin RawIds
            BY <1>1, <1>3, <1>4, <1>5
        <3>2. Stands(m, item)
            BY <1>10, <3>1 DEF Stands
        <3> QED BY <2>1, <2>2, <3>2
    <2>3. CASE k # n
        <3>1. k \in 1 .. n - 1
            BY <1>1, <2>3
        <3> QED BY <2>1, <3>1 DEF Converts
    <2> QED BY <2>2, <2>3
<1> QED BY <1>11, <1>12, <1>13, <1>14 DEF Converts, next

\* A result keeps its raw id.
LEMMA NameResultTells ==
    ASSUME NEW h \in Seq(Items), NEW n \in 1 .. Len(h), NEW from \in Nat,
           NEW parse, Parsed(parse, n - 1), Converts(parse, h, n - 1, from),
           h[n].kind = "result"
    PROVE  Converts(NameResult(parse, h[n]), h, n, from)
<1> DEFINE item == h[n]
           waiting == parse.pending[item.id]
           id == IF waiting = <<>> THEN item.id ELSE Head(waiting)
           m == [kind |-> "result", call |-> id, out |-> Verbatim(item.text)]
           pending == IF waiting = <<>> THEN parse.pending
                      ELSE [parse.pending EXCEPT ![item.id] = Tail(waiting)]
           next == [seen |-> parse.seen, counter |-> parse.counter, pending |-> pending,
                    messages |-> Append(parse.messages, m)]
<1>1. n \in Nat /\ Len(h) \in Nat /\ n - 1 \in Nat /\ n <= Len(h)
    OBVIOUS
<1>2. item.id \in RawIds /\ item.text \in Texts /\ item.id # NoId /\ item.id \in Nat
    BY ItemIs, RawIdIs
<1>3. /\ parse.pending \in [RawIds -> Seq(Nat)] /\ parse.counter \in Nat
      /\ parse.messages \in Seq(Messages) /\ Len(parse.messages) = n - 1
      /\ parse = [seen |-> parse.seen, counter |-> parse.counter,
                  pending |-> parse.pending, messages |-> parse.messages]
    BY DEF Parsed
<1>4. waiting \in Seq(Nat) /\ \A i \in 1 .. Len(waiting) : waiting[i] = item.id
    BY <1>2, <1>3 DEF Converts
<1>5. id = item.id
    BY <1>4
<1>6. NameResult(parse, item) = next
    <2>1. NameResult(parse, item) =
             [parse EXCEPT !.pending = IF waiting = <<>> THEN @
                                       ELSE [@ EXCEPT ![item.id] = Tail(waiting)],
                           !.messages = Append(@, m)]
        BY <1>2, Zenon DEF NameResult
    <2> HIDE DEF m
    <2> QED BY <1>3, <2>1
<1>7. ASSUME NEW i \in RawIds, NEW k \in 1 .. Len(pending[i])
      PROVE  pending[i][k] = i
    <2>1. CASE waiting = <<>> \/ i # item.id
        <3>1. pending[i] = parse.pending[i]
            BY <1>3, <2>1
        <3> QED BY <3>1 DEF Converts
    <2>2. CASE waiting # <<>> /\ i = item.id
        <3>1. pending[i] = Tail(waiting)
            BY <1>2, <1>3, <2>2
        <3>2. Len(Tail(waiting)) = Len(waiting) - 1 /\ k + 1 \in 1 .. Len(waiting)
              /\ Tail(waiting)[k] = waiting[k + 1]
            <4> HIDE DEF waiting, pending
            <4>1. /\ Tail(waiting) \in Seq(Nat) /\ Len(Tail(waiting)) = Len(waiting) - 1
                  /\ \A l \in 1 .. Len(Tail(waiting)) : Tail(waiting)[l] = waiting[l + 1]
                BY <1>4, <2>2, HeadTailProperties
            <4>2. k \in 1 .. Len(Tail(waiting)) /\ Len(waiting) \in Nat
                BY <1>4, <3>1
            <4> QED BY <4>1, <4>2
        <3> QED BY <1>4, <2>2, <3>1, <3>2
    <2> QED BY <2>1, <2>2
<1>8. ASSUME NEW i \in parse.seen
      PROVE  \/ i \in Nat /\ i < parse.counter
             \/ \E j \in 1 .. n : h[j].kind = "call" /\ h[j].id = i
    <2>1. \A j \in 1 .. (n - 1) : j \in 1 .. n
        BY <1>1
    <2> QED BY <2>1 DEF Converts
<1>9. ASSUME NEW k \in 1 .. n
      PROVE  Stands(next.messages[k], h[k])
    <2>1. /\ next.messages[n] = m
          /\ \A l \in 1 .. n - 1 : next.messages[l] = parse.messages[l]
        <3> HIDE DEF m
        <3> QED BY <1>1, <1>3
    <2>2. CASE k = n
        <3>1. Stands(m, item)
            BY <1>5 DEF Stands, Verbatim
        <3> HIDE DEF m, next
        <3> QED BY <2>1, <2>2, <3>1
    <2>3. CASE k # n
        <3>1. k \in 1 .. n - 1
            BY <1>1, <2>3
        <3> QED BY <2>1, <3>1 DEF Converts
    <2> QED BY <2>2, <2>3
<1>10. parse.counter \in from .. (from + n)
    BY <1>1, <1>3 DEF Converts
<1>11. next.counter = parse.counter /\ next.seen = parse.seen /\ next.pending = pending
    BY Zenon
<1> HIDE DEF pending, next
<1> QED BY <1>6, <1>7, <1>8, <1>9, <1>10, <1>11 DEF Converts

\* A history of a client that names its calls keeps all of its ids.
LEMMA ConvertedTells ==
    ASSUME OwnIds, NEW h \in Seq(Items), Well(h), NEW from \in Nat, from + Len(h) <= Drawn
    PROVE  Converts(Converted(h, from), h, Len(h), from)
<1>1. Len(h) \in Nat /\ Drawn \in Nat
    BY DrawnIs
<1>2. PICK parse : Parses(parse, h, from) /\ Converted(h, from) = parse[Len(h)]
    BY ConvertedStepwise
<1> DEFINE right == {n \in 0 .. Len(h) : Parsed(parse[n], n) /\ Converts(parse[n], h, n, from)}
<1>3. 0 \in right
    <2>1. <<>> \in Seq(Messages) /\ Len(<<>>) = 0 /\ <<>> \in Seq(Nat)
          /\ {} \in SUBSET Nat /\ IsFiniteSet({})
        BY FS_EmptySet
    <2>2. Parsed(Begin(from), 0)
        BY <2>1 DEF Parsed, Begin
    <2>3. Converts(Begin(from), h, 0, from)
        BY <2>1 DEF Converts, Begin
    <2> QED BY <1>1, <1>2, <2>2, <2>3 DEF Parses
<1>4. ASSUME NEW n \in 1 .. Len(h), n - 1 \in right PROVE n \in right
    <2>1. n - 1 \in Nat /\ (n - 1) + 1 = n /\ n \in 0 .. Len(h) /\ from + n <= Drawn /\ h[n] \in Items
        BY <1>1
    <2>2. Parsed(parse[n - 1], n - 1) /\ Converts(parse[n - 1], h, n - 1, from)
        BY <1>4
    <2>3. Parsed(Named(parse[n - 1], h[n]), (n - 1) + 1)
        BY <2>1, <2>2, NamedKeeps
    <2>4. parse[n] = Named(parse[n - 1], h[n])
        BY <1>2 DEF Parses
    <2>5. Converts(Named(parse[n - 1], h[n]), h, n, from)
        BY <2>1, <2>2, ItemIs, NameCallTells, NameResultTells DEF Named
    <2> QED BY <2>1, <2>3, <2>4, <2>5
<1> HIDE DEF right
<1>5. \A n \in 0 .. Len(h) : n \in right
    BY <1>1, <1>3, <1>4, UpTo
<1>6. Len(h) \in right
    BY <1>1, <1>5
<1> QED BY <1>2, <1>6 DEF right

-----------------------------------------------------------------------------
(* What is kept of a history until it is sent.                             *)

\* Messages that stand for a history, item by item: the message of a result answers
\* that of its call and no other.
Tells(messages, raw) ==
    /\ Len(messages) = Len(raw)
    /\ \A k \in 1 .. Len(raw) : Says(messages[k], raw[k])
    /\ \A k \in 1 .. Len(raw) : raw[k].kind = "result" =>
          /\ AnsweredBy(raw, k) \in 1 .. (k - 1)
          /\ Answered(messages, k) = {AnsweredBy(raw, k)}
    /\ OwnIds => \A k \in 1 .. Len(raw) : Stands(messages[k], raw[k])

RequestTells(r, h) ==
    /\ Begins(r.raw, h)
    /\ Tells(r.messages, r.raw)
    /\ r.pc # "lookup" => r.out.text = r.messages[r.at].out.text

\* What was sent, with the tools that were read off it.
Sent ==
    {[config |-> config, raw |-> raw, messages |-> messages,
      recorded |-> RecordedTools(raw, messages)] :
        config \in Configs, raw \in Seq(Items), messages \in Seq(Messages)}

SentTells(x, h) == Begins(x.raw, h) /\ Tells(x.messages, x.raw)

\* The memo holds outputs of the texts it holds them for.
MemoTexts(state) ==
    \A s \in Held(state) : \A c \in DOMAIN state.of[s].entries :
        state.of[s].entries[c].out.text = state.of[s].entries[c].text

\* The requests that may have drawn ids since the counter was at zero.
Drawers == Len(sent) + Cardinality(InFlight)

DrawInv ==
    /\ IsFiniteSet(InFlight)
    /\ Drawers <= MaxRequests
    /\ counter <= MaxItems * Drawers

TellInv ==
    /\ HistoryInv
    /\ sent \in Seq(Sent)
    /\ OwnIds => DrawInv
    /\ \A w \in InFlight : RequestTells(request[w], history)
    /\ MemoTexts(memo)
    /\ \A i \in 1 .. Len(sent) : SentTells(sent[i], history)

\* What replacing the output of a result makes of a request.
LEMMA ReplacedIs ==
    ASSUME NEW r, RequestInv(r), r.at <= Len(r.messages), NEW out
    PROVE  LET next == Replaced(r, out)
           IN  /\ next.pc = "lookup" /\ next.config = r.config /\ next.raw = r.raw
               /\ next.at = NextResult(r.messages, r.at + 1)
               /\ Len(next.messages) = Len(r.messages)
               /\ next.messages[r.at] =
                     [kind |-> "result", call |-> r.messages[r.at].call, out |-> out]
               /\ \A i \in 1 .. Len(r.messages) : i # r.at => next.messages[i] = r.messages[i]
<1> DEFINE m == r.messages[r.at]
           messages == [r.messages EXCEPT ![r.at] = [m EXCEPT !.out = out]]
           at == NextResult(r.messages, r.at + 1)
<1>1. /\ r = [pc |-> r.pc, config |-> r.config, raw |-> r.raw, messages |-> r.messages,
              out |-> r.out, at |-> r.at]
      /\ r.messages \in Seq(Messages)
    BY DEF RequestInv
<1>2. r.at \in 1 .. Len(r.messages) /\ m = [kind |-> "result", call |-> m.call, out |-> m.out]
    BY AtResult
<1>3. [m EXCEPT !.out = out] = [kind |-> "result", call |-> m.call, out |-> out]
    BY <1>2
<1>4. /\ Len(messages) = Len(r.messages)
      /\ messages[r.at] = [kind |-> "result", call |-> m.call, out |-> out]
      /\ \A i \in 1 .. Len(r.messages) : i # r.at => messages[i] = r.messages[i]
    BY <1>1, <1>2, <1>3
<1>5. Replaced(r, out) =
          [[[[r EXCEPT !.messages = messages] EXCEPT !.pc = "lookup"] EXCEPT !.at = at]
              EXCEPT !.out = <<>>]
    BY Zenon DEF Replaced
<1> HIDE DEF messages, at
<1>6. Replaced(r, out) = [pc |-> "lookup", config |-> r.config, raw |-> r.raw,
                          messages |-> messages, out |-> <<>>, at |-> at]
    BY <1>1, <1>5
<1> QED BY <1>4, <1>6 DEF at

\* An output of the same text still stands for its result.
LEMMA ReplacedTells ==
    ASSUME NEW r, RequestInv(r), r.at <= Len(r.messages), NEW h, RequestTells(r, h),
           NEW out, out.text = r.messages[r.at].out.text
    PROVE  RequestTells(Replaced(r, out), h)
<1> DEFINE next == Replaced(r, out)
           old == r.messages[r.at]
<1>1. /\ next.pc = "lookup" /\ next.raw = r.raw /\ Len(next.messages) = Len(r.messages)
      /\ next.messages[r.at] = [kind |-> "result", call |-> old.call, out |-> out]
      /\ \A i \in 1 .. Len(r.messages) : i # r.at => next.messages[i] = r.messages[i]
    BY ReplacedIs
<1> HIDE DEF next
<1>2. r.at \in 1 .. Len(r.messages) /\ old.kind = "result" /\ Len(r.messages) = Len(r.raw)
    BY AtResult DEF RequestInv
<1>3. Begins(r.raw, h) /\ \A k \in 1 .. Len(r.raw) : Says(r.messages[k], r.raw[k])
    BY DEF RequestTells, Tells
<1>4. Says(next.messages[r.at], r.raw[r.at])
    BY <1>1, <1>2, <1>3 DEF Says
<1>5. \A k \in 1 .. Len(r.raw) : Says(next.messages[k], r.raw[k])
    BY <1>1, <1>2, <1>3, <1>4
<1>6. \A i \in 1 .. Len(r.raw) :
         next.messages[i].kind = r.messages[i].kind /\ next.messages[i].call = r.messages[i].call
    BY <1>1, <1>2
<1>7. ASSUME NEW k \in 1 .. Len(r.raw), r.raw[k].kind = "result"
      PROVE  /\ AnsweredBy(r.raw, k) \in 1 .. (k - 1)
             /\ Answered(next.messages, k) = {AnsweredBy(r.raw, k)}
    <2>1. /\ AnsweredBy(r.raw, k) \in 1 .. (k - 1)
          /\ Answered(r.messages, k) = {AnsweredBy(r.raw, k)}
        BY <1>7 DEF RequestTells, Tells
    <2>2. Len(r.raw) \in Nat
        BY <1>3 DEF Begins
    <2>3. \A i \in 1 .. (k - 1) : i \in 1 .. Len(r.raw)
        BY <2>2
    <2>4. Answered(next.messages, k) = Answered(r.messages, k)
        BY <1>6, <2>3 DEF Answered
    <2> QED BY <2>1, <2>4
<1>8. ASSUME OwnIds PROVE \A k \in 1 .. Len(r.raw) : Stands(next.messages[k], r.raw[k])
    <2>1. \A k \in 1 .. Len(r.raw) : Stands(r.messages[k], r.raw[k])
        BY <1>8 DEF RequestTells, Tells
    <2>2. Stands(next.messages[r.at], r.raw[r.at])
        BY <1>1, <1>2, <2>1 DEF Stands
    <2> QED BY <1>1, <1>2, <2>1, <2>2
<1> QED BY <1>1, <1>2, <1>3, <1>5, <1>7, <1>8 DEF RequestTells, Tells, next

\* An output that is made of the text of a result has it.
LEMMA OutputTells ==
    ASSUME NEW r, RequestInv(r), r.at <= Len(r.messages), NEW h, RequestTells(r, h),
           NEW out \in Outs, out.text = r.messages[r.at].out.text, NEW pc \in {"dedup", "store"}
    PROVE  RequestTells([r EXCEPT !.out = out, !.pc = pc], h)
<1> DEFINE next == [r EXCEPT !.out = out, !.pc = pc]
<1>1. next = [pc |-> pc, config |-> r.config, raw |-> r.raw, messages |-> r.messages,
              out |-> out, at |-> r.at]
    BY OutputKeeps
<1> HIDE DEF next
<1> QED BY <1>1 DEF RequestTells, next

\* What the memo holds was there before, or is the new entry.
LEMMA MemoizedHolds ==
    ASSUME NEW state, MemoInv(state), NEW session \in Sessions, NEW call \in Nat,
           NEW entry, entry.out \in Outs
    PROVE  LET next == Memoized(state, session, call, entry)
           IN  \A s \in Held(next) : \A c \in DOMAIN next.of[s].entries :
                  \/ s = session /\ c = call /\ next.of[s].entries[c] = entry
                  \/ /\ s \in Held(state) /\ c \in DOMAIN state.of[s].entries
                     /\ next.of[s].entries[c] = state.of[s].entries[c]
<1> DEFINE oversized == Bytes(entry.out) > MaxMemoOutput
           opened == Opened(state, session, EmptyMemo)
           before == opened.of[session]
           cleared == Forgotten(before, call)
           added == [entries |-> [c \in DOMAIN cleared.entries \cup {call} |->
                                     IF c = call THEN entry ELSE cleared.entries[c]],
                     order |-> Append(cleared.order, call),
                     total |-> cleared.total + Bytes(entry.out)]
           value == IF oversized THEN cleared ELSE Evicted(added)
           next == Trimmed([opened EXCEPT !.of[session] = value], session)
<1>1. Memoized(state, session, call, entry) =
          IF oversized /\ session \notin Held(state) THEN state ELSE next
    BY DEF Memoized
<1> HIDE DEF opened, value
<1>2. /\ before = IF session \in Held(state) THEN state.of[session] ELSE EmptyMemo
      /\ \A s \in Held(next) :
            \/ s = session /\ next.of[s] = value
            \/ s \in Held(state) /\ next.of[s] = state.of[s]
    BY SessionKept, Zenon DEF MemoInv, opened
<1>3. Book(before)
    BY <1>2, EmptyBook DEF MemoInv
<1>4. DOMAIN EmptyMemo.entries = {}
    BY DEF EmptyMemo
<1> HIDE DEF before
<1>5. /\ Book(cleared) /\ call \notin DOMAIN cleared.entries
      /\ \A c \in DOMAIN cleared.entries :
            c \in DOMAIN before.entries /\ cleared.entries[c] = before.entries[c]
    <2>1. Book(cleared) /\ call \notin DOMAIN cleared.entries
        BY <1>3, ForgottenKeeps
    <2> QED BY <2>1 DEF Forgotten
<1> HIDE DEF cleared
<1>6. Book(added)
    <2>1. call \in Nat \ DOMAIN cleared.entries /\ Book(cleared) /\ entry.out \in Outs
        BY <1>5
    <2> QED BY <2>1, AddedKeeps, ZenonT(60)
<1>7. ASSUME NEW c \in DOMAIN added.entries
      PROVE  \/ c = call /\ added.entries[c] = entry
             \/ c \in DOMAIN cleared.entries /\ added.entries[c] = cleared.entries[c]
    OBVIOUS
<1> HIDE DEF added
<1>8. ASSUME NEW c \in DOMAIN Evicted(added).entries
      PROVE  c \in DOMAIN added.entries /\ Evicted(added).entries[c] = added.entries[c]
    BY <1>6, EvictedKeeps
<1>9. ASSUME NEW c \in DOMAIN value.entries
      PROVE  \/ c = call /\ value.entries[c] = entry
             \/ c \in DOMAIN before.entries /\ value.entries[c] = before.entries[c]
    BY <1>5, <1>7, <1>8 DEF value
<1>10. ASSUME NEW s \in Held(next), NEW c \in DOMAIN next.of[s].entries
       PROVE  \/ s = session /\ c = call /\ next.of[s].entries[c] = entry
              \/ /\ s \in Held(state) /\ c \in DOMAIN state.of[s].entries
                 /\ next.of[s].entries[c] = state.of[s].entries[c]
    <2> HIDE DEF next
    <2>1. CASE s = session /\ next.of[s] = value
        BY <1>2, <1>4, <1>9, <2>1
    <2>2. CASE s \in Held(state) /\ next.of[s] = state.of[s]
        BY <2>2
    <2> QED BY <1>2, <2>1, <2>2
<1> HIDE DEF next, oversized
<1> QED BY <1>1, <1>10

-----------------------------------------------------------------------------
(* What is kept of a history is invariant.                                 *)

LEMMA InitTells == Init => TellInv
<1> SUFFICES ASSUME Init PROVE TellInv
    OBVIOUS
<1>1. history = <<>> /\ sent = <<>> /\ counter = 0 /\ memo = NoSessions
      /\ request = [w \in Workers |-> NoRequest]
    BY DEF Init
<1>2. MaxItems \in Nat /\ MaxRequests \in Nat
    BY ProxySessionAssumption
<1>3. InFlight = {}
    BY <1>1 DEF InFlight, NoRequest
<1>4. HistoryInv
    <2>1. \A id \in RawIds : Count(history, "call", id, 0) = 0 /\ Count(history, "result", id, 0) = 0
        BY CountIs
    <2>2. Balanced(history)
        BY <1>1, <2>1 DEF Balanced
    <2> QED BY <1>1, <1>2, <2>2 DEF HistoryInv, Well
<1>5. Drawers = 0 /\ IsFiniteSet(InFlight)
    BY <1>1, <1>3, FS_EmptySet DEF Drawers
<1>6. DrawInv
    BY <1>1, <1>2, <1>5 DEF DrawInv
<1>7. MemoTexts(memo)
    BY <1>1, NoneHeld DEF MemoTexts
<1>8. sent \in Seq(Sent) /\ Len(sent) = 0
    BY <1>1
<1> QED BY <1>3, <1>4, <1>6, <1>7, <1>8 DEF TellInv

\* Requests that draw ids are counted.
LEMMA DrawersAre ==
    ASSUME OwnIds, TellInv
    PROVE  /\ Len(sent) \in Nat /\ Cardinality(InFlight) \in Nat /\ Drawers \in Nat
           /\ counter <= MaxItems * Drawers /\ Drawers <= MaxRequests /\ IsFiniteSet(InFlight)
<1>1. Len(sent) \in Nat
    BY DEF TellInv
<1>2. IsFiniteSet(InFlight) /\ counter <= MaxItems * Drawers /\ Drawers <= MaxRequests
    BY DEF TellInv, DrawInv
<1>3. Cardinality(InFlight) \in Nat
    BY <1>2, FS_CardinalityType
<1> QED BY <1>1, <1>2, <1>3 DEF Drawers

\* One request more draws no more than one history more.
LEMMA RoomToDraw ==
    ASSUME NEW a \in Nat, NEW b \in Nat, NEW c \in Nat, b < c
    PROVE  a * b + a = a * (b + 1) /\ a * (b + 1) <= a * c /\ a * b \in Nat /\ a * (b + 1) \in Nat
<1>1. PICK d \in Nat : c = (b + 1) + d
    <2>1. c - (b + 1) \in Nat /\ c = (b + 1) + (c - (b + 1))
        OBVIOUS
    <2> QED BY <2>1
<1>2. a * c = a * (b + 1) + a * d /\ a * d \in Nat
    BY <1>1
<1> QED BY <1>2

\* A request that changes, or comes, is one that tells, and the others do not change.
LEMMA RequestStillTells ==
    ASSUME Inv, TellInv, NEW w \in Workers, NEW r, r.pc # "idle" => RequestTells(r, history),
           request' = [request EXCEPT ![w] = r], UNCHANGED history
    PROVE  \A v \in InFlight' : RequestTells(request'[v], history')
<1>1. DOMAIN request = Workers
    BY DEF Inv
<1>2. ASSUME NEW v \in InFlight' PROVE RequestTells(request'[v], history')
    <2>1. v \in Workers /\ request'[v].pc # "idle"
        BY DEF InFlight
    <2>2. CASE v = w
        BY <1>1, <2>1, <2>2
    <2>3. CASE v # w
        <3>1. request'[v] = request[v]
            BY <1>1, <2>1, <2>3
        <3>2. v \in InFlight
            BY <2>1, <3>1 DEF InFlight
        <3> QED BY <3>1, <3>2 DEF TellInv
    <2> QED BY <2>2, <2>3
<1> QED BY <1>2

\* A request that stays in flight draws nothing.
LEMMA StaysInFlight ==
    ASSUME Inv, TellInv, NEW w \in InFlight, NEW r, r.pc # "idle",
           request' = [request EXCEPT ![w] = r], UNCHANGED <<counter, sent>>
    PROVE  OwnIds => DrawInv'
<1>1. DOMAIN request = Workers /\ w \in Workers
    BY DEF Inv, InFlight
<1>2. InFlight' = InFlight
    BY <1>1 DEF InFlight
<1>3. Drawers' = Drawers
    BY <1>2 DEF Drawers
<1> QED BY <1>2, <1>3 DEF TellInv, DrawInv

\* The parts of the invariant that a request's steps leave alone.
LEMMA RestTells ==
    ASSUME TellInv, UNCHANGED <<history, sent>>
    PROVE  HistoryInv' /\ sent' \in Seq(Sent) /\ \A i \in 1 .. Len(sent') : SentTells(sent'[i], history')
BY DEF TellInv, HistoryInv

LEMMA ClientTells ==
    ASSUME Inv, TellInv, Client
    PROVE  TellInv'
<1>1. HistoryInv'
    BY ClientKeepsHistory DEF TellInv
<1>2. PICK item \in Items : Say(item)
    BY ClientKeepsHistory DEF TellInv
<1>3. history' = Append(history, item) /\ UNCHANGED <<counter, dedup, memo, request, sent>>
    BY <1>2 DEF Say
<1>4. (OwnIds => DrawInv') /\ InFlight' = InFlight /\ MemoTexts(memo)' /\ sent' \in Seq(Sent)
    BY <1>3 DEF TellInv, DrawInv, Drawers, InFlight, MemoTexts
<1>5. ASSUME NEW w \in InFlight' PROVE RequestTells(request'[w], history')
    <2>1. RequestTells(request[w], history)
        BY <1>4 DEF TellInv
    <2>2. Begins(request[w].raw, history')
        BY <1>3, <2>1, BeginsLonger DEF RequestTells
    <2> QED BY <1>3, <2>1, <2>2 DEF RequestTells
<1>6. ASSUME NEW i \in 1 .. Len(sent') PROVE SentTells(sent'[i], history')
    <2>1. SentTells(sent[i], history)
        BY <1>3 DEF TellInv
    <2>2. Begins(sent[i].raw, history')
        BY <1>3, <2>1, BeginsLonger DEF SentTells
    <2> QED BY <1>3, <2>1, <2>2 DEF SentTells
<1> QED BY <1>1, <1>4, <1>5, <1>6 DEF TellInv

LEMMA ReceiveTells ==
    ASSUME Inv, TellInv, NEW w \in Workers, NEW config \in Configs, Receive(w, config)
    PROVE  /\ TellInv'
           /\ \A k \in 1 .. Len(history) : history[k].kind = "result" =>
                 request'[w].messages[k].out = Verbatim(history[k].text)
<1> DEFINE parse == Converted(history, counter)
           at == IF config.mode = "disabled" THEN Len(history) + 1
                                             ELSE NextResult(parse.messages, 1)
           r == [pc |-> "lookup", config |-> config, raw |-> history,
                 messages |-> parse.messages, out |-> <<>>, at |-> at]
<1>1. /\ request' = [request EXCEPT ![w] = r] /\ counter' = parse.counter
      /\ UNCHANGED <<history, dedup, memo, sent>> /\ request[w].pc = "idle"
      /\ Drawers < MaxRequests
    BY Zenon DEF Receive, Drawers
<1>2. /\ history \in Seq(Items) /\ Balanced(history) /\ Len(history) <= MaxItems /\ counter \in Nat
      /\ MaxItems \in Nat /\ MaxRequests \in Nat /\ Len(history) \in Nat /\ DOMAIN request = Workers
    BY ProxySessionAssumption DEF Inv, TellInv, HistoryInv
<1>3. Parsed(parse, Len(history)) /\ Pairs(parse, history, Len(history))
    BY <1>2, ConvertedIs, ConvertedPairs
<1>4. ASSUME OwnIds
      PROVE  /\ MaxItems * (Drawers + 1) \in Nat /\ counter + Len(history) <= MaxItems * (Drawers + 1)
             /\ Converts(parse, history, Len(history), counter)
    <2>1. MaxItems * Drawers + MaxItems = MaxItems * (Drawers + 1)
          /\ MaxItems * (Drawers + 1) <= Drawn
          /\ MaxItems * Drawers \in Nat /\ MaxItems * (Drawers + 1) \in Nat
        BY <1>1, <1>2, <1>4, DrawersAre, RoomToDraw DEF Drawn
    <2>2. counter + Len(history) <= MaxItems * (Drawers + 1) /\ counter + Len(history) <= Drawn
        <3>1. counter <= MaxItems * Drawers
            BY <1>4, DrawersAre
        <3> QED BY <1>2, <2>1, <3>1, DrawnIs
    <2>3. Well(history)
        BY <1>4 DEF TellInv, HistoryInv
    <2> QED BY <1>2, <1>4, <2>1, <2>2, <2>3, ConvertedTells
<1> HIDE DEF parse, at
<1>5. ASSUME NEW k \in 1 .. Len(history), history[k].kind = "result"
      PROVE  /\ AnsweredBy(history, k) \in 1 .. (k - 1)
             /\ Answered(parse.messages, k) = {AnsweredBy(history, k)}
    BY <1>2, <1>3, <1>5, PairedIs
<1>6. /\ Len(parse.messages) = Len(history)
      /\ \A k \in 1 .. Len(history) : Says(parse.messages[k], history[k])
      /\ \A k \in 1 .. Len(history) : history[k].kind = "result" =>
             parse.messages[k].out = Verbatim(history[k].text)
    BY <1>3 DEF Parsed, Pairs
<1>7. Tells(parse.messages, history)
    BY <1>4, <1>5, <1>6 DEF Tells, Converts
<1>8. Begins(history, history)
    BY <1>2 DEF Begins
<1>9. RequestTells(r, history)
    BY <1>7, <1>8 DEF RequestTells
<1>10. \A v \in InFlight' : RequestTells(request'[v], history')
    <2> HIDE DEF r
    <2> QED BY <1>1, <1>9, RequestStillTells
<1>11. InFlight' = InFlight \cup {w} /\ w \notin InFlight
    <2>1. r.pc # "idle"
        OBVIOUS
    <2> HIDE DEF r
    <2> QED BY <1>1, <1>2, <2>1 DEF InFlight
<1>12. ASSUME OwnIds PROVE IsFiniteSet(InFlight') /\ Drawers' = Drawers + 1
    <2>1. IsFiniteSet(InFlight') /\ Cardinality(InFlight') = Cardinality(InFlight) + 1
        BY <1>11, <1>12, DrawersAre, FS_AddElement
    <2> QED BY <1>1, <1>12, <2>1, DrawersAre DEF Drawers
<1>13. ASSUME OwnIds PROVE DrawInv'
    <2>1. counter' <= counter + Len(history) /\ counter' \in Int
        BY <1>1, <1>2, <1>4, <1>13 DEF Converts
    <2>2. counter' <= MaxItems * (Drawers + 1)
        BY <1>2, <1>4, <1>13, <2>1
    <2>3. Drawers' <= MaxRequests
        BY <1>1, <1>2, <1>12, <1>13, DrawersAre
    <2> QED BY <1>12, <1>13, <2>2, <2>3 DEF DrawInv
<1>14. MemoTexts(memo)'
    BY <1>1 DEF TellInv
<1>15. HistoryInv' /\ sent' \in Seq(Sent) /\ \A i \in 1 .. Len(sent') : SentTells(sent'[i], history')
    BY <1>1, RestTells
<1>16. TellInv'
    BY <1>10, <1>13, <1>14, <1>15 DEF TellInv
<1>17. request'[w].messages = parse.messages
    BY <1>1, <1>2
<1> QED BY <1>6, <1>16, <1>17

\* A request in flight, and what its steps need of it.
LEMMA InFlightTells ==
    ASSUME Inv, TellInv, NEW w \in Workers, request[w].pc # "idle"
    PROVE  w \in InFlight /\ RequestInv(request[w]) /\ RequestTells(request[w], history)
<1>1. w \in InFlight
    BY DEF InFlight
<1> QED BY <1>1, Busy DEF TellInv

\* After a result has been replaced the next one is looked at.
LEMMA ReplacedLooks ==
    ASSUME NEW r, RequestInv(r), r.at <= Len(r.messages), NEW out
    PROVE  Replaced(r, out).pc = "lookup"
<1> DEFINE next == Replaced(r, out)
           old == r.messages[r.at]
<1>1. /\ next.pc = "lookup" /\ next.raw = r.raw /\ Len(next.messages) = Len(r.messages)
      /\ next.messages[r.at] = [kind |-> "result", call |-> old.call, out |-> out]
      /\ \A i \in 1 .. Len(r.messages) : i # r.at => next.messages[i] = r.messages[i]
    BY ReplacedIs
<1> QED BY <1>1

LEMMA LookupTells ==
    ASSUME Inv, TellInv, NEW w \in Workers, Lookup(w)
    PROVE  TellInv'
<1> DEFINE r == request[w]
           m == r.messages[r.at]
           hit == Remembers(r) /\ MemoLookup(memo, r.config.session, m.call, m.out.text, r.config)
           found == memo.of[r.config.session].entries[m.call].out
           filtered == Filtered(m.out.text, r.config)
           next == IF hit THEN Replaced(r, found)
                   ELSE [r EXCEPT !.out = filtered, !.pc = "dedup"]
<1>1. /\ r.pc = "lookup" /\ r.at <= Len(r.messages)
      /\ request' = [request EXCEPT ![w] = next]
      /\ UNCHANGED <<history, counter, dedup, memo, sent>>
    BY Zenon DEF Lookup
<1>2. w \in InFlight /\ RequestInv(r) /\ RequestTells(r, history)
    <2>1. r.pc # "idle"
        BY <1>1, Zenon
    <2> QED BY <2>1, InFlightTells
<1>3. m.out.text \in Texts
    BY <1>1, <1>2, AtResult, Zenon
<1>4. RequestTells(next, history) /\ next.pc # "idle"
    <2>1. CASE hit
        <3>1. /\ r.config.session \in Held(memo)
              /\ m.call \in DOMAIN memo.of[r.config.session].entries
              /\ memo.of[r.config.session].entries[m.call].text = m.out.text
            BY <2>1, Zenon DEF MemoLookup
        <3>2. found.text = m.out.text
            BY <3>1, Zenon DEF TellInv, MemoTexts
        <3> HIDE DEF found, r, hit
        <3>3. RequestTells(Replaced(r, found), history)
            BY <1>1, <1>2, <3>2, ReplacedTells
        <3>4. Replaced(r, found).pc = "lookup"
            BY <1>1, <1>2, ReplacedLooks
        <3> QED BY <2>1, <3>3, <3>4
    <2>2. CASE ~hit
        <3>1. filtered \in Outs /\ filtered.text = m.out.text
            BY <1>2, <1>3, OutputsHaveLengths DEF RequestInv, Filtered
        <3> HIDE DEF filtered, r, hit
        <3> DEFINE changed == [r EXCEPT !.out = filtered, !.pc = "dedup"]
        <3>2. RequestTells(changed, history)
            BY <1>1, <1>2, <3>1, OutputTells
        <3>3. changed = [pc |-> "dedup", config |-> r.config, raw |-> r.raw,
                         messages |-> r.messages, out |-> filtered, at |-> r.at]
            BY <1>1, <1>2, <3>1, OutputKeeps
        <3> HIDE DEF changed
        <3>4. changed.pc = "dedup"
            BY <3>3
        <3> QED BY <2>2, <3>2, <3>4 DEF changed
    <2> QED BY <2>1, <2>2, Zenon
<1> HIDE DEF next
<1>5. \A v \in InFlight' : RequestTells(request'[v], history')
    BY <1>1, <1>4, RequestStillTells
<1>6. OwnIds => DrawInv'
    BY <1>1, <1>2, <1>4, StaysInFlight
<1>7. MemoTexts(memo)'
    BY <1>1 DEF TellInv
<1> QED BY <1>1, <1>5, <1>6, <1>7, RestTells DEF TellInv

LEMMA DeduplicateTells ==
    ASSUME Inv, TellInv, NEW w \in Workers, Deduplicate(w)
    PROVE  TellInv'
<1> DEFINE r == request[w]
           m == r.messages[r.at]
           first == DuplicateOf(dedup, r.config.session, m.call, ToolOf(r), r.out)
           reference == Reference(first, r.out.text)
           refers == Compares(r) /\ first # NoId /\ Bytes(reference) < Bytes(r.out)
           out == IF refers THEN reference ELSE r.out
           next == [r EXCEPT !.out = out, !.pc = "store"]
<1>1. /\ r.pc = "dedup" /\ UNCHANGED <<history, counter, memo, sent>>
      /\ request' = [request EXCEPT ![w].pc = "store",
                                    ![w].out = IF refers THEN reference ELSE @]
    BY Zenon DEF Deduplicate
<1>2. w \in InFlight /\ RequestInv(r) /\ RequestTells(r, history)
    <2>1. r.pc # "idle"
        BY <1>1
    <2> QED BY <2>1, InFlightTells
<1>3. /\ r.at <= Len(r.messages) /\ r.out \in Outs /\ r.out.text \in Texts
      /\ r.out.text = m.out.text
    BY <1>1, <1>2 DEF RequestInv, RequestTells, Outs, Outputs
<1>4. first \in Nat \cup {NoId}
    BY DuplicateIs DEF Inv
<1> HIDE DEF first
<1>5. out \in Outs /\ out.text = r.out.text
    <2>1. CASE refers
        BY <1>3, <1>4, <2>1, OutputsHaveLengths DEF Reference
    <2>2. CASE ~refers
        BY <1>3, <2>2
    <2> QED BY <2>1, <2>2
<1> HIDE DEF refers, reference
<1>6. request' = [request EXCEPT ![w] = next]
    <2>1. r = [pc |-> r.pc, config |-> r.config, raw |-> r.raw, messages |-> r.messages,
               out |-> r.out, at |-> r.at]
        BY <1>2, Zenon DEF RequestInv
    <2>2. w \in DOMAIN request
        BY DEF Inv
    <2> QED BY <1>1, <2>1, <2>2
<1> HIDE DEF out
<1>7. RequestTells(next, history) /\ next.pc = "store"
    <2> HIDE DEF r
    <2>1. RequestTells(next, history)
        BY <1>2, <1>3, <1>5, OutputTells
    <2>2. next = [pc |-> "store", config |-> r.config, raw |-> r.raw,
                  messages |-> r.messages, out |-> out, at |-> r.at]
        BY <1>2, <1>3, <1>5, OutputKeeps
    <2> HIDE DEF next
    <2> QED BY <2>1, <2>2
<1> HIDE DEF next
<1>8. \A v \in InFlight' : RequestTells(request'[v], history')
    BY <1>1, <1>6, <1>7, RequestStillTells
<1>9. OwnIds => DrawInv'
    BY <1>1, <1>2, <1>6, <1>7, StaysInFlight
<1>10. MemoTexts(memo)'
    BY <1>1 DEF TellInv
<1> QED BY <1>1, <1>8, <1>9, <1>10, RestTells DEF TellInv

LEMMA StoreTells ==
    ASSUME Inv, TellInv, NEW w \in Workers, Store(w)
    PROVE  TellInv'
<1> DEFINE r == request[w]
           m == r.messages[r.at]
           entry == [text |-> m.out.text, config |-> Fingerprint(r.config), out |-> r.out]
           state == Memoized(memo, r.config.session, m.call, entry)
           next == Replaced(r, r.out)
<1>1. /\ r.pc = "store" /\ UNCHANGED <<history, counter, dedup, sent>>
      /\ memo' = IF Remembers(r) THEN state ELSE memo
      /\ request' = [request EXCEPT ![w] = next]
    BY Zenon DEF Store
<1>2. w \in InFlight /\ RequestInv(r) /\ RequestTells(r, history)
    <2>1. r.pc # "idle"
        BY <1>1
    <2> QED BY <2>1, InFlightTells
<1>3. r.at <= Len(r.messages) /\ r.out \in Outs /\ r.out.text = m.out.text
    BY <1>1, <1>2 DEF RequestInv, RequestTells
<1>4. m.call \in Nat
    BY <1>2, <1>3, AtResult
<1>5. MemoInv(memo) /\ MemoTexts(memo)
    BY DEF Inv, TellInv
<1>6. entry.out \in Outs /\ entry.out.text = entry.text
    BY <1>3
<1> HIDE DEF entry
<1>7. MemoTexts(IF Remembers(r) THEN state ELSE memo)
    <2>1. CASE Remembers(r)
        <3>1. r.config.session \in Sessions
            BY <1>2, <2>1, SessionNamed
        <3> HIDE DEF r, m
        <3>2. \A s \in Held(state) : \A c \in DOMAIN state.of[s].entries :
                 \/ s = r.config.session /\ c = m.call /\ state.of[s].entries[c] = entry
                 \/ /\ s \in Held(memo) /\ c \in DOMAIN memo.of[s].entries
                    /\ state.of[s].entries[c] = memo.of[s].entries[c]
            BY <1>4, <1>5, <1>6, <3>1, MemoizedHolds
        <3> HIDE DEF state
        <3>3. MemoTexts(state)
            BY <1>5, <1>6, <3>2 DEF MemoTexts
        <3> QED BY <2>1, <3>3
    <2>2. CASE ~Remembers(r)
        BY <1>5, <2>2
    <2> QED BY <2>1, <2>2
<1> HIDE DEF state
<1>8. RequestTells(next, history) /\ next.pc = "lookup"
    <2> HIDE DEF r
    <2>1. RequestTells(next, history)
        BY <1>2, <1>3, ReplacedTells
    <2>2. next.pc = "lookup"
        BY <1>2, <1>3, ReplacedLooks
    <2> QED BY <2>1, <2>2
<1> HIDE DEF next
<1>9. \A v \in InFlight' : RequestTells(request'[v], history')
    BY <1>1, <1>8, RequestStillTells
<1>10. OwnIds => DrawInv'
    BY <1>1, <1>2, <1>8, StaysInFlight
<1>11. MemoTexts(memo')
    BY <1>1, <1>7
<1> QED BY <1>1, <1>9, <1>10, <1>11, RestTells DEF TellInv, MemoTexts

LEMMA ForwardTells ==
    ASSUME Inv, TellInv, NEW w \in Workers, Forward(w)
    PROVE  TellInv'
<1> DEFINE r == request[w]
           x == [config |-> r.config, raw |-> r.raw, messages |-> r.messages,
                 recorded |-> RecordedTools(r.raw, r.messages)]
<1>1. /\ r.pc = "lookup" /\ UNCHANGED <<history, counter, dedup, memo>>
      /\ sent' = Append(sent, x)
      /\ request' = [request EXCEPT ![w] = NoRequest]
    BY Zenon DEF Forward
<1>2. w \in InFlight /\ RequestInv(r) /\ RequestTells(r, history)
    <2>1. r.pc # "idle"
        BY <1>1
    <2> QED BY <2>1, InFlightTells
<1>3. x \in Sent
    <2>1. r.config \in Configs /\ r.raw \in Seq(Items) /\ r.messages \in Seq(Messages)
        BY <1>2 DEF RequestInv, RequestTells, Begins
    <2>2. x \in {[config |-> config, raw |-> raw, messages |-> messages,
                  recorded |-> RecordedTools(raw, messages)] :
                     config \in Configs, raw \in Seq(Items), messages \in Seq(Messages)}
        BY <2>1
    <2> QED BY <2>2 DEF Sent
<1>4. SentTells(x, history)
    BY <1>2 DEF RequestTells, SentTells
<1> HIDE DEF x
<1>5. /\ sent' \in Seq(Sent) /\ Len(sent') = Len(sent) + 1 /\ sent'[Len(sent) + 1] = x
      /\ \A i \in 1 .. Len(sent) : sent'[i] = sent[i]
    BY <1>1, <1>3, AppendProperties DEF TellInv
<1>6. \A i \in 1 .. Len(sent') : SentTells(sent'[i], history')
    <2>1. \A i \in 1 .. Len(sent') : i \in 1 .. Len(sent) \/ i = Len(sent) + 1
        BY <1>5 DEF TellInv
    <2> QED BY <1>1, <1>4, <1>5, <2>1 DEF TellInv
<1>7. NoRequest.pc = "idle" /\ DOMAIN request = Workers
    BY DEF Inv, NoRequest
<1>8. InFlight' = InFlight \ {w}
    BY <1>1, <1>7 DEF InFlight
<1>9. ASSUME OwnIds PROVE IsFiniteSet(InFlight') /\ Drawers' = Drawers
    <2>1. IsFiniteSet(InFlight') /\ Cardinality(InFlight') = Cardinality(InFlight) - 1
        BY <1>2, <1>8, <1>9, DrawersAre, FS_RemoveElement
    <2> QED BY <1>5, <1>9, <2>1, DrawersAre DEF Drawers
<1>10. OwnIds => DrawInv'
    BY <1>1, <1>9 DEF TellInv, DrawInv
<1> DEFINE none == NoRequest
<1>11. none.pc # "idle" => RequestTells(none, history)
    BY <1>7
<1> HIDE DEF none
<1>12. \A v \in InFlight' : RequestTells(request'[v], history')
    BY <1>1, <1>11, RequestStillTells DEF none
<1>13. HistoryInv' /\ MemoTexts(memo)'
    BY <1>1 DEF TellInv, HistoryInv
<1> QED BY <1>5, <1>6, <1>10, <1>12, <1>13 DEF TellInv

LEMMA RestartTells ==
    ASSUME TellInv, Restart
    PROVE  TellInv'
<1>1. /\ UNCHANGED <<history, sent>> /\ counter' = 0 /\ memo' = NoSessions
      /\ request' = [w \in Workers |-> NoRequest]
    BY DEF Restart
<1>2. InFlight' = {}
    BY <1>1 DEF InFlight, NoRequest
<1>3. IsFiniteSet(InFlight') /\ Cardinality(InFlight') = 0
    BY <1>2, FS_EmptySet
<1>4. MaxItems \in Nat /\ MaxRequests \in Nat
    BY ProxySessionAssumption
<1>5. ASSUME OwnIds PROVE Drawers' = Len(sent) /\ Len(sent) \in Nat /\ Len(sent) <= MaxRequests
    BY <1>1, <1>3, <1>4, <1>5, DrawersAre DEF Drawers
<1>6. ASSUME OwnIds PROVE DrawInv'
    <2>1. 0 <= MaxItems * Len(sent)
        BY <1>4, <1>5, <1>6
    <2> QED BY <1>1, <1>3, <1>5, <1>6, <2>1 DEF DrawInv
<1>7. MemoTexts(memo)'
    BY <1>1, NoneHeld DEF MemoTexts
<1>8. HistoryInv' /\ sent' \in Seq(Sent) /\ \A i \in 1 .. Len(sent') : SentTells(sent'[i], history')
    BY <1>1, RestTells
<1> QED BY <1>2, <1>6, <1>7, <1>8 DEF TellInv

LEMMA NextTells == Inv /\ TellInv /\ [Next]_vars => TellInv'
<1> SUFFICES ASSUME Inv, TellInv, [Next]_vars PROVE TellInv'
    OBVIOUS
<1>1. CASE Client
    BY <1>1, ClientTells
<1>2. CASE Restart
    BY <1>2, RestartTells
<1>3. ASSUME NEW w \in Workers, NEW config \in Configs, Receive(w, config) PROVE TellInv'
    BY <1>3, ReceiveTells
<1>4. ASSUME NEW w \in Workers, Compress(w) PROVE TellInv'
    BY <1>4, LookupTells, DeduplicateTells, StoreTells DEF Compress
<1>5. ASSUME NEW w \in Workers, Forward(w) PROVE TellInv'
    BY <1>5, ForwardTells
<1>6. CASE UNCHANGED vars
    BY <1>6 DEF vars, TellInv, HistoryInv, DrawInv, Drawers, InFlight, MemoTexts
<1> QED BY <1>1, <1>2, <1>3, <1>4, <1>5, <1>6 DEF Next

-----------------------------------------------------------------------------
(* Completed steps.                                                        *)

LEMMA TellInvariant == Spec => [](Inv /\ TellInv)
<1>1. Init => Inv /\ TellInv
    BY InitInv, InitTells
<1>2. Inv /\ TellInv /\ [Next]_vars => (Inv /\ TellInv)'
    BY NextInv, NextTells
<1> QED BY <1>1, <1>2, PTL DEF Spec

\* The message of a result answers the message of its call.
LEMMA AnsweredIs ==
    ASSUME NEW raw \in Seq(Items), Well(raw), NEW messages,
           \A i \in 1 .. Len(raw) : Stands(messages[i], raw[i]),
           NEW k \in 1 .. Len(raw), raw[k].kind = "result"
    PROVE  /\ messages[k].kind = "result" /\ messages[k].call = raw[k].id
           /\ messages[k].out.text = raw[k].text
           /\ Answered(messages, k) = {CallOf(raw, k)}
           /\ Max(Answered(messages, k)) = CallOf(raw, k)
           /\ messages[CallOf(raw, k)].tool = raw[CallOf(raw, k)].tool
<1> DEFINE j == CallOf(raw, k)
<1>1. /\ j \in 1 .. (k - 1) /\ raw[j].kind = "call" /\ raw[j].id = raw[k].id
      /\ \A i \in 1 .. Len(raw) : raw[i].kind = "call" /\ raw[i].id = raw[k].id => i = j
    BY CallOfIs
<1> HIDE DEF j
<1>2. raw[k].id \in RawIds /\ raw[k].id # NoId
    BY ItemIs, RawIdIs
<1>3. \A i \in 1 .. Len(raw) : Stands(messages[i], raw[i])
    OBVIOUS
<1>4. j \in 1 .. Len(raw) /\ \A i \in 1 .. (k - 1) : i \in 1 .. Len(raw)
    BY <1>1
<1>5. /\ messages[k].kind = "result" /\ messages[k].call = raw[k].id
      /\ messages[k].out.text = raw[k].text
    BY <1>3 DEF Stands
<1>6. messages[j].kind = "call" /\ messages[j].tool = raw[j].tool /\ messages[j].call = raw[k].id
    BY <1>1, <1>2, <1>3, <1>4 DEF Stands
<1>7. ASSUME NEW i \in 1 .. (k - 1), messages[i].kind = "call", messages[i].call = raw[k].id
      PROVE  i = j
    BY <1>1, <1>2, <1>3, <1>4, <1>7 DEF Stands
<1>8. Answered(messages, k) = {j}
    BY <1>1, <1>5, <1>6, <1>7 DEF Answered
<1>9. Max({j}) = j
    <2>1. {j} \in SUBSET (1 .. Len(raw)) /\ Len(raw) \in Nat /\ {j} # {}
        BY <1>4
    <2>2. Max({j}) \in {j}
        BY <2>1, LastPlace
    <2> QED BY <2>2
<1> QED BY <1>5, <1>6, <1>8, <1>9 DEF j

\* The status of a result that speaks for itself is the one that is read for it.
LEMMA OwnStatusIs ==
    ASSUME NEW x, x.raw \in Seq(Items), NEW k \in 1 .. Len(x.raw), x.raw[k].kind = "result",
           SpeaksForItself(x, k)
    PROVE  /\ x.messages[k].call # NoId
           /\ RawStatus(x.raw, x.messages[k].call) = x.raw[k].status
<1> DEFINE raw == x.raw
           named == {i \in DOMAIN raw : raw[i].kind = "result" /\ raw[i].id = raw[k].id}
<1>1. raw[k].id # NoId /\ x.messages[k].call = raw[k].id
    BY ItemIs, RawIdIs DEF SpeaksForItself
<1>2. DOMAIN raw = 1 .. Len(raw) /\ Len(raw) \in Nat
    OBVIOUS
<1>3. k \in named /\ named \in SUBSET (1 .. Len(raw))
    BY <1>2
<1>4. ASSUME NEW l \in named PROVE l <= k
    <2>1. l \in 1 .. Len(raw) /\ raw[l].kind = "result" /\ raw[l].id = raw[k].id
        BY <1>3
    <2>2. l \notin (k + 1) .. Len(raw)
        BY <2>1 DEF SpeaksForItself
    <2> QED BY <1>2, <2>1, <2>2
<1> HIDE DEF named
<1>5. named \in SUBSET Nat /\ k \in Nat
    BY <1>2, <1>3
<1>6. ASSUME NEW m \in named, \A l \in named : m >= l PROVE m = k
    <2>1. m >= k /\ m <= k /\ m \in Nat /\ k \in Nat
        BY <1>3, <1>4, <1>5, <1>6
    <2> QED BY <2>1
<1>7. \A l \in named : k >= l
    BY <1>4, <1>5
<1>8. Max(named) = k
    BY <1>3, <1>6, <1>7, Zenon DEF Max
<1>9. RawStatus(raw, raw[k].id) = raw[Max(named)].status
    BY <1>1, <1>3 DEF RawStatus, named
<1> QED BY <1>1, <1>8, <1>9

\* Each result is judged for the tool of the call it answers, whatever ids a client uses
\* and the conversion gives: a tool counts as completed when a result of it that speaks for
\* itself tells so, and when it counts, a result of it tells so or has lost what it tells
\* (record_completed_proxy_tool_results).
THEOREM StepsAreTold == Spec => []StepsTold
<1>1. Inv /\ TellInv => StepsTold
    <2> SUFFICES ASSUME Inv, TellInv, NEW i \in DOMAIN sent, NEW tool \in Tools
                 PROVE  LET s == sent[i]
                            results == ResultsOf(s.raw, tool)
                        IN  /\ (\E k \in results : TellsDone(s.raw[k]) /\ SpeaksForItself(s, k))
                                   => tool \in s.recorded
                            /\ tool \in s.recorded =>
                                   \E k \in results : \/ TellsDone(s.raw[k])
                                                      \/ PrefixHidden(s, k)
                                                      \/ ~SpeaksForItself(s, k)
        BY DEF StepsTold
    <2> DEFINE s == sent[i]
               raw == s.raw
               messages == s.messages
    <2>1. s \in Sent /\ SentTells(s, history)
        BY DEF TellInv
    <2>2. /\ raw \in Seq(Items) /\ messages \in Seq(Messages)
          /\ s.recorded = RecordedTools(raw, messages)
        BY <2>1 DEF Sent
    <2>3. Tells(messages, raw) /\ Len(messages) = Len(raw)
        BY <2>1 DEF SentTells, Tells
    <2> HIDE DEF s
    <2>4. DOMAIN raw = 1 .. Len(raw) /\ DOMAIN messages = 1 .. Len(raw)
        BY <2>2, <2>3
    <2>5. ASSUME NEW k \in 1 .. Len(raw)
          PROVE  messages[k].kind = raw[k].kind
        BY <2>3 DEF Tells, Says
    <2>6. ASSUME NEW k \in 1 .. Len(raw), raw[k].kind = "result"
          PROVE  /\ Answered(messages, k) # {}
                 /\ messages[k].out.text = raw[k].text
                 /\ messages[Max(Answered(messages, k))].tool = raw[AnsweredBy(raw, k)].tool
        <3> DEFINE j == AnsweredBy(raw, k)
        <3>1. j \in 1 .. (k - 1) /\ Answered(messages, k) = {j}
            BY <2>3, <2>6 DEF Tells
        <3> HIDE DEF j
        <3>2. j \in 1 .. Len(raw) /\ Len(raw) \in Nat
            BY <2>2, <3>1
        <3>3. Max({j}) \in {j}
            BY <3>2, LastPlace
        <3>4. messages[j].kind = "call"
            BY <3>1 DEF Answered
        <3>5. messages[j].tool = raw[j].tool /\ messages[k].out.text = raw[k].text
            BY <2>3, <2>5, <2>6, <3>2, <3>4 DEF Tells, Says
        <3> QED BY <3>1, <3>3, <3>5 DEF j
    <2>7. ASSUME NEW k \in ResultsOf(raw, tool), TellsDone(raw[k]), SpeaksForItself(s, k)
          PROVE  tool \in RecordedTools(raw, messages)
        <3>1. k \in 1 .. Len(raw) /\ raw[k].kind = "result" /\ raw[AnsweredBy(raw, k)].tool = tool
            BY <2>4 DEF ResultsOf
        <3>2. messages[k].call # NoId /\ RawStatus(raw, messages[k].call) = raw[k].status
            BY <2>2, <2>7, <3>1, OwnStatusIs
        <3>3. Succeeded(RawStatus(raw, messages[k].call), messages[k].out)
            BY <2>6, <2>7, <3>1, <3>2 DEF Succeeded, HasErrorPrefix, TellsDone
        <3> QED BY <2>4, <2>5, <2>6, <3>1, <3>2, <3>3 DEF RecordedTools
    <2>8. ASSUME tool \in RecordedTools(raw, messages)
          PROVE  \E k \in ResultsOf(raw, tool) :
                    TellsDone(raw[k]) \/ PrefixHidden(s, k) \/ ~SpeaksForItself(s, k)
        <3>1. PICK k \in DOMAIN messages :
                  /\ messages[k].kind = "result"
                  /\ Succeeded(RawStatus(raw, messages[k].call), messages[k].out)
                  /\ tool = messages[Max(Answered(messages, k))].tool
            BY <2>8 DEF RecordedTools
        <3>2. k \in 1 .. Len(raw) /\ raw[k].kind = "result"
            BY <2>4, <2>5, <3>1
        <3>3. k \in ResultsOf(raw, tool)
            BY <2>4, <2>6, <3>1, <3>2 DEF ResultsOf
        <3>4. ASSUME SpeaksForItself(s, k)
              PROVE  TellsDone(raw[k]) \/ PrefixHidden(s, k)
            <4>1. Succeeded(raw[k].status, messages[k].out)
                BY <2>2, <3>1, <3>2, <3>4, OwnStatusIs
            <4>2. messages[k].out.text = raw[k].text
                BY <2>6, <3>2
            <4> QED BY <4>1, <4>2 DEF Succeeded, HasErrorPrefix, TellsDone, PrefixHidden
        <3> QED BY <3>3, <3>4
    <2> QED BY <2>2, <2>7, <2>8 DEF s
<1> QED BY <1>1, TellInvariant, PTL

-----------------------------------------------------------------------------
(* What a result of a history becomes, whatever is done beside it.  Under  *)
(* OwnIds and Roomy it depends on the history up to the result and on the  *)
(* configuration alone.                                                    *)

\* The tool a result is of.
Tool(h, k) == h[CallOf(h, k)].tool

\* The results up to one that have the same text of the same tool, and the first of them.
Repeated(h, k) ==
    {j \in 1 .. k : h[j].kind = "result" /\ h[j].text = h[k].text /\ Tool(h, j) = Tool(h, k)}

FirstOf(h, k) == Min(Repeated(h, k))

\* Whether a configuration compares outputs.
Shares(config) == config.dedup /\ config.session # NoSession

\* What is sent for a result.
Made(h, k, config) ==
    LET text == h[k].text
        plain == Filtered(text, config)
        first == FirstOf(h, k)
    IN  IF config.mode = "disabled" THEN Verbatim(text)
        ELSE IF Shares(config) /\ first # k /\ ReferenceBytes < Bytes(plain)
             THEN Reference(h[first].id, text)
             ELSE plain

\* The first result that repeats one is no later, and the same for all that do.
LEMMA FirstOfIs ==
    ASSUME NEW h \in Seq(Items), NEW k \in 1 .. Len(h), h[k].kind = "result"
    PROVE  /\ FirstOf(h, k) \in 1 .. k
           /\ h[FirstOf(h, k)].kind = "result" /\ h[FirstOf(h, k)].text = h[k].text
           /\ Tool(h, FirstOf(h, k)) = Tool(h, k)
           /\ \A j \in 1 .. Len(h) :
                 h[j].kind = "result" /\ h[j].text = h[k].text /\ Tool(h, j) = Tool(h, k)
                     => FirstOf(h, j) = FirstOf(h, k)
<1>1. ASSUME NEW i \in 1 .. Len(h), h[i].kind = "result"
      PROVE  /\ FirstOf(h, i) \in Repeated(h, i) /\ FirstOf(h, i) \in Nat
             /\ \A l \in Repeated(h, i) : FirstOf(h, i) <= l
    <2>1. Repeated(h, i) \in SUBSET Nat /\ i \in Repeated(h, i)
        BY <1>1 DEF Repeated
    <2>2. \E n \in Repeated(h, i) : \A m \in Repeated(h, i) : n <= m
        BY <2>1, LeastNatural
    <2>3. FirstOf(h, i) \in Repeated(h, i) /\ \A l \in Repeated(h, i) : FirstOf(h, i) <= l
        BY <2>2 DEF FirstOf, Min
    <2> QED BY <2>1, <2>3
<1>2. ASSUME NEW i \in 1 .. Len(h), NEW j \in 1 .. Len(h), i <= j,
             h[i].kind = "result", h[j].kind = "result",
             h[i].text = h[j].text, Tool(h, i) = Tool(h, j)
      PROVE  FirstOf(h, i) = FirstOf(h, j)
    <2>1. Repeated(h, i) \subseteq Repeated(h, j) /\ i \in Repeated(h, j)
        BY <1>2 DEF Repeated
    <2>2. FirstOf(h, j) <= i /\ FirstOf(h, j) \in Repeated(h, j) /\ FirstOf(h, j) \in Nat
        BY <1>1, <1>2, <2>1
    <2>3. FirstOf(h, j) \in Repeated(h, i)
        BY <1>2, <2>2 DEF Repeated
    <2>4. FirstOf(h, i) <= FirstOf(h, j) /\ FirstOf(h, j) <= FirstOf(h, i)
        BY <1>1, <1>2, <2>1, <2>3
    <2> QED BY <1>1, <1>2, <2>4
<1>3. FirstOf(h, k) \in Repeated(h, k)
    BY <1>1
<1>4. \A j \in 1 .. Len(h) : j <= k \/ k <= j
    OBVIOUS
<1> QED BY <1>2, <1>3, <1>4 DEF Repeated

\* A result becomes the same in a longer history.
LEMMA MadeInBeginning ==
    ASSUME NEW raw, NEW h, Begins(raw, h), Well(h), NEW k \in 1 .. Len(raw), raw[k].kind = "result"
    PROVE  /\ k \in 1 .. Len(h) /\ raw[k] = h[k]
           /\ Tool(raw, k) = Tool(h, k) /\ FirstOf(raw, k) = FirstOf(h, k)
           /\ \A config : Made(raw, k, config) = Made(h, k, config)
<1>1. /\ raw \in Seq(Items) /\ h \in Seq(Items) /\ Len(raw) \in Nat /\ Len(h) \in Nat
      /\ Len(raw) <= Len(h) /\ \A i \in 1 .. Len(raw) : raw[i] = h[i]
    BY DEF Begins
<1>2. \A i \in 1 .. Len(raw) : i \in 1 .. Len(h)
    BY <1>1
<1>3. \A i \in 1 .. Len(raw) : CallOf(raw, i) = CallOf(h, i)
    BY BeginningIsWell
<1>4. ASSUME NEW i \in 1 .. Len(raw), raw[i].kind = "result"
      PROVE  Tool(raw, i) = Tool(h, i)
    <2>1. CallOf(h, i) \in 1 .. (i - 1)
        BY <1>1, <1>2, <1>4, CallOfIs
    <2>2. CallOf(h, i) \in 1 .. Len(raw)
        BY <1>1, <2>1
    <2> QED BY <1>1, <1>3, <2>2 DEF Tool
<1>5. \A j \in 1 .. k : j \in 1 .. Len(raw)
    BY <1>1
<1>6. Repeated(raw, k) = Repeated(h, k)
    BY <1>1, <1>4, <1>5 DEF Repeated
<1>7. FirstOf(raw, k) = FirstOf(h, k)
    BY <1>6 DEF FirstOf
<1>8. raw[FirstOf(h, k)] = h[FirstOf(h, k)] /\ raw[k] = h[k]
    <2>1. FirstOf(raw, k) \in 1 .. k
        BY <1>1, FirstOfIs
    <2> QED BY <1>1, <1>5, <1>7, <2>1
<1>9. ASSUME NEW config PROVE Made(raw, k, config) = Made(h, k, config)
    BY <1>7, <1>8, Zenon DEF Made
<1> QED BY <1>2, <1>4, <1>7, <1>8, <1>9

\* Two configurations of one fingerprint make the same of a result in a session.
LEMMA MadeByFingerprint ==
    ASSUME NEW h, NEW k, NEW c, NEW d, Fingerprint(c) = Fingerprint(d), c.session = d.session
    PROVE  /\ Made(h, k, c) = Made(h, k, d) /\ Shares(c) = Shares(d)
           /\ \A text : Filtered(text, c) = Filtered(text, d)
<1>1. c.mode = d.mode /\ c.dedup = d.dedup
    BY DEF Fingerprint
<1>2. Shares(c) = Shares(d)
    BY <1>1, Zenon DEF Shares
<1>3. \A text : Filtered(text, c) = Filtered(text, d)
    BY <1>1 DEF Filtered
<1>4. Made(h, k, c) = Made(h, k, d)
    <2> DEFINE plain == Filtered(h[k].text, c)
    <2>1. plain = Filtered(h[k].text, d)
        BY <1>3
    <2> HIDE DEF plain
    <2>2. Made(h, k, d) =
              IF d.mode = "disabled" THEN Verbatim(h[k].text)
              ELSE IF Shares(d) /\ FirstOf(h, k) # k /\ ReferenceBytes < Bytes(plain)
                   THEN Reference(h[FirstOf(h, k)].id, h[k].text)
                   ELSE plain
        BY <2>1 DEF Made
    <2>3. Made(h, k, c) =
              IF c.mode = "disabled" THEN Verbatim(h[k].text)
              ELSE IF Shares(c) /\ FirstOf(h, k) # k /\ ReferenceBytes < Bytes(plain)
                   THEN Reference(h[FirstOf(h, k)].id, h[k].text)
                   ELSE plain
        BY DEF Made, plain
    <2> QED BY <1>1, <1>2, <2>2, <2>3
<1> QED BY <1>2, <1>3, <1>4

\* What a result becomes has its text; a reference names the first result, which is no reference.
LEMMA MadeIs ==
    ASSUME NEW h \in Seq(Items), Well(h), NEW k \in 1 .. Len(h), h[k].kind = "result",
           NEW config \in Configs
    PROVE  LET out == Made(h, k, config)
               e == FirstOf(h, k)
           IN  /\ out.text = h[k].text
               /\ out.form = "reference" =>
                     /\ e \in 1 .. (k - 1) /\ out.of = h[e].id
                     /\ Made(h, e, config).form # "reference"
<1> DEFINE form(text) == FormOf[config.mode][text]
           e == FirstOf(h, k)
<1>1. ASSUME NEW text \in Texts PROVE form(text) # "reference"
    <2>1. config.mode \in DOMAIN FormOf
        BY ProxySessionAssumption
    <2>2. form(text) \in {"text", "binary", "dictionary"}
        BY <2>1, ToolOutputAssumption
    <2> QED BY <2>2
<1>2. ASSUME NEW i \in 1 .. Len(h), h[i].kind = "result"
      PROVE  /\ h[i].text \in Texts
             /\ Made(h, i, config).text = h[i].text
             /\ Made(h, i, config).form = "reference" =>
                   FirstOf(h, i) # i /\ Made(h, i, config).of = h[FirstOf(h, i)].id
    <2>1. h[i].text \in Texts
        BY <1>2, ItemIs
    <2>2. form(h[i].text) # "reference"
        BY <1>1, <2>1
    <2> QED BY <2>1, <2>2 DEF Made, Filtered, Verbatim, Reference
<1>3. e \in 1 .. k /\ h[e].kind = "result" /\ h[e].text = h[k].text /\ Tool(h, e) = Tool(h, k)
    BY FirstOfIs
<1>4. e \in 1 .. Len(h)
    BY <1>3
<1>5. FirstOf(h, e) = e
    BY <1>3, <1>4, FirstOfIs
<1> HIDE DEF e
<1>6. e # k => e \in 1 .. (k - 1)
    BY <1>3
<1> QED BY <1>2, <1>3, <1>4, <1>5, <1>6 DEF e

-----------------------------------------------------------------------------
(* The records of a session: outputs of first results, each once.          *)

FilterForms == {"text", "binary", "dictionary"}

\* A record is of the first result that repeats its text.
IsRecord(record, h, k) ==
    /\ h[k].kind = "result" /\ FirstOf(h, k) = k
    /\ record.tool = Tool(h, k) /\ record.call = h[k].id
    /\ record.out.text = h[k].text /\ record.out.of = NoId /\ record.out.form \in FilterForms

RecordsStable(records, h) ==
    /\ \A i \in 1 .. Len(records) : \E k \in 1 .. Len(h) : IsRecord(records[i], h, k)
    /\ \A i, j \in 1 .. Len(records) :
          records[i].tool = records[j].tool /\ records[i].out = records[j].out => i = j

AllStable(state, h) == \A s \in Held(state) : RecordsStable(state.of[s], h)

\* The session of a configuration that compares has an output of the text of a result.
Knows(state, h, k, config) ==
    Shares(config) =>
        Duplicates(state, config.session, Tool(h, k), Filtered(h[k].text, config)) # {}

\* A number that is close below a multiple of three tells which.
LEMMA Thirds ==
    ASSUME NEW a \in Nat, NEW b \in Nat, NEW c \in 0 .. 2, NEW d \in 0 .. 2, 3 * a - c = 3 * b - d
    PROVE  a = b /\ c = d
OBVIOUS

\* There are no more of them than results in each of the forms.
LEMMA RecordsFit ==
    ASSUME Roomy, NEW h \in Seq(Items), Len(h) <= MaxItems,
           NEW records \in Seq(Records), RecordsStable(records, h)
    PROVE  Len(records) <= MaxEntries
<1> SUFFICES ASSUME ~(Len(records) <= MaxEntries) PROVE FALSE
    OBVIOUS
<1> DEFINE n == Len(records)
           of == [i \in 1 .. n |-> CHOOSE k \in 1 .. Len(h) : IsRecord(records[i], h, k)]
           no(form) == IF form = "text" THEN 0 ELSE IF form = "binary" THEN 1 ELSE 2
           code == [i \in 1 .. n |-> 3 * of[i] - no(records[i].out.form)]
           top == 3 * Len(h)
           codes == 1 .. top
<1>1. n \in Nat /\ Len(h) \in Nat /\ MaxItems \in Nat /\ MaxEntries \in Nat
      /\ 3 * MaxItems <= MaxEntries /\ top \in Int
    BY ProxySessionAssumption, ToolOutputAssumption DEF Roomy
<1>2. ASSUME NEW i \in 1 .. n
      PROVE  of[i] \in 1 .. Len(h) /\ IsRecord(records[i], h, of[i])
    <2>1. \E k \in 1 .. Len(h) : IsRecord(records[i], h, k)
        BY DEF RecordsStable
    <2> QED BY <2>1
<1> HIDE DEF of
<1>3. \A form \in FilterForms : no(form) \in 0 .. 2
    OBVIOUS
<1>4. \A form, other \in FilterForms : no(form) = no(other) => form = other
    BY DEF FilterForms
<1> HIDE DEF no
<1>5. ASSUME NEW i \in 1 .. n
      PROVE  records[i].out.form \in FilterForms
    BY <1>2 DEF IsRecord
<1>6. code \in [1 .. n -> codes]
    <2>1. ASSUME NEW i \in 1 .. n PROVE 3 * of[i] - no(records[i].out.form) \in codes
        <3>1. no(records[i].out.form) \in 0 .. 2 /\ of[i] \in 1 .. Len(h)
            BY <1>2, <1>3, <1>5
        <3> QED BY <1>1, <3>1
    <2> QED BY <2>1
<1>7. /\ IsFiniteSet(1 .. n) /\ Cardinality(1 .. n) = n
      /\ IsFiniteSet(codes) /\ Cardinality(codes) = top
    <2> HIDE DEF n, top
    <2>1. Cardinality(1 .. n) = IF 1 > n THEN 0 ELSE n - 1 + 1
        BY <1>1, FS_Interval
    <2>2. Cardinality(codes) = IF 1 > top THEN 0 ELSE top - 1 + 1
        BY <1>1, FS_Interval
    <2>3. IsFiniteSet(1 .. n) /\ IsFiniteSet(codes)
        <3>1. 1 \in Int /\ n \in Int /\ top \in Int
            BY <1>1
        <3>2. IsFiniteSet(1 .. n)
            BY <3>1, FS_Interval
        <3>3. IsFiniteSet(1 .. top)
            BY <3>1, FS_Interval
        <3> QED BY <3>2, <3>3
    <2>4. top = 3 * Len(h)
        BY DEF top
    <2>5. top >= 0
        BY <1>1, <2>4
    <2> QED BY <1>1, <2>1, <2>2, <2>3, <2>5
<1>8. Cardinality(codes) < Cardinality(1 .. n)
    BY <1>1, <1>7
<1> HIDE DEF codes
<1>9. PICK i, j \in 1 .. n : i # j /\ code[i] = code[j]
    <2> HIDE DEF code
    <2> QED BY <1>6, <1>7, <1>8, FS_PigeonHole
<1>10. of[i] = of[j] /\ records[i].out.form = records[j].out.form
    <2>1. /\ no(records[i].out.form) \in 0 .. 2 /\ of[i] \in 1 .. Len(h)
          /\ no(records[j].out.form) \in 0 .. 2 /\ of[j] \in 1 .. Len(h)
        BY <1>2, <1>3, <1>5
    <2>2. 3 * of[i] - no(records[i].out.form) = 3 * of[j] - no(records[j].out.form)
        BY <1>9
    <2>3. of[i] = of[j] /\ no(records[i].out.form) = no(records[j].out.form)
        <3> DEFINE c == no(records[i].out.form)
                   d == no(records[j].out.form)
        <3>1. of[i] \in Nat /\ of[j] \in Nat /\ c \in 0 .. 2 /\ d \in 0 .. 2
            BY <2>1
        <3>2. 3 * of[i] - c = 3 * of[j] - d
            BY <2>2
        <3> HIDE DEF c, d
        <3>3. of[i] = of[j] /\ c = d
            BY <3>1, <3>2, Thirds
        <3> QED BY <3>3 DEF c, d
    <2> QED BY <1>4, <1>5, <2>3
<1>11. records[i].out \in Outs /\ records[j].out \in Outs
    <2>1. records[i] \in Records /\ records[j] \in Records
        OBVIOUS
    <2> QED BY <2>1 DEF Records
<1>12. records[i].tool = records[j].tool /\ records[i].out.text = records[j].out.text
       /\ records[i].out.of = records[j].out.of
    BY <1>2, <1>10 DEF IsRecord
<1>13. records[i].out = records[j].out
    <2> DEFINE x == records[i].out
               y == records[j].out
    <2>1. x \in Outputs /\ y \in Outputs
        BY <1>11 DEF Outs
    <2>2. x.form = y.form /\ x.text = y.text /\ x.of = y.of
        BY <1>10, <1>12
    <2> HIDE DEF x, y
    <2>3. x = y
        BY <2>1, <2>2 DEF Outputs
    <2> QED BY <2>3 DEF x, y
<1> QED BY <1>9, <1>12, <1>13 DEF RecordsStable

\* What is on record for a result is its first occurrence.
LEMMA KnownIs ==
    ASSUME NEW state, DedupInv(state), NEW h \in Seq(Items), NEW k \in 1 .. Len(h),
           h[k].kind = "result", NEW session,
           AllStable(state, h),
           NEW tool, tool = Tool(h, k), NEW out, out.text = h[k].text,
           Duplicates(state, session, tool, out) # {}
    PROVE  state.of[session][Min(Duplicates(state, session, tool, out))].call = h[FirstOf(h, k)].id
<1> DEFINE records == state.of[session]
           known == Duplicates(state, session, tool, out)
<1>1. session \in Held(state)
    BY DEF Duplicates
<1>2. records \in Seq(Records) /\ RecordsStable(records, h)
    BY <1>1 DEF DedupInv, AllStable
<1>3. known = {i \in DOMAIN records : records[i].tool = tool /\ records[i].out = out}
    BY <1>1 DEF Duplicates
<1>11. known # {}
    OBVIOUS
<1> HIDE DEF known
<1>4. known \in SUBSET Nat
    BY <1>2, <1>3
<1>5. \E n \in known : \A m \in known : n <= m
    BY <1>4, <1>11, LeastNatural
<1>6. Min(known) \in known
    BY <1>5 DEF Min
<1> DEFINE i == Min(known)
<1> HIDE DEF i, records
<1>7. i \in 1 .. Len(records) /\ records[i].tool = Tool(h, k) /\ records[i].out = out
    BY <1>2, <1>3, <1>6 DEF i
<1>8. records[i].out.text = h[k].text
    BY <1>7
<1>9. PICK j \in 1 .. Len(h) : IsRecord(records[i], h, j)
    BY <1>2, <1>7 DEF RecordsStable
<1>10. FirstOf(h, j) = FirstOf(h, k)
    BY <1>7, <1>8, <1>9, FirstOfIs DEF IsRecord
<1> QED BY <1>9, <1>10 DEF IsRecord, i, records, known

\* A result of a history is compared with the records of a session: what it has been
\* filtered to is among them, unless it is the first with its text.
Comparing(state, h, k, config, session, call, tool, out) ==
    /\ DedupInv(state) /\ AllStable(state, h)
    /\ h \in Seq(Items) /\ Well(h) /\ Len(h) <= MaxItems
    /\ k \in 1 .. Len(h) /\ h[k].kind = "result"
    /\ config \in Configs /\ session \in Sessions
    /\ call \in Nat /\ call = h[k].id
    /\ tool \in Tools \cup {"generic"} /\ tool = Tool(h, k)
    /\ out \in Outs /\ out = Filtered(h[k].text, config)
    /\ FirstOf(h, k) # k => Duplicates(state, session, tool, out) # {}

\* What a result has to refer to is the first one that it repeats.
LEMMA DuplicateOfFirst ==
    ASSUME NEW state, NEW h, NEW k, NEW config, NEW session, NEW call, NEW tool, NEW out,
           Comparing(state, h, k, config, session, call, tool, out)
    PROVE  DuplicateOf(state, session, call, tool, out) =
               IF FirstOf(h, k) = k THEN NoId ELSE h[FirstOf(h, k)].id
<1> USE DEF Comparing
<1> DEFINE known == Duplicates(state, session, tool, out)
           e == FirstOf(h, k)
           first == state.of[session][Min(known)].call
<1>0. out.text = h[k].text
    BY DEF Filtered
<1>1. known # {} => first = h[e].id
    BY <1>0, KnownIs
<1>2. e \in 1 .. k /\ h[e].kind = "result" /\ h[k].id # NoId
    BY FirstOfIs, ItemIs, RawIdIs
<1>3. h[e].id = h[k].id => e = k
    <2>1. e \in 1 .. Len(h)
        BY <1>2
    <2> HIDE DEF e
    <2> QED BY <1>2, <2>1 DEF Well
<1>4. DuplicateOf(state, session, call, tool, out) =
          IF known = {} \/ first = call THEN NoId ELSE first
    BY Zenon DEF DuplicateOf
<1> HIDE DEF known, first, e
<1>5. e # k => known # {}
    BY DEF known, e
<1>6. e = k => h[e].id = h[k].id
    OBVIOUS
<1> QED BY <1>1, <1>3, <1>4, <1>5, <1>6 DEF e

\* A session's value is set in the second of the two fields.
LEMMA ValueSet ==
    ASSUME NEW order, NEW of, NEW held, held = [order |-> order, of |-> of], NEW session, NEW value
    PROVE  [held EXCEPT !.of[session] = value]
               = [order |-> order, of |-> [of EXCEPT ![session] = value]]
OBVIOUS

\* What deduplicate leaves behind when there is room for every session.
LEMMA RecordedIs ==
    ASSUME Roomy, NEW state, DedupInv(state), NEW session \in Sessions,
           NEW call, NEW tool, NEW out, Duplicates(state, session, tool, out) = {}
    PROVE  LET before == IF session \in Held(state) THEN state.of[session] ELSE <<>>
               records == Append(before, [tool |-> tool, out |-> out, call |-> call])
               kept == IF Len(records) > MaxEntries THEN Tail(records) ELSE records
               next == Deduplicated(state, session, call, tool, out)
           IN  /\ Held(next) = Held(state) \cup {session}
               /\ \A s \in Held(next) :
                     \/ s = session /\ next.of[s] = kept
                     \/ s # session /\ next.of[s] = state.of[s]
<1> DEFINE opened == Opened(state, session, <<>>)
           record == [tool |-> tool, out |-> out, call |-> call]
           before == opened.of[session]
           records == Append(before, record)
           kept == IF Len(records) > MaxEntries THEN Tail(records) ELSE records
           order == IF session \in Held(state) THEN state.order ELSE Append(state.order, session)
           of == [s \in Held(state) \cup {session} |-> IF s = session THEN kept ELSE state.of[s]]
           changed == [order |-> order, of |-> of]
<1>1. Deduplicated(state, session, call, tool, out) =
          Trimmed([opened EXCEPT !.of[session] = kept], session)
    BY DEF Deduplicated
<1> DEFINE all == Held(state) \cup {session}
           old == [s \in all |-> IF s \in Held(state) THEN state.of[s] ELSE <<>>]
<1>2. opened = [order |-> order, of |-> old]
    <2>1. CASE session \in Held(state)
        <3>1. opened = state /\ all = Held(state) /\ order = state.order
            BY <2>1 DEF Opened
        <3>2. state = [order |-> state.order, of |-> [s \in Held(state) |-> state.of[s]]]
            BY Zenon DEF DedupInv, SessionsOf
        <3> QED BY <3>1, <3>2
    <2>2. CASE session \notin Held(state)
        <3>1. opened = [order |-> order,
                        of |-> [s \in all |-> IF s = session THEN <<>> ELSE state.of[s]]]
            BY <2>2 DEF Opened
        <3>2. [s \in all |-> IF s = session THEN <<>> ELSE state.of[s]] = old
            BY <2>2
        <3> QED BY <3>1, <3>2
    <2> QED BY <2>1, <2>2
<1> HIDE DEF opened, order
<1>3. before = IF session \in Held(state) THEN state.of[session] ELSE <<>>
    BY <1>2
<1> HIDE DEF before, kept
<1>9. [opened EXCEPT !.of[session] = kept] = [order |-> order, of |-> [old EXCEPT ![session] = kept]]
    <2> HIDE DEF old
    <2> QED BY <1>2, ValueSet
<1>10. [old EXCEPT ![session] = kept] = of
    OBVIOUS
<1>4. Held(changed) = Held(state) \cup {session}
    BY DEF Held
<1>5. Held(state) \subseteq Sessions
    BY DEF DedupInv, SessionsOf, ToSet
<1>6. changed.of = of
    OBVIOUS
<1>11. [opened EXCEPT !.of[session] = kept] = changed
    BY <1>9, <1>10
<1> HIDE DEF changed
<1>7. Trimmed(changed, session) = changed
    BY <1>4, <1>5, NoneTrimmed
<1>8. ASSUME NEW s \in Held(changed)
      PROVE  \/ s = session /\ changed.of[s] = kept
             \/ s # session /\ changed.of[s] = state.of[s]
    BY <1>4, <1>6
<1> QED BY <1>1, <1>3, <1>4, <1>7, <1>8, <1>11 DEF kept

\* A result that is compared is on record then, and nothing is lost.
LEMMA DeduplicatedGrows ==
    ASSUME Roomy, NEW state, NEW h, NEW k, NEW config, NEW session, NEW call, NEW tool, NEW out,
           Comparing(state, h, k, config, session, call, tool, out)
    PROVE  LET next == Deduplicated(state, session, call, tool, out)
           IN  /\ AllStable(next, h)
               /\ Duplicates(next, session, tool, out) # {}
               /\ \A s, t, o : Duplicates(state, s, t, o) # {} => Duplicates(next, s, t, o) # {}
<1> USE DEF Comparing
<1> DEFINE record == [tool |-> tool, out |-> out, call |-> call]
           before == IF session \in Held(state) THEN state.of[session] ELSE <<>>
           records == Append(before, record)
           kept == IF Len(records) > MaxEntries THEN Tail(records) ELSE records
           next == Deduplicated(state, session, call, tool, out)
<1>1. CASE Duplicates(state, session, tool, out) # {}
    <2>1. next = state
        BY <1>1 DEF Deduplicated
    <2> QED BY <1>1, <2>1
<1>2. CASE ~(Duplicates(state, session, tool, out) # {})
    <2>1. /\ Held(next) = Held(state) \cup {session}
          /\ \A s \in Held(next) :
                \/ s = session /\ next.of[s] = kept
                \/ s # session /\ next.of[s] = state.of[s]
        BY <1>2, RecordedIs
    <2>2. before = IF session \in Held(state) THEN state.of[session] ELSE <<>>
        OBVIOUS
    <2> HIDE DEF kept, next
    <2>4. before \in Seq(Records) /\ RecordsStable(before, h)
          /\ \A i \in 1 .. Len(before) : ~(before[i].tool = tool /\ before[i].out = out)
        <3>1. CASE session \in Held(state)
            <4>1. before = state.of[session] /\ before \in Seq(Records)
                BY <2>2, <3>1 DEF DedupInv
            <4> HIDE DEF before
            <4>2. DOMAIN before = 1 .. Len(before)
                BY <4>1
            <4> QED BY <1>2, <3>1, <4>1, <4>2 DEF Duplicates, AllStable
        <3>2. CASE session \notin Held(state)
            <4>1. before = <<>>
                BY <2>2, <3>2
            <4>2. <<>> \in Seq(Records) /\ Len(<<>>) = 0
                OBVIOUS
            <4> HIDE DEF before
            <4> QED BY <4>1, <4>2 DEF RecordsStable
        <3> QED BY <3>1, <3>2
    <2> HIDE DEF before
    <2>5. record \in Records /\ IsRecord(record, h, k) /\ record.tool = tool /\ record.out = out
        <3>1. config.mode \in DOMAIN FormOf /\ h[k].text \in Texts
            BY ItemIs, ProxySessionAssumption
        <3>2. FormOf[config.mode][h[k].text] \in FilterForms
            BY <3>1, ToolOutputAssumption DEF FilterForms
        <3>3. out.text = h[k].text /\ out.of = NoId /\ out.form \in FilterForms
            BY <3>2 DEF Filtered
        <3>4. FirstOf(h, k) = k
            BY <1>2
        <3>5. record \in Records
            BY DEF Records
        <3> QED BY <3>3, <3>4, <3>5 DEF IsRecord
    <2> HIDE DEF record
    <2>6. /\ records \in Seq(Records) /\ Len(records) = Len(before) + 1 /\ Len(before) \in Nat
          /\ \A i \in 1 .. Len(before) : records[i] = before[i]
          /\ records[Len(before) + 1] = record
        BY <2>4, <2>5, AppendProperties
    <2> HIDE DEF records
    <2>7. \A i \in 1 .. Len(records) : i \in 1 .. Len(before) \/ i = Len(before) + 1
        BY <2>6
    <2>8. RecordsStable(records, h)
        <3>1. ASSUME NEW i \in 1 .. Len(records)
              PROVE  \E j \in 1 .. Len(h) : IsRecord(records[i], h, j)
            BY <2>4, <2>5, <2>6, <2>7 DEF RecordsStable
        <3>2. ASSUME NEW i \in 1 .. Len(records), NEW j \in 1 .. Len(records),
                     records[i].tool = records[j].tool, records[i].out = records[j].out
              PROVE  i = j
            BY <2>4, <2>5, <2>6, <2>7, <3>2 DEF RecordsStable
        <3> QED BY <3>1, <3>2 DEF RecordsStable
    <2>9. kept = records
        <3>1. Len(records) <= MaxEntries
            BY <2>6, <2>8, RecordsFit
        <3>2. Len(records) \in Nat /\ MaxEntries \in Nat
            BY <2>6, ToolOutputAssumption
        <3> QED BY <3>1, <3>2 DEF kept
    <2>10. AllStable(next, h)
        BY <2>1, <2>8, <2>9 DEF AllStable
    <2>11. Duplicates(next, session, tool, out) # {}
        <3>1. Len(before) + 1 \in DOMAIN records
            BY <2>6
        <3> QED BY <2>1, <2>5, <2>6, <2>9, <3>1 DEF Duplicates
    <2>12. ASSUME NEW s, NEW t, NEW o, Duplicates(state, s, t, o) # {}
           PROVE  Duplicates(next, s, t, o) # {}
        <3>1. s \in Held(state)
            BY <2>12 DEF Duplicates
        <3>2. CASE s = session
            <4>1. PICK i \in DOMAIN before : before[i].tool = t /\ before[i].out = o
                BY <2>2, <2>12, <3>1, <3>2 DEF Duplicates
            <4>2. i \in DOMAIN records /\ records[i] = before[i]
                BY <2>4, <2>6, <4>1
            <4> QED BY <2>1, <2>9, <3>2, <4>1, <4>2 DEF Duplicates
        <3>3. CASE s # session
            <4>1. s \in Held(next) /\ next.of[s] = state.of[s]
                BY <2>1, <3>1, <3>3
            <4> QED BY <2>12, <3>1, <4>1 DEF Duplicates
        <3> QED BY <3>2, <3>3
    <2> QED BY <2>10, <2>11, <2>12 DEF next
<1> QED BY <1>1, <1>2

-----------------------------------------------------------------------------
(* What was made of a result is what is made of it again.                  *)

\* An entry of the memo is what some request made of a result.
IsEntry(entry, session, call, h, k, config) ==
    /\ h[k].kind = "result" /\ h[k].id = call
    /\ config.session = session /\ Fingerprint(config) = entry.config /\ config.mode # "disabled"
    /\ entry.text = h[k].text /\ entry.out = Made(h, k, config)

\* Such a result was compared, so the records know it.
EntriesStable(state, h, records) ==
    \A s \in Held(state) : \A c \in DOMAIN state.of[s].entries :
        \E k \in 1 .. Len(h), config \in Configs :
            IsEntry(state.of[s].entries[c], s, c, h, k, config) /\ Knows(records, h, k, config)

\* A request has made what is to be made of the results behind it, and nothing of the others.
ResultStable(r, h, k, records) ==
    IF k < r.at
    THEN /\ r.messages[k].out = Made(h, k, r.config)
         /\ r.config.mode # "disabled" => Knows(records, h, k, r.config)
    ELSE r.messages[k].out = Verbatim(h[k].text)

OutStable(r, h, records) ==
    /\ r.pc = "dedup" => r.out = Filtered(h[r.at].text, r.config)
    /\ r.pc = "store" => r.out = Made(h, r.at, r.config) /\ Knows(records, h, r.at, r.config)

RequestStable(r, h, records) ==
    /\ r.at <= Len(r.raw) => r.config.mode # "disabled"
    /\ \A k \in 1 .. Len(r.raw) : r.raw[k].kind = "result" => ResultStable(r, h, k, records)
    /\ OutStable(r, h, records)

SentStable(x, h) ==
    \A k \in 1 .. Len(x.raw) :
        x.raw[k].kind = "result" => x.messages[k].out = Made(h, k, x.config)

StableInv ==
    /\ AllStable(dedup, history)
    /\ EntriesStable(memo, history, dedup)
    /\ \A w \in InFlight : RequestStable(request[w], history, dedup)
    /\ \A i \in 1 .. Len(sent) : SentStable(sent[i], history)

\* More records know no less.
Grows(records, more) ==
    \A s, t, o : Duplicates(records, s, t, o) # {} => Duplicates(more, s, t, o) # {}

LEMMA KnowsMore ==
    ASSUME NEW records, NEW more, Grows(records, more), NEW h, NEW k, NEW config,
           Knows(records, h, k, config)
    PROVE  Knows(more, h, k, config)
BY DEF Knows, Grows

LEMMA RequestKnowsMore ==
    ASSUME NEW records, NEW more, Grows(records, more), NEW h, NEW r, RequestStable(r, h, records)
    PROVE  RequestStable(r, h, more)
<1>1. ASSUME NEW k \in 1 .. Len(r.raw), r.raw[k].kind = "result"
      PROVE  ResultStable(r, h, k, more)
    <2>1. ResultStable(r, h, k, records)
        BY <1>1 DEF RequestStable
    <2> QED BY <2>1, KnowsMore DEF ResultStable
<1>2. OutStable(r, h, more)
    <2>1. OutStable(r, h, records)
        BY DEF RequestStable
    <2> QED BY <2>1, KnowsMore DEF OutStable
<1> QED BY <1>1, <1>2 DEF RequestStable

LEMMA EntriesKnowMore ==
    ASSUME NEW records, NEW more, Grows(records, more), NEW h, NEW state,
           EntriesStable(state, h, records)
    PROVE  EntriesStable(state, h, more)
<1> SUFFICES ASSUME NEW s \in Held(state), NEW c \in DOMAIN state.of[s].entries
             PROVE  \E k \in 1 .. Len(h), config \in Configs :
                       /\ IsEntry(state.of[s].entries[c], s, c, h, k, config)
                       /\ Knows(more, h, k, config)
    BY DEF EntriesStable
<1> DEFINE entry == state.of[s].entries[c]
<1>1. PICK k \in 1 .. Len(h), config \in Configs :
          IsEntry(entry, s, c, h, k, config) /\ Knows(records, h, k, config)
    BY Zenon DEF EntriesStable
<1> HIDE DEF entry
<1>2. Knows(more, h, k, config)
    BY <1>1, KnowsMore
<1> QED BY <1>1, <1>2 DEF entry

\* What a result becomes does not change when the history goes on.
LEMMA SameInLonger ==
    ASSUME NEW h, NEW longer, Begins(h, longer), Well(longer), NEW k \in 1 .. Len(h),
           h[k].kind = "result"
    PROVE  /\ k \in 1 .. Len(longer) /\ longer[k] = h[k]
           /\ \A config : Made(longer, k, config) = Made(h, k, config)
           /\ \A records, config : Knows(records, h, k, config) => Knows(records, longer, k, config)
           /\ \A record : IsRecord(record, h, k) => IsRecord(record, longer, k)
           /\ \A entry, s, c, config :
                 IsEntry(entry, s, c, h, k, config) => IsEntry(entry, s, c, longer, k, config)
<1>1. /\ k \in 1 .. Len(longer) /\ h[k] = longer[k]
      /\ Tool(h, k) = Tool(longer, k) /\ FirstOf(h, k) = FirstOf(longer, k)
      /\ \A config : Made(h, k, config) = Made(longer, k, config)
    BY MadeInBeginning
<1>2. ASSUME NEW records, NEW config, Knows(records, h, k, config)
      PROVE  Knows(records, longer, k, config)
    BY <1>1, <1>2, Zenon DEF Knows
<1>3. ASSUME NEW record, IsRecord(record, h, k) PROVE IsRecord(record, longer, k)
    BY <1>1, <1>3, Zenon DEF IsRecord
<1>4. ASSUME NEW entry, NEW s, NEW c, NEW config, IsEntry(entry, s, c, h, k, config)
      PROVE  IsEntry(entry, s, c, longer, k, config)
    BY <1>1, <1>4, Zenon DEF IsEntry
<1> QED BY <1>1, <1>2, <1>3, <1>4

LEMMA RecordsInLonger ==
    ASSUME NEW h, NEW longer, Begins(h, longer), Well(longer), NEW records,
           RecordsStable(records, h)
    PROVE  RecordsStable(records, longer)
<1>1. ASSUME NEW i \in 1 .. Len(records)
      PROVE  \E k \in 1 .. Len(longer) : IsRecord(records[i], longer, k)
    <2>1. PICK k \in 1 .. Len(h) : IsRecord(records[i], h, k)
        BY DEF RecordsStable
    <2>2. h[k].kind = "result"
        BY <2>1 DEF IsRecord
    <2>3. k \in 1 .. Len(longer) /\ IsRecord(records[i], longer, k)
        BY <2>1, <2>2, SameInLonger
    <2> QED BY <2>3
<1> QED BY <1>1 DEF RecordsStable

LEMMA EntriesInLonger ==
    ASSUME NEW h, NEW longer, Begins(h, longer), Well(longer), NEW state, NEW records,
           EntriesStable(state, h, records)
    PROVE  EntriesStable(state, longer, records)
<1> SUFFICES ASSUME NEW s \in Held(state), NEW c \in DOMAIN state.of[s].entries
             PROVE  \E k \in 1 .. Len(longer), config \in Configs :
                       /\ IsEntry(state.of[s].entries[c], s, c, longer, k, config)
                       /\ Knows(records, longer, k, config)
    BY DEF EntriesStable
<1> DEFINE entry == state.of[s].entries[c]
<1>1. PICK k \in 1 .. Len(h), config \in Configs :
          IsEntry(entry, s, c, h, k, config) /\ Knows(records, h, k, config)
    BY Zenon DEF EntriesStable
<1> HIDE DEF entry
<1>2. h[k].kind = "result"
    BY <1>1 DEF IsEntry
<1>3. /\ k \in 1 .. Len(longer) /\ IsEntry(entry, s, c, longer, k, config)
      /\ Knows(records, longer, k, config)
    BY <1>1, <1>2, SameInLonger
<1> QED BY <1>3 DEF entry

LEMMA RequestInLonger ==
    ASSUME OwnIds, NEW h, NEW longer, Begins(h, longer), Well(longer), NEW records,
           NEW r, RequestInv(r), RequestTells(r, h), RequestStable(r, h, records)
    PROVE  RequestStable(r, longer, records)
<1>1. /\ Len(r.raw) \in Nat /\ Len(h) \in Nat /\ Len(r.raw) <= Len(h)
      /\ \A k \in 1 .. Len(r.raw) : r.raw[k] = h[k] /\ Stands(r.messages[k], r.raw[k])
    BY DEF RequestTells, Tells, Begins
<1>2. ASSUME NEW k \in 1 .. Len(r.raw), r.raw[k].kind = "result"
      PROVE  k \in 1 .. Len(h) /\ h[k].kind = "result"
    BY <1>1, <1>2
<1>3. ASSUME NEW k \in 1 .. Len(r.raw), r.raw[k].kind = "result"
      PROVE  ResultStable(r, longer, k, records)
    <2>1. ResultStable(r, h, k, records)
        BY <1>3 DEF RequestStable
    <2>2. k \in 1 .. Len(h) /\ h[k].kind = "result"
        BY <1>2, <1>3
    <2>3. /\ longer[k] = h[k] /\ Made(longer, k, r.config) = Made(h, k, r.config)
          /\ Knows(records, h, k, r.config) => Knows(records, longer, k, r.config)
        BY <2>2, SameInLonger
    <2> QED BY <2>1, <2>3 DEF ResultStable
<1>4. OutStable(r, longer, records)
    <2>1. OutStable(r, h, records)
        BY DEF RequestStable
    <2>2. CASE r.pc = "lookup"
        BY <2>2 DEF OutStable
    <2>3. CASE r.pc # "lookup"
        <3>1. r.at \in 1 .. Len(r.raw) /\ r.messages[r.at].kind = "result"
            BY <2>3 DEF RequestInv
        <3>2. r.raw[r.at].kind = "result"
            BY <1>1, <3>1 DEF Stands
        <3>3. r.at \in 1 .. Len(h) /\ h[r.at].kind = "result"
            BY <1>2, <3>1, <3>2
        <3>4. /\ longer[r.at] = h[r.at] /\ Made(longer, r.at, r.config) = Made(h, r.at, r.config)
              /\ Knows(records, h, r.at, r.config) => Knows(records, longer, r.at, r.config)
            BY <3>3, SameInLonger
        <3> QED BY <2>1, <3>4 DEF OutStable
    <2> QED BY <2>2, <2>3
<1> QED BY <1>3, <1>4 DEF RequestStable

LEMMA SentInLonger ==
    ASSUME NEW h, NEW longer, Begins(h, longer), Well(longer),
           NEW x, SentTells(x, h), SentStable(x, h)
    PROVE  SentStable(x, longer)
<1>1. /\ Len(x.raw) \in Nat /\ Len(h) \in Nat /\ Len(x.raw) <= Len(h)
      /\ \A k \in 1 .. Len(x.raw) : x.raw[k] = h[k]
    BY DEF SentTells, Begins
<1>2. ASSUME NEW k \in 1 .. Len(x.raw), x.raw[k].kind = "result"
      PROVE  x.messages[k].out = Made(longer, k, x.config)
    <2>1. k \in 1 .. Len(h) /\ h[k].kind = "result"
        BY <1>1, <1>2
    <2>2. Made(longer, k, x.config) = Made(h, k, x.config)
        BY <2>1, SameInLonger
    <2> QED BY <1>2, <2>2 DEF SentStable
<1> QED BY <1>2 DEF SentStable

\* Going to the next result passes over none.
LEMMA NextResultSkips ==
    ASSUME NEW messages, Len(messages) \in Nat, NEW i \in 1 .. (Len(messages) + 1),
           NEW k \in i .. Len(messages), k < NextResult(messages, i)
    PROVE  messages[k].kind # "result"
<1> DEFINE found == {j \in i .. Len(messages) : messages[j].kind = "result"}
                        \cup {Len(messages) + 1}
<1>1. found \in SUBSET Nat /\ found # {}
    OBVIOUS
<1>2. \E n \in found : \A m \in found : n <= m
    BY <1>1, LeastNatural
<1>3. NextResult(messages, i) \in found /\ \A m \in found : NextResult(messages, i) <= m
    BY <1>2 DEF NextResult, Min
<1>4. NextResult(messages, i) \in Nat /\ k \in Nat
    BY <1>1, <1>3
<1>5. k \notin found
    BY <1>3, <1>4
<1> QED BY <1>5

LEMMA NextResultAfter ==
    ASSUME NEW messages, Len(messages) \in Nat, NEW i \in 1 .. (Len(messages) + 1)
    PROVE  NextResult(messages, i) \in i .. (Len(messages) + 1)
<1> DEFINE found == {j \in i .. Len(messages) : messages[j].kind = "result"}
                        \cup {Len(messages) + 1}
<1>1. found \in SUBSET Nat /\ found # {}
    OBVIOUS
<1>2. \E n \in found : \A m \in found : n <= m
    BY <1>1, LeastNatural
<1>3. NextResult(messages, i) \in found
    BY <1>2 DEF NextResult, Min
<1> QED BY <1>3

\* A request that has replaced the result it is at goes on to the next one.
LEMMA ReplacedStable ==
    ASSUME OwnIds, NEW r, RequestInv(r), r.at <= Len(r.messages), NEW h, RequestTells(r, h),
           NEW records, RequestStable(r, h, records),
           NEW out, out = Made(h, r.at, r.config), Knows(records, h, r.at, r.config)
    PROVE  RequestStable(Replaced(r, out), h, records)
<1> DEFINE next == Replaced(r, out)
<1>1. /\ next.pc = "lookup" /\ next.config = r.config /\ next.raw = r.raw
      /\ next.at = NextResult(r.messages, r.at + 1)
      /\ next.messages[r.at] = [kind |-> "result", call |-> r.messages[r.at].call, out |-> out]
      /\ \A i \in 1 .. Len(r.messages) : i # r.at => next.messages[i] = r.messages[i]
    BY ReplacedIs
<1> HIDE DEF next
<1>7. next.messages[r.at].out = out
    BY <1>1
<1>2. /\ Len(r.messages) = Len(r.raw) /\ Len(r.raw) \in Nat /\ r.at \in 1 .. Len(r.raw)
      /\ r.at + 1 \in 1 .. (Len(r.messages) + 1)
    BY AtResult DEF RequestInv
<1>3. next.at \in 1 .. (Len(r.raw) + 1)
    BY <1>1, <1>2, NextResultIs
<1>4. r.config.mode # "disabled"
    BY <1>2 DEF RequestStable
<1>5. ASSUME NEW k \in 1 .. Len(r.raw), r.raw[k].kind = "result"
      PROVE  ResultStable(next, h, k, records)
    <2>1. ResultStable(r, h, k, records) /\ r.messages[k].kind = "result"
        BY <1>5 DEF RequestStable, RequestTells, Tells, Stands
    <2>2. CASE k = r.at
        <3>1. k < next.at
            <4>1. next.at \in (r.at + 1) .. (Len(r.messages) + 1)
                BY <1>1, <1>2, NextResultAfter
            <4> QED BY <1>2, <2>2, <4>1
        <3> QED BY <1>1, <1>7, <2>2, <3>1 DEF ResultStable
    <2>3. CASE k < r.at
        <3>1. k < next.at
            <4>1. next.at \in (r.at + 1) .. (Len(r.messages) + 1)
                BY <1>1, <1>2, NextResultAfter
            <4> QED BY <1>2, <2>3, <4>1
        <3> QED BY <1>1, <1>2, <2>1, <2>3, <3>1 DEF ResultStable
    <2>4. CASE k > r.at
        <3>1. k \in (r.at + 1) .. Len(r.messages)
            BY <1>2, <2>4
        <3>2. ~(k < next.at)
            BY <1>1, <1>2, <2>1, <3>1, NextResultSkips
        <3>3. ~(k < r.at) /\ k # r.at
            BY <1>2, <2>4
        <3> QED BY <1>1, <1>2, <2>1, <3>2, <3>3 DEF ResultStable
    <2> QED BY <1>2, <2>2, <2>3, <2>4
<1>6. OutStable(next, h, records)
    BY <1>1 DEF OutStable
<1> QED BY <1>1, <1>4, <1>5, <1>6 DEF RequestStable, next

\* What a request is at is a result of the history.
LEMMA AtHistory ==
    ASSUME OwnIds, NEW r, RequestInv(r), r.at <= Len(r.messages), NEW h, Well(h), RequestTells(r, h)
    PROVE  /\ r.at \in 1 .. Len(h) /\ r.at \in 1 .. Len(r.raw) /\ h[r.at].kind = "result"
           /\ r.messages[r.at].call = h[r.at].id /\ r.messages[r.at].out.text = h[r.at].text
           /\ h[r.at].id \in Nat /\ h[r.at].text \in Texts
           /\ ToolOf(r) = Tool(h, r.at)
           /\ Compares(r) <=> Shares(r.config)
<1>1. /\ r.raw \in Seq(Items) /\ Len(r.raw) \in Nat /\ Len(h) \in Nat /\ Len(r.raw) <= Len(h)
      /\ h \in Seq(Items) /\ Begins(r.raw, h) /\ Tells(r.messages, r.raw)
      /\ \A k \in 1 .. Len(r.raw) : r.raw[k] = h[k] /\ Stands(r.messages[k], r.raw[k])
    BY DEF RequestTells, Tells, Begins
<1>2. r.at \in 1 .. Len(r.raw) /\ r.messages[r.at].kind = "result" /\ r.messages[r.at].call \in Nat
    BY AtResult DEF RequestInv
<1>3. r.raw[r.at].kind = "result"
    BY <1>1, <1>2 DEF Stands
<1>4. Well(r.raw) /\ Tool(r.raw, r.at) = Tool(h, r.at) /\ r.raw[r.at] = h[r.at]
    BY <1>1, <1>2, <1>3, BeginningIsWell, MadeInBeginning
<1>5. /\ r.messages[r.at].call = r.raw[r.at].id /\ r.messages[r.at].out.text = r.raw[r.at].text
      /\ Answered(r.messages, r.at) = {CallOf(r.raw, r.at)}
      /\ Max(Answered(r.messages, r.at)) = CallOf(r.raw, r.at)
      /\ r.messages[CallOf(r.raw, r.at)].tool = r.raw[CallOf(r.raw, r.at)].tool
    <2> DEFINE raw == r.raw
               messages == r.messages
               k == r.at
    <2>1. \A i \in 1 .. Len(raw) : Stands(messages[i], raw[i])
        BY <1>1
    <2>2. raw \in Seq(Items) /\ Well(raw) /\ k \in 1 .. Len(raw) /\ raw[k].kind = "result"
        BY <1>1, <1>2, <1>3, <1>4
    <2> HIDE DEF raw, messages, k
    <2>3. /\ messages[k].call = raw[k].id /\ messages[k].out.text = raw[k].text
          /\ Answered(messages, k) = {CallOf(raw, k)}
          /\ Max(Answered(messages, k)) = CallOf(raw, k)
          /\ messages[CallOf(raw, k)].tool = raw[CallOf(raw, k)].tool
        BY <2>1, <2>2, AnsweredIs
    <2> QED BY <2>3 DEF raw, messages, k
<1>6. ToolOf(r) = Tool(r.raw, r.at)
    BY <1>5 DEF ToolOf, Tool
<1>7. r.at \in 1 .. Len(h)
    BY <1>1, <1>2
<1>8. h[r.at].text \in Texts
    BY <1>1, <1>3, <1>4, <1>7, ItemIs
<1>9. Compares(r) <=> Shares(r.config)
    BY <1>2, PriorResultsAssumption DEF Compares, Shares
<1> QED BY <1>2, <1>3, <1>4, <1>5, <1>6, <1>7, <1>8, <1>9

\* A request that changes, or comes, is stable, and the others stay so.
LEMMA RequestStaysStable ==
    ASSUME Inv, StableInv, NEW w \in Workers, NEW r,
           r.pc # "idle" => RequestStable(r, history, dedup'),
           request' = [request EXCEPT ![w] = r], UNCHANGED history, Grows(dedup, dedup')
    PROVE  \A v \in InFlight' : RequestStable(request'[v], history', dedup')
<1>1. DOMAIN request = Workers
    BY DEF Inv
<1>2. ASSUME NEW v \in InFlight' PROVE RequestStable(request'[v], history, dedup')
    <2>1. v \in Workers /\ request'[v].pc # "idle"
        BY DEF InFlight
    <2>2. CASE v = w
        BY <1>1, <2>1, <2>2
    <2>3. CASE v # w
        <3>1. request'[v] = request[v]
            BY <1>1, <2>1, <2>3
        <3>2. v \in InFlight
            BY <2>1, <3>1 DEF InFlight
        <3>3. RequestStable(request[v], history, dedup)
            BY <3>2 DEF StableInv
        <3> QED BY <3>1, <3>3, RequestKnowsMore
    <2> QED BY <2>2, <2>3
<1> QED BY <1>2

LEMMA InitStable == Init => StableInv
<1> SUFFICES ASSUME Init PROVE StableInv
    OBVIOUS
<1>1. sent = <<>> /\ dedup = NoSessions /\ memo = NoSessions
      /\ request = [w \in Workers |-> NoRequest]
    BY DEF Init
<1>2. InFlight = {}
    BY <1>1 DEF InFlight, NoRequest
<1>3. EntriesStable(memo, history, dedup)
    BY <1>1, NoneHeld DEF EntriesStable
<1>4. Len(sent) = 0
    BY <1>1
<1> QED BY <1>1, <1>2, <1>3, <1>4, NoneHeld DEF StableInv, AllStable

LEMMA ClientStable ==
    ASSUME OwnIds, Inv, TellInv, StableInv, Client
    PROVE  StableInv'
<1>1. PICK item \in Items : Say(item)
    BY ClientKeepsHistory DEF TellInv
<1>2. history' = Append(history, item) /\ UNCHANGED <<counter, dedup, memo, request, sent>>
    BY <1>1 DEF Say
<1>3. Well(history')
    BY ClientKeepsHistory DEF TellInv, HistoryInv
<1>4. Begins(history, history')
    <2>1. Begins(history, history)
        BY DEF Inv, Begins
    <2> QED BY <1>2, <2>1, BeginsLonger
<1>5. AllStable(dedup, history')
    BY <1>3, <1>4, RecordsInLonger DEF StableInv, AllStable
<1>6. EntriesStable(memo, history', dedup)
    BY <1>3, <1>4, EntriesInLonger DEF StableInv
<1>7. ASSUME NEW w \in InFlight PROVE RequestStable(request[w], history', dedup)
    <2>1. RequestInv(request[w])
        BY Busy DEF InFlight
    <2>2. RequestTells(request[w], history) /\ RequestStable(request[w], history, dedup)
        BY DEF TellInv, StableInv
    <2> QED BY <1>3, <1>4, <2>1, <2>2, RequestInLonger
<1>8. ASSUME NEW i \in 1 .. Len(sent) PROVE SentStable(sent[i], history')
    <2>1. SentTells(sent[i], history) /\ SentStable(sent[i], history)
        BY DEF TellInv, StableInv
    <2> QED BY <1>3, <1>4, <2>1, SentInLonger
<1>9. InFlight' = InFlight
    BY <1>2 DEF InFlight
<1> QED BY <1>2, <1>5, <1>6, <1>7, <1>8, <1>9 DEF StableInv

\* The parts of the invariant that a step leaves alone when it changes no more than requests.
LEMMA RestStable ==
    ASSUME StableInv, UNCHANGED <<history, dedup, memo, sent>>
    PROVE  /\ AllStable(dedup', history')
           /\ EntriesStable(memo', history', dedup')
           /\ \A i \in 1 .. Len(sent') : SentStable(sent'[i], history')
           /\ Grows(dedup, dedup')
BY DEF StableInv, Grows

LEMMA ReceiveStable ==
    ASSUME OwnIds, Inv, TellInv, StableInv, NEW w \in Workers, NEW config \in Configs,
           Receive(w, config)
    PROVE  StableInv'
<1> DEFINE parse == Converted(history, counter)
           at == IF config.mode = "disabled" THEN Len(history) + 1
                                             ELSE NextResult(parse.messages, 1)
           r == [pc |-> "lookup", config |-> config, raw |-> history,
                 messages |-> parse.messages, out |-> <<>>, at |-> at]
<1>1. /\ request' = [request EXCEPT ![w] = r]
      /\ UNCHANGED <<history, dedup, memo, sent>>
    BY Zenon DEF Receive
<1>2. DOMAIN request = Workers /\ history \in Seq(Items) /\ Len(history) \in Nat
    BY DEF Inv
<1> HIDE DEF parse
<1>3. r.pc = "lookup" /\ r.config = config /\ r.raw = history /\ r.messages = parse.messages
      /\ r.at = at
    OBVIOUS
<1> HIDE DEF r
<1>4. request'[w] = r
    BY <1>1, <1>2
<1>5. RequestTells(r, history)
    <2>1. w \in InFlight'
        BY <1>3, <1>4 DEF InFlight
    <2>2. TellInv'
        BY ReceiveTells
    <2>3. RequestTells(request'[w], history')
        BY <2>1, <2>2 DEF TellInv
    <2> QED BY <1>1, <1>4, <2>3
<1>6. \A k \in 1 .. Len(history) : history[k].kind = "result" =>
          r.messages[k].out = Verbatim(history[k].text)
    BY <1>4, ReceiveTells
<1>7. Len(r.messages) = Len(history)
      /\ \A k \in 1 .. Len(history) : r.messages[k].kind = history[k].kind
    BY <1>3, <1>5 DEF RequestTells, Tells, Stands
<1>8. ASSUME NEW k \in 1 .. Len(history), history[k].kind = "result"
      PROVE  ResultStable(r, history, k, dedup')
    <2>1. r.messages[k].out = Verbatim(history[k].text) /\ r.messages[k].kind = "result"
        BY <1>6, <1>7, <1>8
    <2>2. CASE config.mode = "disabled"
        <3>1. Made(history, k, config) = Verbatim(history[k].text)
            BY <2>2 DEF Made
        <3> QED BY <1>3, <2>1, <2>2, <3>1 DEF ResultStable
    <2>3. CASE config.mode # "disabled"
        <3>1. at = NextResult(r.messages, 1)
            BY <1>3, <2>3
        <3>2. ~(k < NextResult(r.messages, 1))
            BY <1>2, <1>7, <2>1, NextResultSkips
        <3> QED BY <1>3, <2>1, <3>1, <3>2 DEF ResultStable
    <2> QED BY <2>2, <2>3
<1>9. r.at <= Len(r.raw) => r.config.mode # "disabled"
    BY <1>2, <1>3
<1>10. RequestStable(r, history, dedup')
    <2>1. OutStable(r, history, dedup')
        BY <1>3 DEF OutStable
    <2> QED BY <1>3, <1>8, <1>9, <2>1 DEF RequestStable
<1>11. Grows(dedup, dedup')
    BY <1>1, RestStable
<1>12. \A v \in InFlight' : RequestStable(request'[v], history', dedup')
    BY <1>1, <1>10, <1>11, RequestStaysStable
<1> QED BY <1>1, <1>12, RestStable DEF StableInv

LEMMA LookupStable ==
    ASSUME OwnIds, Inv, TellInv, StableInv, NEW w \in Workers, Lookup(w)
    PROVE  StableInv'
<1> DEFINE r == request[w]
           m == r.messages[r.at]
           session == r.config.session
           hit == Remembers(r) /\ MemoLookup(memo, session, m.call, m.out.text, r.config)
           entry == memo.of[session].entries[m.call]
           found == entry.out
           filtered == Filtered(m.out.text, r.config)
           changed == [r EXCEPT !.out = filtered, !.pc = "dedup"]
           next == IF hit THEN Replaced(r, found) ELSE changed
<1>1. /\ r.pc = "lookup" /\ r.at <= Len(r.messages)
      /\ request' = [request EXCEPT ![w] = next]
      /\ UNCHANGED <<history, counter, dedup, memo, sent>>
    BY Zenon DEF Lookup
<1>2. w \in InFlight /\ RequestInv(r) /\ RequestTells(r, history)
    <2>1. r.pc # "idle"
        BY <1>1, Zenon
    <2> QED BY <2>1, InFlightTells
<1>3. RequestStable(r, history, dedup)
    BY <1>2 DEF StableInv
<1>4. Well(history)
    BY DEF TellInv, HistoryInv
<1> HIDE DEF r
<1>5. /\ r.at \in 1 .. Len(history) /\ history[r.at].kind = "result"
      /\ m.call = history[r.at].id /\ m.out.text = history[r.at].text
      /\ history[r.at].id \in Nat /\ history[r.at].text \in Texts
    BY <1>1, <1>2, <1>4, AtHistory
<1>6. RequestStable(next, history, dedup)
    <2>1. CASE hit
        <3>1. /\ session \in Held(memo) /\ m.call \in DOMAIN memo.of[session].entries
              /\ entry.text = m.out.text /\ entry.config = Fingerprint(r.config)
            BY <2>1, Zenon DEF MemoLookup
        <3>2. EntriesStable(memo, history, dedup)
            BY DEF StableInv
        <3>3. PICK k \in 1 .. Len(history), config \in Configs :
                  IsEntry(entry, session, m.call, history, k, config)
                  /\ Knows(dedup, history, k, config)
            BY <3>1, <3>2, Zenon DEF EntriesStable
        <3> HIDE DEF entry, hit, next, changed
        <3>4. history[k].kind = "result" /\ history[k].id = m.call
            BY <3>3 DEF IsEntry
        <3>5. k = r.at
            <4>1. NoId \notin Nat
                BY PriorResultsAssumption
            <4> QED BY <1>4, <1>5, <3>4, <4>1 DEF Well
        <3>6. /\ Fingerprint(config) = Fingerprint(r.config) /\ config.session = r.config.session
              /\ found = Made(history, k, config)
            BY <3>1, <3>3 DEF IsEntry
        <3>7. found = Made(history, r.at, r.config)
            BY <3>5, <3>6, MadeByFingerprint
        <3>8. Knows(dedup, history, r.at, r.config)
            <4>1. /\ Shares(config) = Shares(r.config)
                  /\ \A text : Filtered(text, config) = Filtered(text, r.config)
                BY <3>6, MadeByFingerprint
            <4> QED BY <3>3, <3>5, <3>6, <4>1 DEF Knows
        <3> HIDE DEF found
        <3>9. RequestStable(Replaced(r, found), history, dedup)
            BY <1>1, <1>2, <1>3, <3>7, <3>8, ReplacedStable
        <3> QED BY <2>1, <3>9 DEF next
    <2>2. CASE ~hit
        <3>1. filtered \in Outs
            BY <1>2, <1>5, OutputsHaveLengths DEF RequestInv
        <3>2. filtered = Filtered(history[r.at].text, r.config)
            BY <1>5
        <3> HIDE DEF filtered, hit
        <3>3. changed = [pc |-> "dedup", config |-> r.config, raw |-> r.raw,
                         messages |-> r.messages, out |-> filtered, at |-> r.at]
            BY <1>1, <1>2, <3>1, OutputKeeps
        <3> HIDE DEF changed
        <3>4. RequestStable(changed, history, dedup)
            <4>1. OutStable(changed, history, dedup)
                BY <3>2, <3>3 DEF OutStable
            <4>2. /\ changed.at <= Len(changed.raw) => changed.config.mode # "disabled"
                  /\ \A k \in 1 .. Len(changed.raw) : changed.raw[k].kind = "result" =>
                        ResultStable(changed, history, k, dedup)
                BY <1>3, <3>3 DEF RequestStable, ResultStable
            <4> QED BY <4>1, <4>2 DEF RequestStable
        <3> QED BY <2>2, <3>4
    <2> QED BY <2>1, <2>2
<1> HIDE DEF next
<1>7. Grows(dedup, dedup')
    BY <1>1, RestStable
<1>8. \A v \in InFlight' : RequestStable(request'[v], history', dedup')
    BY <1>1, <1>6, <1>7, RequestStaysStable
<1> QED BY <1>1, <1>8, RestStable DEF StableInv

\* What deduplicate makes of an output is what is to be made of it.
LEMMA ComparedIsMade ==
    ASSUME Roomy, NEW h \in Seq(Items), Well(h), Len(h) <= MaxItems,
           NEW records, DedupInv(records), AllStable(records, h),
           NEW k \in 1 .. Len(h), h[k].kind = "result",
           NEW config \in Configs, config.mode # "disabled", Shares(config),
           \A j \in 1 .. (k - 1) : h[j].kind = "result" => Knows(records, h, j, config),
           NEW session \in Sessions, session = config.session,
           NEW call \in Nat, call = h[k].id,
           NEW tool \in Tools \cup {"generic"}, tool = Tool(h, k),
           NEW out \in Outs, out = Filtered(h[k].text, config),
           NEW first, first = DuplicateOf(records, session, call, tool, out),
           NEW more, more = Deduplicated(records, session, call, tool, out)
    PROVE  /\ Made(h, k, config) =
                  IF first # NoId /\ Bytes(Reference(first, out.text)) < Bytes(out)
                  THEN Reference(first, out.text) ELSE out
           /\ Knows(more, h, k, config)
           /\ Grows(records, more)
           /\ AllStable(more, h)
<1> DEFINE e == FirstOf(h, k)
           reference == Reference(first, out.text)
<1>1. out.text = h[k].text
    BY DEF Filtered
<1>2. Made(h, k, config) =
          IF e # k /\ ReferenceBytes < Bytes(out) THEN Reference(h[e].id, h[k].text) ELSE out
    BY Zenon DEF Made
<1>3. e \in 1 .. k /\ h[e].kind = "result" /\ h[e].text = h[k].text /\ Tool(h, e) = Tool(h, k)
    BY FirstOfIs
<1>4. e # k => Duplicates(records, session, tool, out) # {}
    <2> HIDE DEF e
    <2>1. ASSUME e # k PROVE Knows(records, h, e, config)
        <3>1. e \in 1 .. (k - 1)
            BY <1>3, <2>1
        <3> QED BY <1>3, <3>1
    <2> QED BY <1>3, <2>1 DEF Knows
<1> HIDE DEF e
<1>12. Comparing(records, h, k, config, session, call, tool, out)
    BY <1>4 DEF Comparing, e
<1>5. first = IF e = k THEN NoId ELSE h[e].id
    BY <1>12, DuplicateOfFirst DEF e
<1>6. /\ AllStable(more, h) /\ Duplicates(more, session, tool, out) # {} /\ Grows(records, more)
    <2> DEFINE next == Deduplicated(records, session, call, tool, out)
    <2>1. /\ AllStable(next, h) /\ Duplicates(next, session, tool, out) # {}
          /\ \A s, t, o : Duplicates(records, s, t, o) # {} => Duplicates(next, s, t, o) # {}
        BY <1>12, DeduplicatedGrows
    <2> QED BY <2>1 DEF Grows
<1>7. Knows(more, h, k, config)
    BY <1>6 DEF Knows
<1>8. h[e].id # NoId
    <2>1. e \in 1 .. Len(h)
        BY <1>3
    <2> QED BY <1>3, <2>1, ItemIs, RawIdIs
<1>9. Bytes(reference) = ReferenceBytes
    <2>1. reference.form = "reference"
        BY DEF Reference
    <2> HIDE DEF reference
    <2> QED BY <2>1 DEF Bytes
<1>10. e # k => reference = Reference(h[e].id, h[k].text)
    BY <1>1, <1>5
<1> HIDE DEF reference
<1>11. Made(h, k, config) =
           IF first # NoId /\ Bytes(reference) < Bytes(out) THEN reference ELSE out
    BY <1>2, <1>5, <1>8, <1>9, <1>10
<1> QED BY <1>6, <1>7, <1>11 DEF reference

\* A request that compares one is right about it.
LEMMA DeduplicatedIsMade ==
    ASSUME OwnIds, Roomy, NEW h \in Seq(Items), Well(h), Len(h) <= MaxItems,
           NEW records, DedupInv(records), AllStable(records, h),
           NEW r, RequestInv(r), r.pc = "dedup", RequestTells(r, h), RequestStable(r, h, records)
    PROVE  LET call == r.messages[r.at].call
               session == r.config.session
               first == DuplicateOf(records, session, call, ToolOf(r), r.out)
               reference == Reference(first, r.out.text)
               refers == Compares(r) /\ first # NoId /\ Bytes(reference) < Bytes(r.out)
               more == IF Compares(r) THEN Deduplicated(records, session, call, ToolOf(r), r.out)
                                      ELSE records
           IN  /\ Made(h, r.at, r.config) = IF refers THEN reference ELSE r.out
               /\ Knows(more, h, r.at, r.config)
               /\ Grows(records, more)
               /\ AllStable(more, h)
<1> DEFINE k == r.at
           config == r.config
           out == r.out
           tool == ToolOf(r)
           call == r.messages[k].call
           session == config.session
           first == DuplicateOf(records, session, call, tool, out)
           next == Deduplicated(records, session, call, tool, out)
<1>1. /\ k <= Len(r.messages) /\ k \in Nat /\ out \in Outs /\ config \in Configs
      /\ Len(r.messages) = Len(r.raw) /\ Len(r.raw) \in Nat
    BY DEF RequestInv
<1>2. /\ k \in 1 .. Len(h) /\ k \in 1 .. Len(r.raw) /\ h[k].kind = "result"
      /\ call = h[k].id /\ call \in Nat /\ tool = Tool(h, k)
      /\ Compares(r) <=> Shares(config)
    BY <1>1, AtHistory
<1>3. out = Filtered(h[k].text, config) /\ config.mode # "disabled"
    BY <1>1 DEF RequestStable, OutStable
<1>4. CASE ~Compares(r)
    <2>1. Made(h, k, config) = out
        BY <1>2, <1>3, <1>4 DEF Made
    <2>2. Knows(records, h, k, config) /\ Grows(records, records)
        BY <1>2, <1>4 DEF Knows, Grows
    <2> QED BY <1>4, <2>1, <2>2
<1>5. CASE Compares(r)
    <2>1. Shares(config) /\ session \in Sessions /\ tool \in Tools \cup {"generic"}
        BY <1>1, <1>2, <1>5, SessionNamed, ToolIs
    <2>2. ASSUME NEW j \in 1 .. (k - 1), h[j].kind = "result" PROVE Knows(records, h, j, config)
        <3>1. j \in 1 .. Len(r.raw) /\ j < k
            BY <1>2
        <3>2. r.raw[j] = h[j]
            BY <3>1 DEF RequestTells, Begins
        <3>3. ResultStable(r, h, j, records)
            BY <2>2, <3>1, <3>2 DEF RequestStable
        <3> QED BY <1>3, <3>1, <3>3 DEF ResultStable
    <2> HIDE DEF k, config, out, tool, call, session
    <2>3. /\ Made(h, k, config) =
                 IF first # NoId /\ Bytes(Reference(first, out.text)) < Bytes(out)
                 THEN Reference(first, out.text) ELSE out
          /\ Knows(next, h, k, config) /\ Grows(records, next) /\ AllStable(next, h)
        <3>1. session = config.session
            BY DEF session
        <3> QED BY <1>1, <1>2, <1>3, <2>1, <2>2, <3>1, ComparedIsMade
    <2> HIDE DEF first, next
    <2> QED BY <1>5, <2>3 DEF k, config, out, tool, call, session, first, next
<1> QED BY <1>4, <1>5

LEMMA DeduplicateStable ==
    ASSUME OwnIds, Roomy, Inv, TellInv, StableInv, NEW w \in Workers, Deduplicate(w)
    PROVE  StableInv'
<1> DEFINE r == request[w]
           m == r.messages[r.at]
           session == r.config.session
           first == DuplicateOf(dedup, session, m.call, ToolOf(r), r.out)
           reference == Reference(first, r.out.text)
           refers == Compares(r) /\ first # NoId /\ Bytes(reference) < Bytes(r.out)
           out == IF refers THEN reference ELSE r.out
           next == [r EXCEPT !.out = out, !.pc = "store"]
           more == IF Compares(r) THEN Deduplicated(dedup, session, m.call, ToolOf(r), r.out)
                                  ELSE dedup
<1>1. /\ r.pc = "dedup" /\ UNCHANGED <<history, counter, memo, sent>>
      /\ request' = [request EXCEPT ![w].pc = "store",
                                    ![w].out = IF refers THEN reference ELSE @]
      /\ dedup' = more
    BY Zenon DEF Deduplicate
<1>2. w \in InFlight /\ RequestInv(r) /\ RequestTells(r, history)
    <2>1. r.pc # "idle"
        BY <1>1
    <2> QED BY <2>1, InFlightTells
<1>3. /\ RequestStable(r, history, dedup) /\ AllStable(dedup, history)
      /\ DedupInv(dedup) /\ history \in Seq(Items) /\ Well(history) /\ Len(history) <= MaxItems
    BY <1>2 DEF StableInv, Inv, TellInv, HistoryInv
<1>4. r.at <= Len(r.messages) /\ r.out \in Outs /\ r.out.text \in Texts
    BY <1>1, <1>2 DEF RequestInv, Outs, Outputs
<1>5. first \in Nat \cup {NoId}
    BY DuplicateIs DEF Inv
<1>6. /\ Made(history, r.at, r.config) = out
      /\ Knows(more, history, r.at, r.config)
      /\ Grows(dedup, more)
      /\ AllStable(more, history)
    <2> HIDE DEF r
    <2> QED BY <1>1, <1>2, <1>3, DeduplicatedIsMade
<1> HIDE DEF first, more
<1>7. out \in Outs
    <2>1. CASE refers
        BY <1>4, <1>5, <2>1, OutputsHaveLengths
    <2>2. CASE ~refers
        BY <1>4, <2>2
    <2> QED BY <2>1, <2>2
<1> HIDE DEF refers, reference
<1>8. request' = [request EXCEPT ![w] = next]
    <2>1. r = [pc |-> r.pc, config |-> r.config, raw |-> r.raw, messages |-> r.messages,
               out |-> r.out, at |-> r.at]
        BY <1>2, Zenon DEF RequestInv
    <2>2. w \in DOMAIN request
        BY DEF Inv
    <2> QED BY <1>1, <2>1, <2>2
<1> HIDE DEF out
<1>9. RequestStable(next, history, more)
    <2> HIDE DEF r
    <2>1. next = [pc |-> "store", config |-> r.config, raw |-> r.raw,
                  messages |-> r.messages, out |-> out, at |-> r.at]
        BY <1>2, <1>4, <1>7, OutputKeeps
    <2> HIDE DEF next
    <2>2. RequestStable(r, history, more)
        BY <1>3, <1>6, RequestKnowsMore
    <2>3. OutStable(next, history, more)
        BY <1>6, <2>1 DEF OutStable
    <2>4. /\ next.at <= Len(next.raw) => next.config.mode # "disabled"
          /\ \A k \in 1 .. Len(next.raw) : next.raw[k].kind = "result" =>
                ResultStable(next, history, k, more)
        BY <2>1, <2>2 DEF RequestStable, ResultStable
    <2> QED BY <2>3, <2>4 DEF RequestStable
<1> HIDE DEF next
<1>10. \A v \in InFlight' : RequestStable(request'[v], history', dedup')
    BY <1>1, <1>6, <1>8, <1>9, RequestStaysStable
<1>11. EntriesStable(memo', history', dedup')
    BY <1>1, <1>6, EntriesKnowMore DEF StableInv
<1>12. \A i \in 1 .. Len(sent') : SentStable(sent'[i], history')
    BY <1>1 DEF StableInv
<1> QED BY <1>1, <1>6, <1>10, <1>11, <1>12 DEF StableInv

LEMMA StoreStable ==
    ASSUME OwnIds, Inv, TellInv, StableInv, NEW w \in Workers, Store(w)
    PROVE  StableInv'
<1> DEFINE r == request[w]
           m == r.messages[r.at]
           session == r.config.session
           entry == [text |-> m.out.text, config |-> Fingerprint(r.config), out |-> r.out]
           state == Memoized(memo, session, m.call, entry)
           next == Replaced(r, r.out)
<1>1. /\ r.pc = "store" /\ UNCHANGED <<history, counter, dedup, sent>>
      /\ memo' = IF Remembers(r) THEN state ELSE memo
      /\ request' = [request EXCEPT ![w] = next]
    BY Zenon DEF Store
<1>2. w \in InFlight /\ RequestInv(r) /\ RequestTells(r, history)
    <2>1. r.pc # "idle"
        BY <1>1
    <2> QED BY <2>1, InFlightTells
<1>3. RequestStable(r, history, dedup) /\ Well(history)
    BY <1>2 DEF StableInv, TellInv, HistoryInv
<1> HIDE DEF r
<1>4. r.at <= Len(r.messages) /\ r.out \in Outs /\ r.config \in Configs
      /\ Len(r.messages) = Len(r.raw)
    BY <1>1, <1>2 DEF RequestInv
<1>5. /\ r.at \in 1 .. Len(history) /\ history[r.at].kind = "result"
      /\ m.call = history[r.at].id /\ m.out.text = history[r.at].text /\ m.call \in Nat
    BY <1>2, <1>3, <1>4, AtHistory
<1>6. /\ r.out = Made(history, r.at, r.config) /\ Knows(dedup, history, r.at, r.config)
      /\ r.config.mode # "disabled"
    BY <1>1, <1>3, <1>4 DEF RequestStable, OutStable
<1>7. RequestStable(next, history, dedup)
    BY <1>2, <1>3, <1>4, <1>6, ReplacedStable
<1>8. IsEntry(entry, session, m.call, history, r.at, r.config)
    <2>1. entry.text = m.out.text /\ entry.config = Fingerprint(r.config) /\ entry.out = r.out
        OBVIOUS
    <2> HIDE DEF entry
    <2> QED BY <1>5, <1>6, <2>1 DEF IsEntry
<1>9. entry.out = r.out
    OBVIOUS
<1> HIDE DEF entry, next
<1>10. EntriesStable(memo', history, dedup)
    <2>1. EntriesStable(memo, history, dedup)
        BY DEF StableInv
    <2>2. CASE Remembers(r)
        <3>1. session \in Sessions
            BY <1>2, <2>2, SessionNamed
        <3>2. MemoInv(memo)
            BY DEF Inv
        <3>3. \A s \in Held(state) : \A c \in DOMAIN state.of[s].entries :
                 \/ s = session /\ c = m.call /\ state.of[s].entries[c] = entry
                 \/ /\ s \in Held(memo) /\ c \in DOMAIN memo.of[s].entries
                    /\ state.of[s].entries[c] = memo.of[s].entries[c]
            BY <1>4, <1>5, <1>9, <3>1, <3>2, MemoizedHolds
        <3> HIDE DEF state
        <3>4. ASSUME NEW s \in Held(state), NEW c \in DOMAIN state.of[s].entries
              PROVE  \E k \in 1 .. Len(history), config \in Configs :
                        /\ IsEntry(state.of[s].entries[c], s, c, history, k, config)
                        /\ Knows(dedup, history, k, config)
            <4>1. CASE s = session /\ c = m.call /\ state.of[s].entries[c] = entry
                <5>1. IsEntry(state.of[s].entries[c], s, c, history, r.at, r.config)
                    BY <1>8, <4>1, Zenon
                <5> QED BY <1>4, <1>5, <1>6, <5>1, Zenon
            <4>2. CASE /\ s \in Held(memo) /\ c \in DOMAIN memo.of[s].entries
                       /\ state.of[s].entries[c] = memo.of[s].entries[c]
                BY <2>1, <4>2, Zenon DEF EntriesStable
            <4> QED BY <3>3, <4>1, <4>2, Zenon
        <3>5. EntriesStable(state, history, dedup)
            BY <3>4, Zenon DEF EntriesStable
        <3> QED BY <1>1, <2>2, <3>5
    <2>3. CASE ~Remembers(r)
        BY <1>1, <2>1, <2>3
    <2> QED BY <2>2, <2>3
<1>11. Grows(dedup, dedup')
    BY <1>1 DEF Grows
<1>12. \A v \in InFlight' : RequestStable(request'[v], history', dedup')
    BY <1>1, <1>7, <1>11, RequestStaysStable
<1>13. AllStable(dedup', history') /\ \A i \in 1 .. Len(sent') : SentStable(sent'[i], history')
    BY <1>1 DEF StableInv
<1> QED BY <1>1, <1>10, <1>12, <1>13 DEF StableInv

\* What is sent is added to what was sent.
LEMMA SentGrows ==
    ASSUME TellInv, Inv, NEW w \in Workers, Forward(w)
    PROVE  LET r == request[w]
           IN  /\ Len(sent) \in Nat /\ Len(sent') = Len(sent) + 1
               /\ sent'[Len(sent) + 1] =
                     [config |-> r.config, raw |-> r.raw, messages |-> r.messages,
                      recorded |-> RecordedTools(r.raw, r.messages)]
               /\ \A i \in 1 .. Len(sent) : sent'[i] = sent[i]
<1> DEFINE r == request[w]
           x == [config |-> r.config, raw |-> r.raw, messages |-> r.messages,
                 recorded |-> RecordedTools(r.raw, r.messages)]
<1>1. r.pc = "lookup" /\ sent' = Append(sent, x)
    BY Zenon DEF Forward
<1>2. RequestInv(r) /\ RequestTells(r, history)
    <2>1. r.pc # "idle"
        BY <1>1
    <2> QED BY <2>1, InFlightTells
<1>3. x \in Sent
    <2>1. r.config \in Configs /\ r.raw \in Seq(Items) /\ r.messages \in Seq(Messages)
        BY <1>2 DEF RequestInv, RequestTells, Begins
    <2>2. x \in {[config |-> config, raw |-> raw, messages |-> messages,
                  recorded |-> RecordedTools(raw, messages)] :
                     config \in Configs, raw \in Seq(Items), messages \in Seq(Messages)}
        BY <2>1
    <2> QED BY <2>2 DEF Sent
<1> HIDE DEF x
<1>4. /\ Len(sent) \in Nat /\ Len(sent') = Len(sent) + 1 /\ sent'[Len(sent) + 1] = x
      /\ \A i \in 1 .. Len(sent) : sent'[i] = sent[i]
    BY <1>1, <1>3, AppendProperties DEF TellInv
<1> QED BY <1>4 DEF x

LEMMA ForwardStable ==
    ASSUME OwnIds, Inv, TellInv, StableInv, NEW w \in Workers, Forward(w)
    PROVE  StableInv'
<1> DEFINE r == request[w]
           x == [config |-> r.config, raw |-> r.raw, messages |-> r.messages,
                 recorded |-> RecordedTools(r.raw, r.messages)]
           none == NoRequest
<1>1. /\ r.pc = "lookup" /\ r.at > Len(r.messages) /\ UNCHANGED <<history, counter, dedup, memo>>
      /\ sent' = Append(sent, x)
      /\ request' = [request EXCEPT ![w] = none]
    BY Zenon DEF Forward
<1>2. w \in InFlight /\ RequestInv(r)
    <2>1. r.pc # "idle"
        BY <1>1
    <2> QED BY <2>1, InFlightTells
<1>3. RequestStable(r, history, dedup)
    BY <1>2 DEF StableInv
<1> HIDE DEF r
<1>4. Len(r.messages) = Len(r.raw) /\ Len(r.messages) \in Nat /\ r.at \in Nat
    BY <1>2 DEF RequestInv
<1>5. x.config = r.config /\ x.raw = r.raw /\ x.messages = r.messages
    OBVIOUS
<1> HIDE DEF x
<1>6. SentStable(x, history)
    <2>1. ASSUME NEW k \in 1 .. Len(x.raw), x.raw[k].kind = "result"
          PROVE  x.messages[k].out = Made(history, k, x.config)
        <3>1. k \in 1 .. Len(r.raw) /\ r.raw[k].kind = "result" /\ k < r.at
            BY <1>1, <1>4, <1>5, <2>1
        <3>2. ResultStable(r, history, k, dedup)
            BY <1>3, <3>1 DEF RequestStable
        <3> QED BY <1>5, <3>1, <3>2 DEF ResultStable
    <2> QED BY <2>1 DEF SentStable
<1>7. /\ Len(sent) \in Nat /\ Len(sent') = Len(sent) + 1 /\ sent'[Len(sent) + 1] = x
      /\ \A i \in 1 .. Len(sent) : sent'[i] = sent[i]
    BY SentGrows DEF x, r
<1>8. \A i \in 1 .. Len(sent') : SentStable(sent'[i], history')
    <2>1. \A i \in 1 .. Len(sent') : i \in 1 .. Len(sent) \/ i = Len(sent) + 1
        BY <1>7
    <2> QED BY <1>1, <1>6, <1>7, <2>1 DEF StableInv
<1>9. none.pc = "idle"
    BY DEF NoRequest
<1> HIDE DEF none
<1>10. Grows(dedup, dedup')
    BY <1>1 DEF Grows
<1>11. \A v \in InFlight' : RequestStable(request'[v], history', dedup')
    BY <1>1, <1>9, <1>10, RequestStaysStable
<1>12. AllStable(dedup', history') /\ EntriesStable(memo', history', dedup')
    BY <1>1 DEF StableInv
<1> QED BY <1>8, <1>11, <1>12 DEF StableInv

LEMMA RestartStable ==
    ASSUME StableInv, Restart
    PROVE  StableInv'
<1>1. /\ UNCHANGED <<history, sent>> /\ dedup' = NoSessions /\ memo' = NoSessions
      /\ request' = [w \in Workers |-> NoRequest]
    BY DEF Restart
<1>2. InFlight' = {}
    BY <1>1 DEF InFlight, NoRequest
<1>3. AllStable(dedup', history') /\ EntriesStable(memo', history', dedup')
    BY <1>1, NoneHeld DEF AllStable, EntriesStable
<1>4. \A i \in 1 .. Len(sent') : SentStable(sent'[i], history')
    BY <1>1 DEF StableInv
<1> QED BY <1>2, <1>3, <1>4 DEF StableInv

LEMMA NextStable ==
    OwnIds /\ Roomy /\ Inv /\ TellInv /\ StableInv /\ [Next]_vars => StableInv'
<1> SUFFICES ASSUME OwnIds, Roomy, Inv, TellInv, StableInv, [Next]_vars PROVE StableInv'
    OBVIOUS
<1>1. CASE Client
    BY <1>1, ClientStable
<1>2. CASE Restart
    BY <1>2, RestartStable
<1>3. ASSUME NEW w \in Workers, NEW config \in Configs, Receive(w, config) PROVE StableInv'
    BY <1>3, ReceiveStable
<1>4. ASSUME NEW w \in Workers, Compress(w) PROVE StableInv'
    BY <1>4, LookupStable, DeduplicateStable, StoreStable DEF Compress
<1>5. ASSUME NEW w \in Workers, Forward(w) PROVE StableInv'
    BY <1>5, ForwardStable
<1>6. CASE UNCHANGED vars
    BY <1>6 DEF vars, StableInv, InFlight
<1> QED BY <1>1, <1>2, <1>3, <1>4, <1>5, <1>6 DEF Next

LEMMA StableInvariant ==
    ASSUME OwnIds, Roomy
    PROVE  Spec => [](Inv /\ TellInv /\ StableInv)
<1>1. Init => Inv /\ TellInv /\ StableInv
    BY InitInv, InitTells, InitStable
<1>2. Inv /\ TellInv /\ StableInv /\ [Next]_vars => (Inv /\ TellInv /\ StableInv)'
    BY NextInv, NextTells, NextStable
<1> QED BY <1>1, <1>2, PTL DEF Spec

-----------------------------------------------------------------------------
(* The cached prefix.                                                      *)

\* What was sent of a result is what is to be made of it.
LEMMA SentIs ==
    ASSUME OwnIds, TellInv, StableInv, NEW i \in 1 .. Len(sent)
    PROVE  /\ sent[i].config \in Configs /\ Begins(sent[i].raw, history)
           /\ Tells(sent[i].messages, sent[i].raw)
           /\ Len(sent[i].raw) \in Nat /\ Len(sent[i].raw) <= Len(history)
           /\ DOMAIN sent[i].messages = 1 .. Len(sent[i].raw)
           /\ \A k \in 1 .. Len(sent[i].raw) :
                 /\ k \in 1 .. Len(history) /\ sent[i].raw[k] = history[k]
                 /\ sent[i].messages[k].kind = history[k].kind
                 /\ history[k].kind = "result" =>
                       /\ sent[i].messages[k].call = history[k].id
                       /\ sent[i].messages[k].out = Made(history, k, sent[i].config)
<1> DEFINE x == sent[i]
<1>1. SentTells(x, history) /\ SentStable(x, history) /\ x \in Sent
    BY DEF TellInv, StableInv
<1>2. x.config \in Configs /\ x.messages \in Seq(Messages)
    BY <1>1 DEF Sent
<1> HIDE DEF x
<1>3. /\ Begins(x.raw, history) /\ Tells(x.messages, x.raw)
      /\ Len(x.raw) \in Nat /\ Len(history) \in Nat /\ Len(x.raw) <= Len(history)
      /\ Len(x.messages) = Len(x.raw)
      /\ \A k \in 1 .. Len(x.raw) : x.raw[k] = history[k] /\ Stands(x.messages[k], x.raw[k])
    BY <1>1 DEF SentTells, Begins, Tells
<1>4. DOMAIN x.messages = 1 .. Len(x.raw)
    BY <1>2, <1>3
<1>5. ASSUME NEW k \in 1 .. Len(x.raw)
      PROVE  /\ k \in 1 .. Len(history) /\ x.raw[k] = history[k]
             /\ x.messages[k].kind = history[k].kind
             /\ history[k].kind = "result" =>
                   /\ x.messages[k].call = history[k].id
                   /\ x.messages[k].out = Made(history, k, x.config)
    BY <1>1, <1>3 DEF Stands, SentStable
<1> QED BY <1>2, <1>3, <1>4, <1>5 DEF x

\* A history that is sent again is sent with the same outputs, whatever other requests did
\* to the records and the memo in between, and across restarts, as long as the client names
\* its calls itself and the records have room (tool_output.rs, dedup.rs, memo.rs): what a
\* result becomes depends on the history up to it and on the configuration alone.
THEOREM PrefixIsStable ==
    ASSUME OwnIds, Roomy
    PROVE  Spec => []PrefixStable
<1>1. ASSUME TellInv, StableInv PROVE PrefixStable
    <2> USE <1>1
    <2>1. DOMAIN sent = 1 .. Len(sent) /\ Len(sent) \in Nat
        BY DEF TellInv
    <2>2. ASSUME NEW i \in DOMAIN sent, NEW j \in (i + 1) .. Len(sent),
                 sent[i].config = sent[j].config,
                 NEW k \in DOMAIN sent[i].messages \cap DOMAIN sent[j].messages,
                 sent[i].messages[k].kind = "result"
          PROVE  sent[i].messages[k].out = sent[j].messages[k].out
        <3>0. i \in 1 .. Len(sent) /\ j \in 1 .. Len(sent)
            BY <2>1
        <3>1. k \in 1 .. Len(sent[i].raw) /\ k \in 1 .. Len(sent[j].raw)
            BY <3>0, SentIs
        <3>2. history[k].kind = "result"
            BY <2>2, <3>1, <3>0, SentIs
        <3>3. sent[i].messages[k].out = Made(history, k, sent[i].config)
            BY <3>1, <3>2, <3>0, SentIs
        <3>4. sent[j].messages[k].out = Made(history, k, sent[j].config)
            BY <3>1, <3>2, <3>0, SentIs
        <3> QED BY <2>2, <3>3, <3>4, Zenon
    <2> QED BY <2>2, Zenon DEF PrefixStable
<1> QED BY <1>1, StableInvariant, PTL

\* "see earlier result" is true of every reference that is sent (dedup.rs): the request holds
\* the result of the call it names before it, with the same text and itself in full.
THEOREM ReferencesAreTrue ==
    ASSUME OwnIds, Roomy
    PROVE  Spec => []ReferencesResolve
<1>1. ASSUME Inv, TellInv, StableInv PROVE ReferencesResolve
    <2> USE <1>1
    <2>1. DOMAIN sent = 1 .. Len(sent) /\ history \in Seq(Items) /\ Well(history)
        BY DEF Inv, TellInv, HistoryInv
    <2>2. ASSUME NEW i \in 1 .. Len(sent), NEW k \in DOMAIN sent[i].messages,
                 sent[i].messages[k].kind = "result",
                 sent[i].messages[k].out.form = "reference"
          PROVE  \E e \in 1 .. (k - 1) :
                    /\ sent[i].messages[e].kind = "result"
                    /\ sent[i].messages[e].call = sent[i].messages[k].out.of
                    /\ sent[i].messages[e].out.form # "reference"
                    /\ sent[i].messages[e].out.text = sent[i].messages[k].out.text
        <3> DEFINE config == sent[i].config
                   e == FirstOf(history, k)
        <3>1. k \in 1 .. Len(sent[i].raw) /\ Len(sent[i].raw) \in Nat /\ config \in Configs
            BY SentIs
        <3>2. k \in 1 .. Len(history) /\ history[k].kind = "result"
              /\ sent[i].messages[k].out = Made(history, k, config)
            BY <2>2, <3>1, SentIs
        <3>3. /\ e \in 1 .. (k - 1) /\ Made(history, k, config).of = history[e].id
              /\ Made(history, e, config).form # "reference"
              /\ Made(history, k, config).text = history[k].text
            BY <2>1, <2>2, <3>1, <3>2, MadeIs
        <3>4. history[e].kind = "result" /\ history[e].text = history[k].text
            BY <2>1, <3>2, FirstOfIs
        <3> HIDE DEF e, config
        <3>5. e \in 1 .. Len(sent[i].raw)
            BY <3>1, <3>3
        <3>6. /\ e \in 1 .. Len(history) /\ sent[i].messages[e].kind = "result"
              /\ sent[i].messages[e].call = history[e].id
              /\ sent[i].messages[e].out = Made(history, e, config)
            BY <3>4, <3>5, SentIs DEF config
        <3>7. Made(history, e, config).text = history[e].text
            BY <2>1, <3>1, <3>4, <3>6, MadeIs
        <3> QED BY <3>2, <3>3, <3>4, <3>6, <3>7
    <2> QED BY <2>1, <2>2, Zenon DEF ReferencesResolve
<1> QED BY <1>1, StableInvariant, PTL

=============================================================================
