----------------------------- MODULE DepositProofs -----------------------------
(***************************************************************************)
(* Proofs about deposits, for every set of transfers and amounts, every    *)
(* number of blocks, polls, checks, milestones and failures.               *)
(***************************************************************************)
EXTENDS DepositSystem, FiniteSetTheorems, WellFoundedInduction, TLAPS

-----------------------------------------------------------------------------
(* The invariant *)

Reading == [pc : {"read"}, awaited : BOOLEAN, balance : Nat]
Writing == [pc : {"write", "publish"}, awaited : BOOLEAN, balance : Nat, block : 0 .. MaxBlock,
            prev : Nat \cup {NoEntry}]
Row == [status : {"none", "pending", "confirming", "confirmed", "reverted"}, amount : Nat,
        source : {"none", "polling", "realtime"}, confirmations : Nat]
Loaded == [pc : {"receipt"}, t : Transfer, head : 0 .. MaxBlock, prev : Nat]
Verdict == [status : {"confirming", "confirmed", "reverted"}, confirmations : Nat]
Judged == [pc : {"update"}, t : Transfer, row : Verdict]

ChainTyping ==
    /\ head \in 0 .. MaxBlock
    /\ blockOf \in [Transfer -> 0 .. MaxBlock]
    /\ flushes \subseteq Block /\ \A f \in flushes : f <= head
    /\ \A t \in Transfer : blockOf[t] <= head

PollTyping ==
    /\ poll \in [Poll -> {Idle} \cup Reading \cup Writing]
    /\ balanceCache \in Nat \cup {NoEntry}
    /\ announced \subseteq Block
    /\ stream \subseteq Message
    /\ arrived \in Nat /\ polled \in Nat

RowTyping ==
    /\ deposit \in [Hash -> Row]
    /\ track \in [Track -> {NoTrack} \cup Loaded \cup Judged]
    /\ told \in [Transfer -> [Event -> Nat]]
    /\ retold \in [Transfer -> Nat]

DepositTyping ==
    /\ ChainTyping /\ PollTyping /\ RowTyping
    /\ \A p \in Poll : poll[p].pc = "publish" => Increased(p)

\* a check has read a head from before
HeadIsRead == \A c \in Track : track[c].pc = "receipt" => track[c].head <= head

\* a row that is followed was made by the realtime detector
FollowedIsRealtime ==
    /\ \A t \in Transfer : Open(t) => deposit[t].source = "realtime"
    /\ \A c \in Track : track[c] # NoTrack => deposit[track[c].t].source = "realtime"

\* with what was told of a transfer
AllTold(f, n) == \A m \in Milestones : m <= n => f[Milestone(m)] > 0
FinalTold(f, s) == s \in {"confirmed", "reverted"} => f[Final(s)] > 0

\* what a check has read was told before, and what it will write too
ToldBefore ==
    \A c \in Track :
        /\ track[c].pc = "receipt" => AllTold(told[track[c].t], track[c].prev)
        /\ track[c].pc = "update" =>
            /\ AllTold(told[track[c].t], track[c].row.confirmations)
            /\ FinalTold(told[track[c].t], track[c].row.status)

-----------------------------------------------------------------------------
(* What may still be told of a transfer *)

Active(t) == {c \in Track : track[c] # NoTrack /\ track[c].t = t}
InReceipt(t) == {c \in Active(t) : track[c].pc = "receipt"}

\* what a transfer of block n has at block b
After(n, b) == IF n # 0 /\ b > n THEN b - n ELSE 0

\* the count a check will write
CountOf(c) ==
    IF track[c].pc = "update" THEN track[c].row.confirmations
    ELSE After(blockOf[track[c].t], track[c].head)

\* checks that will publish milestone m
Crossing(t, m) == {c \in InReceipt(t) : track[c].prev < m /\ m <= CountOf(c)}

\* the row may be left below m, or is below m and may be looked at
Below(t, m) ==
    \/ \E c \in Active(t) : CountOf(c) < m
    \/ After(blockOf[t], head) < m
    \/ Active(t) = {} /\ deposit[t].confirmations < m

\* the row may be left, or is, with another status than s
Unsettled(t, s) ==
    \/ \E c \in Active(t) : track[c].pc = "update" /\ track[c].row.status # s
    \/ Active(t) = {} /\ deposit[t].status # s

One(b) == IF b THEN 1 ELSE 0

MilestoneBound(t, m) ==
    told[t][Milestone(m)] + Cardinality(Crossing(t, m)) + One(Below(t, m)) <= 1 + retold[t]

FinalBound(t, s) ==
    told[t][Final(s)] + Cardinality(InReceipt(t)) + One(Unsettled(t, s)) <= 1 + retold[t]

Bounds(t) ==
    /\ \A m \in Milestones : MilestoneBound(t, m)
    /\ \A s \in {"confirmed", "reverted"} : FinalBound(t, s)

TrackerInv ==
    /\ HeadIsRead /\ FollowedIsRealtime /\ ToldBefore /\ MilestonesTold
    /\ \A t \in Transfer : Bounds(t)

-----------------------------------------------------------------------------
(* What the polls may still publish *)

Cached == IF balanceCache = NoEntry THEN 0 ELSE balanceCache
Excess(a, b) == IF a > b THEN a - b ELSE 0

Alone == \A p, q \in Poll : poll[p] # Idle /\ poll[q] # Idle => p = q

\* what the balances will show when the polls go on
Coming ==
    /\ (\A p \in Poll : poll[p] = Idle) => polled + Excess(Balance, Cached) <= arrived
    /\ \A p \in Poll :
        /\ poll[p].pc = "read" =>
            polled + Excess(poll[p].balance, Cached) + Excess(Balance, poll[p].balance) <= arrived
        /\ poll[p].pc = "write" =>
            /\ Prev(p) = Cached
            /\ polled + Excess(poll[p].balance, Cached) + Excess(Balance, poll[p].balance)
                <= arrived
        /\ poll[p].pc = "publish" =>
            /\ balanceCache = poll[p].balance
            /\ polled + Increase(p) + Excess(Balance, poll[p].balance) <= arrived

\* a poll reads no more than there is, and a row has an amount
Sound ==
    /\ \A p \in Poll : poll[p] # Idle => poll[p].balance <= Total(Transfer)
    /\ \A m \in stream : m.amount > 0
    /\ \A h \in Hash : deposit[h] = NoRow \/ deposit[h].amount > 0

PollInv ==
    /\ Sound
    /\ ~repeated => Alone /\ Coming

-----------------------------------------------------------------------------
(* Where the money of the polls is *)

\* the row of a hash, or the entry that will become it
ValueOf(row, entries, h) ==
    IF row # NoRow THEN row.amount
    ELSE IF \E m \in entries : m.hash = h THEN (CHOOSE m \in entries : m.hash = h).amount ELSE 0

Value(h) == ValueOf(deposit[h], stream, h)

\* an increase that is in the cache and not yet published
PendingOf(p) == IF poll[p].pc = "publish" THEN Increase(p) ELSE 0

Recorded == SumFunction([h \in Hash |-> Value(h)]) + SumFunction([p \in Poll |-> PendingOf(p)])

OneEntryEach == \A m, n \in stream : m.hash = n.hash => m = n

Accounts ==
    /\ announced = {} /\ OneEntryEach
    /\ arrived = Total(Mined)
    /\ seen \subseteq Mined /\ Mined \ Held \subseteq seen
    /\ Total(seen) <= Recorded
    /\ arrived <= Recorded + Excess(Balance, Cached)
    /\ \A p \in Poll : poll[p].pc = "write" =>
        arrived <= Recorded + Excess(poll[p].balance, Prev(p)) + Excess(Balance, poll[p].balance)

AccountInv == mode = "polling" /\ ~missed => Accounts

DepositInv == DepositTyping /\ TrackerInv /\ PollInv /\ AccountInv

-----------------------------------------------------------------------------
(* Sums: SumFunctionOnSet folds a function over a finite set *)

\* Among sets of finite size one is the smallest; with it, what holds of a set
\* when it holds of all smaller ones holds of all.
LEMMA SmallestSet ==
    ASSUME NEW U, IsFiniteSet(U), NEW B \in SUBSET SUBSET U, B # {}
    PROVE  \E s \in B : \A r \in B : Cardinality(s) <= Cardinality(r)
  <1> DEFINE N == {Cardinality(s) : s \in B}
             L == OpToRel(<, Nat)
  <1>1. \A s \in B : Cardinality(s) \in Nat
    BY FS_Subset, FS_CardinalityType
  <1>2. N \subseteq Nat /\ N # {}
    BY <1>1
  <1>3. \A s \in B : Cardinality(s) \in N
    OBVIOUS
  <1>4. \A n \in N : \E s \in B : n = Cardinality(s)
    OBVIOUS
  <1> HIDE DEF N
  <1>5. PICK n \in N : \A m \in N : ~ (<<m, n>> \in L)
    BY <1>2, NatLessThanWellFounded, WFMin
  <1>6. \A m \in N : n <= m
    <2>1. \A m \in N : m \in Nat /\ n \in Nat
      BY <1>2
    <2>2. \A m \in N : m < n => <<m, n>> \in L
      BY <2>1 DEF OpToRel
    <2>3. \A m \in N : ~ (m < n)
      BY <1>5, <2>2
    <2> HIDE DEF L
    <2> QED BY <2>1, <2>3
  <1> QED BY <1>3, <1>4, <1>6

\* the element the fold takes next, and one step of it
Pick(s) == CHOOSE x \in s : TRUE
SumStep(f, S, g) ==
    [s \in SUBSET S |-> IF s = {} THEN 0 ELSE f[Pick(s)] + g[s \ {Pick(s)}]]
Sums(f, S) == CHOOSE g : g = SumStep(f, S, g)

\* The sum is the value of the function the fold defines by recursion.
LEMMA SumIsFold ==
    ASSUME NEW f, NEW S
    PROVE  SumFunctionOnSet(f, S) = Sums(f, S)[S]
  BY DEF SumFunctionOnSet, FoldFunctionOnSet, MapThenFoldSet, Sums, SumStep, Pick

\* A set without the element that is taken next is smaller by one.
LEMMA PickSmaller ==
    ASSUME NEW S, IsFiniteSet(S), NEW s \in SUBSET S, s # {}
    PROVE  /\ Pick(s) \in s /\ s \ {Pick(s)} \in SUBSET S
           /\ Cardinality(s) \in Nat
           /\ Cardinality(s \ {Pick(s)}) = Cardinality(s) - 1
           /\ Cardinality(s \ {Pick(s)}) \in Nat
  <1>1. Pick(s) \in s
    BY DEF Pick
  <1>2. IsFiniteSet(s)
    BY FS_Subset
  <1>3. Cardinality(s \ {Pick(s)}) = Cardinality(s) - 1 /\ IsFiniteSet(s \ {Pick(s)})
    BY <1>1, <1>2, FS_RemoveElement
  <1> QED BY <1>1, <1>2, <1>3, FS_CardinalityType

\* Such a function exists: it is built size by size.
LEMMA SumsExist ==
    ASSUME NEW S, IsFiniteSet(S), NEW f, \A x \in S : f[x] \in Nat
    PROVE  \E g \in [SUBSET S -> Nat] : g = SumStep(f, S, g)
  <1> DEFINE Upto(n, g) == \A s \in SUBSET S : Cardinality(s) <= n => g[s] = SumStep(f, S, g)[s]
             Built == {n \in Nat : \E g \in [SUBSET S -> Nat] : Upto(n, g)}
             L == OpToRel(<, Nat)
  <1>1. \A s \in SUBSET S : Cardinality(s) \in Nat /\ IsFiniteSet(s)
    BY FS_Subset, FS_CardinalityType
  <1>2. 0 \in Built
    <2> DEFINE g == [s \in SUBSET S |-> 0]
    <2>1. \A s \in SUBSET S : Cardinality(s) <= 0 => s = {}
      BY <1>1, FS_EmptySet
    <2>2. Upto(0, g)
      BY <2>1 DEF SumStep
    <2> QED BY <2>2
  <1>3. ASSUME NEW n \in Nat, n \in Built
        PROVE  n + 1 \in Built
    <2>1. PICK g \in [SUBSET S -> Nat] : Upto(n, g)
      BY <1>3
    <2> DEFINE h == SumStep(f, S, g)
    <2>2. h \in [SUBSET S -> Nat]
      <3>1. ASSUME NEW s \in SUBSET S, s # {}
            PROVE  f[Pick(s)] + g[s \ {Pick(s)}] \in Nat
        <4>1. Pick(s) \in S /\ s \ {Pick(s)} \in SUBSET S
          BY <3>1, PickSmaller
        <4> QED BY <2>1, <4>1
      <3> QED BY <3>1 DEF SumStep
    <2>3. ASSUME NEW s \in SUBSET S, Cardinality(s) <= n + 1, s # {}
          PROVE  g[s \ {Pick(s)}] = h[s \ {Pick(s)}]
      BY <2>1, <2>3, PickSmaller
    <2>4. Upto(n + 1, h)
      BY <2>3 DEF SumStep
    <2> QED BY <2>2, <2>4
  <1>4. \A n \in Nat : n \in Built
    <2> DEFINE B == {n \in Nat : n \notin Built}
    <2> HIDE DEF Built
    <2>1. SUFFICES ASSUME B # {} PROVE FALSE
      OBVIOUS
    <2>2. B \subseteq Nat /\ 0 \notin B /\ \A n \in Nat : n + 1 \in B => n \in B
      BY <1>2, <1>3
    <2> HIDE DEF B
    <2>3. PICK n \in B : \A m \in B : ~ (<<m, n>> \in L)
      BY <2>1, <2>2, NatLessThanWellFounded, WFMin
    <2>4. n \in Nat /\ n - 1 \in Nat /\ (n - 1) + 1 = n
      BY <2>2
    <2>5. n - 1 \in B
      BY <2>2, <2>4
    <2>6. <<n - 1, n>> \in L
      BY <2>4 DEF OpToRel
    <2> QED BY <2>3, <2>5, <2>6
  <1>5. PICK g \in [SUBSET S -> Nat] : Upto(Cardinality(S), g)
    BY <1>1, <1>4
  <1>6. \A s \in SUBSET S : g[s] = SumStep(f, S, g)[s]
    BY <1>5, FS_Subset
  <1> QED BY <1>6 DEF SumStep

\* The function the fold defines follows its recursion, and its values are
\* numbers.
LEMMA SumsRecursion ==
    ASSUME NEW S, IsFiniteSet(S), NEW f, \A x \in S : f[x] \in Nat
    PROVE  /\ Sums(f, S)[{}] = 0
           /\ \A s \in SUBSET S : Sums(f, S)[s] \in Nat
           /\ \A s \in SUBSET S : s # {} =>
                Sums(f, S)[s] = f[Pick(s)] + Sums(f, S)[s \ {Pick(s)}]
  <1> DEFINE g == Sums(f, S)
  <1>1. g = SumStep(f, S, g)
    BY SumsExist DEF Sums
  <1> HIDE DEF g
  <1>2. g[{}] = 0
    BY <1>1 DEF SumStep
  <1>3. \A s \in SUBSET S : s # {} => g[s] = f[Pick(s)] + g[s \ {Pick(s)}]
    BY <1>1 DEF SumStep
  <1>4. \A s \in SUBSET S : g[s] \in Nat
    <2> DEFINE B == {s \in SUBSET S : g[s] \notin Nat}
    <2>1. SUFFICES ASSUME B # {} PROVE FALSE
      OBVIOUS
    <2>2. PICK s \in B : \A r \in B : Cardinality(s) <= Cardinality(r)
      BY <2>1, SmallestSet
    <2>3. s \in SUBSET S /\ s # {} /\ g[s] \notin Nat
      BY <1>2, <2>2
    <2>4. s \ {Pick(s)} \notin B
      BY <2>2, <2>3, PickSmaller
    <2>5. g[s \ {Pick(s)}] \in Nat /\ f[Pick(s)] \in Nat
      BY <2>3, <2>4, PickSmaller
    <2>6. g[s] = f[Pick(s)] + g[s \ {Pick(s)}]
      BY <1>3, <2>3
    <2>7. f[Pick(s)] + g[s \ {Pick(s)}] \in Nat
      BY <2>5
    <2> QED BY <2>3, <2>6, <2>7
  <1> QED BY <1>2, <1>3, <1>4 DEF g

\* The sum over a set does not depend on the larger set it is folded within, nor
\* on the function outside the set.
LEMMA SumsAgree ==
    ASSUME NEW S, IsFiniteSet(S), NEW f, \A x \in S : f[x] \in Nat,
           NEW T \in SUBSET S, NEW h, \A x \in T : h[x] = f[x]
    PROVE  \A s \in SUBSET T : Sums(h, T)[s] = Sums(f, S)[s]
  <1> DEFINE B == {s \in SUBSET T : Sums(h, T)[s] # Sums(f, S)[s]}
  <1>1. SUFFICES ASSUME B # {} PROVE FALSE
    OBVIOUS
  <1>2. IsFiniteSet(T) /\ \A x \in T : h[x] \in Nat
    BY FS_Subset
  <1>3. PICK s \in B : \A r \in B : Cardinality(s) <= Cardinality(r)
    BY <1>1, <1>2, SmallestSet
  <1>4. /\ Sums(f, S)[{}] = 0
        /\ \A r \in SUBSET S : r # {} => Sums(f, S)[r] = f[Pick(r)] + Sums(f, S)[r \ {Pick(r)}]
    BY SumsRecursion
  <1>5. /\ Sums(h, T)[{}] = 0
        /\ \A r \in SUBSET T : r # {} => Sums(h, T)[r] = h[Pick(r)] + Sums(h, T)[r \ {Pick(r)}]
    BY <1>2, SumsRecursion
  <1>6. s \in SUBSET T /\ s \in SUBSET S /\ s # {} /\ Sums(h, T)[s] # Sums(f, S)[s]
    BY <1>3, <1>4, <1>5
  <1>7. /\ Pick(s) \in s /\ s \ {Pick(s)} \in SUBSET T
        /\ Cardinality(s \ {Pick(s)}) = Cardinality(s) - 1 /\ Cardinality(s) \in Nat
    BY <1>2, <1>6, PickSmaller
  <1>8. s \ {Pick(s)} \notin B
    BY <1>3, <1>7
  <1>9. Sums(h, T)[s \ {Pick(s)}] = Sums(f, S)[s \ {Pick(s)}] /\ h[Pick(s)] = f[Pick(s)]
    BY <1>6, <1>7, <1>8
  <1> QED BY <1>4, <1>5, <1>6, <1>9

\* The sum is the same for functions that agree on the set.
LEMMA SumAgrees ==
    ASSUME NEW S, IsFiniteSet(S), NEW f, \A x \in S : f[x] \in Nat,
           NEW h, \A x \in S : h[x] = f[x]
    PROVE  SumFunctionOnSet(h, S) = SumFunctionOnSet(f, S)
  BY SumsAgree, SumIsFold

\* Within a finite set the sum of a part is what the fold of the whole has for it.
LEMMA SumOfPart ==
    ASSUME NEW S, IsFiniteSet(S), NEW f, \A x \in S : f[x] \in Nat, NEW s \in SUBSET S
    PROVE  SumFunctionOnSet(f, s) = Sums(f, S)[s]
  BY SumsAgree, SumIsFold

\* The sum over nothing is 0, and a sum is a number.
LEMMA SumType ==
    ASSUME NEW S, IsFiniteSet(S), NEW f, \A x \in S : f[x] \in Nat
    PROVE  SumFunctionOnSet(f, {}) = 0 /\ SumFunctionOnSet(f, S) \in Nat
  <1>1. SumFunctionOnSet(f, {}) = Sums(f, S)[{}] /\ SumFunctionOnSet(f, S) = Sums(f, S)[S]
    BY SumOfPart
  <1> QED BY <1>1, SumsRecursion

\* Any element can be taken out of a sum first.
LEMMA SumSplits ==
    ASSUME NEW S, IsFiniteSet(S), NEW f, \A x \in S : f[x] \in Nat, NEW x \in S
    PROVE  SumFunctionOnSet(f, S) = f[x] + SumFunctionOnSet(f, S \ {x})
  <1> DEFINE g == Sums(f, S)
             B == {s \in SUBSET S : \E z \in s : g[s] # f[z] + g[s \ {z}]}
  <1>1. /\ \A s \in SUBSET S : g[s] \in Nat
        /\ \A s \in SUBSET S : s # {} => g[s] = f[Pick(s)] + g[s \ {Pick(s)}]
    BY SumsRecursion
  <1>2. SumFunctionOnSet(f, S) = g[S] /\ SumFunctionOnSet(f, S \ {x}) = g[S \ {x}]
    BY SumOfPart
  <1> HIDE DEF g
  <1>3. ASSUME B # {} PROVE FALSE
    <2>1. PICK s \in B : \A r \in B : Cardinality(s) <= Cardinality(r)
      BY <1>3, SmallestSet
    <2>2. s \in SUBSET S
      OBVIOUS
    <2>3. PICK z \in s : g[s] # f[z] + g[s \ {z}]
      OBVIOUS
    <2> DEFINE y == Pick(s)
    <2>4. /\ y \in s /\ s \ {y} \in SUBSET S
          /\ Cardinality(s \ {y}) = Cardinality(s) - 1 /\ Cardinality(s) \in Nat
      BY <2>2, <2>3, PickSmaller
    <2>5. g[s] = f[y] + g[s \ {y}]
      BY <1>1, <2>2, <2>3
    <2> HIDE DEF y
    <2>6. s \ {z} \in SUBSET S /\ Cardinality(s \ {z}) = Cardinality(s) - 1
      BY <2>2, FS_Subset, FS_RemoveElement
    <2>7. s \ {y} \notin B /\ s \ {z} \notin B
      BY <2>1, <2>4, <2>6
    <2>8. z # y /\ z \in s \ {y} /\ y \in s \ {z}
      BY <2>3, <2>4, <2>5
    <2>9. g[s \ {y}] = f[z] + g[(s \ {y}) \ {z}]
      BY <2>4, <2>7, <2>8
    <2>10. g[s \ {z}] = f[y] + g[(s \ {z}) \ {y}]
      BY <2>6, <2>7, <2>8
    <2>11. (s \ {y}) \ {z} = (s \ {z}) \ {y} /\ (s \ {z}) \ {y} \in SUBSET S
      BY <2>2
    <2>12. g[(s \ {z}) \ {y}] \in Nat /\ f[z] \in Nat /\ f[y] \in Nat
      BY <1>1, <2>2, <2>3, <2>4, <2>11
    <2> DEFINE rest == g[(s \ {z}) \ {y}]
    <2>13. /\ g[s] = f[y] + (f[z] + rest)
           /\ g[s \ {z}] = f[y] + rest
      BY <2>5, <2>9, <2>10, <2>11
    <2>14. rest \in Nat /\ f[z] \in Nat /\ f[y] \in Nat
      BY <2>12
    <2> HIDE DEF rest
    <2>15. f[y] + (f[z] + rest) = f[z] + (f[y] + rest)
      BY <2>14
    <2> QED BY <2>3, <2>13, <2>15
  <1> QED BY <1>2, <1>3

\* An element that is added adds its value.
LEMMA SumAdds ==
    ASSUME NEW S, IsFiniteSet(S), NEW x, x \notin S,
           NEW f, \A y \in S \cup {x} : f[y] \in Nat
    PROVE  SumFunctionOnSet(f, S \cup {x}) = f[x] + SumFunctionOnSet(f, S)
  <1>1. IsFiniteSet(S \cup {x}) /\ (S \cup {x}) \ {x} = S
    BY FS_AddElement
  <1> QED BY <1>1, SumSplits

\* A part of a set has no larger sum.
LEMMA SumGrows ==
    ASSUME NEW S, IsFiniteSet(S), NEW f, \A x \in S : f[x] \in Nat, NEW T \in SUBSET S
    PROVE  SumFunctionOnSet(f, T) <= SumFunctionOnSet(f, S)
  <1> DEFINE B == {R \in SUBSET S : T \subseteq R
                                   /\ ~ (SumFunctionOnSet(f, T) <= SumFunctionOnSet(f, R))}
  <1>1. ASSUME B # {} PROVE FALSE
    <2>1. PICK R \in B : \A r \in B : Cardinality(R) <= Cardinality(r)
      BY <1>1, SmallestSet
    <2>2. R \in SUBSET S /\ IsFiniteSet(R) /\ IsFiniteSet(T)
      BY FS_Subset
    <2>3. SumFunctionOnSet(f, T) \in Nat
      BY <2>2, SumType
    <2>4. PICK x \in R : x \notin T
      BY <2>3
    <2>5. SumFunctionOnSet(f, R) = f[x] + SumFunctionOnSet(f, R \ {x})
      BY <2>2, SumSplits
    <2>6. Cardinality(R \ {x}) = Cardinality(R) - 1 /\ Cardinality(R) \in Nat /\ IsFiniteSet(R \ {x})
      BY <2>2, FS_RemoveElement, FS_CardinalityType
    <2>7. R \ {x} \notin B
      BY <2>1, <2>6
    <2>8. SumFunctionOnSet(f, T) <= SumFunctionOnSet(f, R \ {x})
      BY <2>2, <2>4, <2>7
    <2>9. SumFunctionOnSet(f, R \ {x}) \in Nat /\ f[x] \in Nat
      BY <2>2, <2>6, SumType
    <2>10. SumFunctionOnSet(f, T) <= SumFunctionOnSet(f, R)
      BY <2>3, <2>5, <2>8, <2>9
    <2> QED BY <2>10
  <1> QED BY <1>1


\* Another value at one place changes the sum by the difference.
LEMMA SumUpdates ==
    ASSUME NEW S, IsFiniteSet(S), NEW f, NEW g, \A x \in S : f[x] \in Nat /\ g[x] \in Nat,
           NEW x \in S, \A y \in S : y # x => g[y] = f[y]
    PROVE  SumFunctionOnSet(g, S) + f[x] = SumFunctionOnSet(f, S) + g[x]
  <1>1. IsFiniteSet(S \ {x})
    BY FS_Subset
  <1>2. SumFunctionOnSet(g, S \ {x}) = SumFunctionOnSet(f, S \ {x})
    BY <1>1, SumAgrees
  <1>3. SumFunctionOnSet(f, S) = f[x] + SumFunctionOnSet(f, S \ {x})
    BY SumSplits
  <1>4. SumFunctionOnSet(g, S) = g[x] + SumFunctionOnSet(g, S \ {x})
    BY SumSplits
  <1>5. SumFunctionOnSet(f, S \ {x}) \in Nat
    BY <1>1, SumType
  <1> QED BY <1>2, <1>3, <1>4, <1>5

\* A sum of nothing but 0 is 0.
LEMMA SumOfZeros ==
    ASSUME NEW S, IsFiniteSet(S), NEW f, \A x \in S : f[x] = 0
    PROVE  SumFunctionOnSet(f, S) = 0
  <1> DEFINE B == {R \in SUBSET S : SumFunctionOnSet(f, R) # 0}
  <1>1. ASSUME B # {} PROVE FALSE
    <2>1. PICK R \in B : \A r \in B : Cardinality(R) <= Cardinality(r)
      BY <1>1, SmallestSet
    <2>2. R \in SUBSET S /\ IsFiniteSet(R)
      BY FS_Subset
    <2>3. PICK x \in R : TRUE
      BY <2>2, SumType
    <2>4. SumFunctionOnSet(f, R) = f[x] + SumFunctionOnSet(f, R \ {x})
      BY <2>2, SumSplits
    <2>5. Cardinality(R \ {x}) < Cardinality(R)
      <3>1. Cardinality(R \ {x}) = Cardinality(R) - 1 /\ Cardinality(R) \in Nat
        BY <2>2, FS_RemoveElement, FS_CardinalityType
      <3> QED BY <3>1
    <2>6. R \ {x} \notin B
      <3>1. Cardinality(R) \in Nat /\ Cardinality(R \ {x}) \in Nat
        BY <2>2, FS_Subset, FS_CardinalityType
      <3> QED BY <2>1, <2>5, <3>1
    <2>7. SumFunctionOnSet(f, R \ {x}) = 0
      BY <2>2, <2>6
    <2> QED BY <2>2, <2>4, <2>7
  <1> QED BY <1>1
-----------------------------------------------------------------------------
(* Types *)

\* The forms of a poll and of a check by what they are about to do.
LEMMA Forms ==
    ASSUME DepositTyping
    PROVE  /\ \A p \in Poll : poll[p].pc = "read" => poll[p] \in Reading
           /\ \A p \in Poll : poll[p].pc \in {"write", "publish"} => poll[p] \in Writing
           /\ \A p \in Poll : poll[p] # Idle => poll[p] \in Reading \cup Writing
           /\ \A c \in Track : track[c].pc = "receipt" => track[c] \in Loaded
           /\ \A c \in Track : track[c].pc = "update" => track[c] \in Judged
           /\ \A c \in Track : track[c] # NoTrack => track[c] \in Loaded \cup Judged
  BY DEF DepositTyping, PollTyping, RowTyping, Idle, Reading, Writing, NoTrack, Loaded, Judged

\* The balance is a sum of amounts.
LEMMA BalanceType ==
    ASSUME NEW S \in SUBSET Transfer
    PROVE  Total(S) \in Nat /\ IsFiniteSet(S) /\ Total(S) <= Total(Transfer) /\ Total({}) = 0
  <1>1. IsFiniteSet(S) /\ \A t \in Transfer : Amount[t] \in Nat
    BY FS_Subset, ChainAssumption
  <1> QED BY <1>1, ChainAssumption, SumType, SumGrows DEF Total

\* The first state has the types.
LEMMA InitTyping ==
    ASSUME Init
    PROVE  DepositTyping
  <1> USE DEF Init, ChainInit, DetectionInit, RecordsInit
  <1>1. ChainTyping
    BY ChainAssumption DEF ChainTyping, Block
  <1>2. PollTyping
    BY DEF PollTyping
  <1>3. RowTyping
    BY DEF RowTyping, NoRow, Row
  <1>4. \A p \in Poll : poll[p].pc # "publish"
    BY DEF Idle
  <1> QED BY <1>1, <1>2, <1>3, <1>4 DEF DepositTyping

\* A block more, and what the subscription knows of it.
LEMMA NextBlock ==
    ASSUME DepositTyping, head < MaxBlock, head' = head + 1, Announce
    PROVE  /\ head' \in Block /\ head' \in 0 .. MaxBlock
           /\ announced' \subseteq Block
           /\ UNCHANGED <<mode, poll, balanceCache, stream>>
           /\ \A t \in Transfer : blockOf[t] \in 0 .. MaxBlock /\ blockOf[t] < head'
           /\ \A f \in flushes : f \in Block /\ f < head'
  <1>1. head' \in Block /\ head' \in 0 .. MaxBlock
    BY ChainAssumption DEF DepositTyping, ChainTyping, Block
  <1>2. \A t \in Transfer : blockOf[t] \in 0 .. MaxBlock /\ blockOf[t] < head'
    BY ChainAssumption DEF DepositTyping, ChainTyping
  <1>3. \A f \in flushes : f \in Block /\ f < head'
    BY ChainAssumption DEF DepositTyping, ChainTyping, Block
  <1> QED BY <1>1, <1>2, <1>3 DEF Announce, DepositTyping, PollTyping

\* The chain keeps the types.
LEMMA ChainKeepsTyping ==
    ASSUME DepositTyping, Mining \/ Chain
    PROVE  DepositTyping'
  <1> USE DEF DepositTyping, ChainTyping, PollTyping, RowTyping
  <1>1. UNCHANGED <<deposit, track, told, polled>>
    BY DEF Mining, Chain, records, history
  <1>2. UNCHANGED <<poll, balanceCache, stream>> /\ announced' \subseteq Block
    BY NextBlock DEF Mining, Chain, Announce, MineOther, MineTransfer, MineFlush, detectors
  <1>3. CASE Mining
    <2>1. ChainTyping'
      <3>1. head < MaxBlock /\ head' = head + 1 /\ Announce /\ UNCHANGED <<blockOf, flushes>>
        BY <1>3 DEF Mining, MineOther
      <3>2. /\ head' \in 0 .. MaxBlock
            /\ \A t \in Transfer : blockOf[t] \in 0 .. MaxBlock /\ blockOf[t] < head'
            /\ \A f \in flushes : f \in Block /\ f < head'
        BY <3>1, NextBlock
      <3>3. \A t \in Transfer : blockOf'[t] <= head'
        BY <3>1, <3>2, ChainAssumption
      <3>4. \A f \in flushes' : f \in Block /\ f <= head'
        BY <3>1, <3>2, ChainAssumption DEF Block
      <3> QED BY <3>1, <3>2, <3>3, <3>4
    <2> QED BY <1>1, <1>2, <1>3, <2>1 DEF Mining, history, Increased, Prev
  <1>4. CASE \E t \in Transfer : /\ MineTransfer(t) /\ Announce
                                 /\ arrived' = arrived + Amount[t] /\ UNCHANGED retold
    <2>1. PICK t \in Transfer : /\ MineTransfer(t) /\ Announce
                                /\ arrived' = arrived + Amount[t] /\ UNCHANGED retold
      BY <1>4
    <2>2. ChainTyping'
      <3>1. /\ head < MaxBlock /\ head' = head + 1 /\ Announce /\ UNCHANGED flushes
            /\ blockOf' = [blockOf EXCEPT ![t] = head']
        BY <2>1 DEF MineTransfer
      <3>2. /\ head' \in 0 .. MaxBlock
            /\ \A u \in Transfer : blockOf[u] \in 0 .. MaxBlock /\ blockOf[u] < head'
            /\ \A f \in flushes : f \in Block /\ f < head'
        BY <3>1, NextBlock
      <3>3. blockOf' \in [Transfer -> 0 .. MaxBlock]
        BY <3>1, <3>2
      <3>4. \A u \in Transfer : blockOf'[u] <= head'
        BY <3>1, <3>2, ChainAssumption
      <3>5. \A f \in flushes : f <= head'
        BY <3>2, ChainAssumption DEF Block
      <3> QED BY <3>1, <3>2, <3>3, <3>4, <3>5
    <2>3. arrived' \in Nat
      BY <2>1, ChainAssumption
    <2> QED BY <1>1, <1>2, <2>1, <2>2, <2>3 DEF Increased, Prev
  <1>5. CASE MineFlush /\ Announce /\ UNCHANGED <<arrived, retold>>
    <2>1. ChainTyping'
      <3>1. /\ head < MaxBlock /\ head' = head + 1 /\ Announce /\ UNCHANGED blockOf
            /\ flushes' = flushes \cup {head'}
        BY <1>5 DEF MineFlush
      <3>2. /\ head' \in 0 .. MaxBlock /\ head' \in Block
            /\ \A t \in Transfer : blockOf[t] \in 0 .. MaxBlock /\ blockOf[t] < head'
            /\ \A f \in flushes : f \in Block /\ f < head'
        BY <3>1, NextBlock
      <3>3. \A t \in Transfer : blockOf[t] <= head'
        BY <3>2, ChainAssumption
      <3>4. \A f \in flushes' : f \in Block /\ f <= head'
        BY <3>1, <3>2, ChainAssumption DEF Block
      <3> QED BY <3>1, <3>2, <3>3, <3>4
    <2> QED BY <1>1, <1>2, <1>5, <2>1 DEF Increased, Prev
  <1>6. CASE \E t \in Transfer : /\ Orphan(t) /\ UNCHANGED <<detectors, arrived>>
                                 /\ retold' = [retold EXCEPT ![t] = @ + 1]
    <2>1. PICK t \in Transfer : /\ Orphan(t) /\ UNCHANGED <<detectors, arrived>>
                                /\ retold' = [retold EXCEPT ![t] = @ + 1]
      BY <1>6
    <2>2. ChainTyping'
      BY <2>1, ChainAssumption DEF Orphan
    <2>3. retold' \in [Transfer -> Nat]
      BY <2>1
    <2> QED BY <1>1, <1>2, <2>1, <2>2, <2>3 DEF Increased, Prev
  <1> QED BY <1>3, <1>4, <1>5, <1>6 DEF Chain

\* An entry of the stream.
LEMMA EntryType ==
    ASSUME NEW h \in Hash, NEW n \in Nat, NEW s \in {"polling", "realtime"}
    PROVE  [hash |-> h, amount |-> n, source |-> s] \in Message
  BY DEF Message

\* An increase is a positive number.
LEMMA IncreaseType ==
    ASSUME DepositTyping, NEW p \in Poll, poll[p].pc \in {"write", "publish"}
    PROVE  /\ poll[p].balance \in Nat /\ Prev(p) \in Nat /\ poll[p].block \in 0 .. MaxBlock
           /\ Increased(p) => Increase(p) \in Nat \ {0}
  <1>1. poll[p] \in Writing
    BY Forms
  <1> QED BY <1>1 DEF Writing, Prev, Increase, Increased

\* A step of one poll keeps the types if its new state has one.
LEMMA PollStepTyping ==
    ASSUME DepositTyping, UNCHANGED <<eth, records, announced, arrived, retold>>,
           NEW p \in Poll, NEW v \in {Idle} \cup Reading \cup Writing,
           poll' = [poll EXCEPT ![p] = v],
           v.pc = "publish" => v.balance > (IF v.prev = NoEntry THEN 0 ELSE v.prev),
           balanceCache' \in Nat \cup {NoEntry}, stream' \subseteq Message, polled' \in Nat
    PROVE  DepositTyping'
  <1> USE DEF DepositTyping, eth, records
  <1>1. ChainTyping' /\ RowTyping'
    BY DEF ChainTyping, RowTyping
  <1>2. PollTyping'
    BY DEF PollTyping
  <1>3. \A q \in Poll : poll'[q] = IF q = p THEN v ELSE poll[q]
    BY DEF PollTyping
  <1>4. \A q \in Poll : poll'[q].pc = "publish" => Increased(q)'
    BY <1>3 DEF Increased, Prev
  <1> QED BY <1>1, <1>2, <1>4

\* The polls keep the types.
LEMMA PollingKeepsTyping ==
    ASSUME DepositTyping, NEW p \in Poll, Polling(p)
    PROVE  DepositTyping'
  <1>1. UNCHANGED <<eth, records, announced, arrived, retold>>
    BY DEF Polling, ReadBalances, ReadCaches, WriteCache, PublishIncrease
  <1>2. /\ balanceCache \in Nat \cup {NoEntry} /\ stream \subseteq Message /\ polled \in Nat
        /\ poll \in [Poll -> {Idle} \cup Reading \cup Writing]
        /\ head \in 0 .. MaxBlock
    BY DEF DepositTyping, PollTyping, ChainTyping
  <1>3. CASE ReadBalances(p) /\ UNCHANGED polled
    <2> DEFINE v == [pc |-> "read", awaited |-> TRUE, balance |-> Balance]
    <2>1. v \in Reading /\ v.pc # "publish"
      BY BalanceType DEF Reading, Balance, Held, Mined
    <2>2. poll' = [poll EXCEPT ![p] = v] /\ UNCHANGED <<balanceCache, stream, polled>>
      BY <1>3 DEF ReadBalances
    <2> HIDE DEF v
    <2> QED BY <1>1, <1>2, <2>1, <2>2, PollStepTyping
  <1>4. CASE ReadCaches(p) /\ UNCHANGED polled
    <2>1. poll[p] \in Reading
      BY <1>4, Forms DEF ReadCaches
    <2>2. PICK b \in 0 .. head :
            poll' = [poll EXCEPT ![p] = [pc |-> "write", awaited |-> @.awaited,
                                         balance |-> @.balance, block |-> b,
                                         prev |-> balanceCache]]
      BY <1>4 DEF ReadCaches
    <2> DEFINE v == [pc |-> "write", awaited |-> poll[p].awaited, balance |-> poll[p].balance,
                     block |-> b, prev |-> balanceCache]
    <2>3. v \in Writing /\ v.pc # "publish"
      <3>1. b \in 0 .. MaxBlock
        BY <1>2, ChainAssumption
      <3> QED BY <1>2, <2>1, <3>1 DEF Reading, Writing
    <2>4. poll' = [poll EXCEPT ![p] = v] /\ UNCHANGED <<balanceCache, stream, polled>>
      BY <1>2, <1>4, <2>2 DEF ReadCaches
    <2> HIDE DEF v
    <2> QED BY <1>1, <1>2, <2>3, <2>4, PollStepTyping
  <1>5. CASE WriteCache(p) /\ UNCHANGED polled
    <2>1. poll[p] \in Writing /\ poll[p].balance \in Nat
      BY <1>5, Forms DEF WriteCache, Writing
    <2> DEFINE v == IF Increased(p) THEN [poll[p] EXCEPT !.pc = "publish"] ELSE Idle
    <2>2. v \in {Idle} \cup Writing
      BY <2>1 DEF Writing
    <2>3. v.pc = "publish" => v.balance > (IF v.prev = NoEntry THEN 0 ELSE v.prev)
      BY <2>1 DEF Increased, Prev, Idle, Writing
    <2>4. /\ poll' = [poll EXCEPT ![p] = v] /\ balanceCache' = poll[p].balance
          /\ UNCHANGED <<stream, polled>>
      BY <1>2, <1>5 DEF WriteCache
    <2> HIDE DEF v
    <2> QED BY <1>1, <1>2, <2>1, <2>2, <2>3, <2>4, PollStepTyping
  <1>6. CASE PublishIncrease(p) /\ polled' = polled + Increase(p)
    <2>1. Increase(p) \in Nat /\ polled' \in Nat
      <3>1. poll[p].pc = "publish" /\ Increased(p)
        BY <1>6 DEF PublishIncrease, DepositTyping
      <3>2. Increase(p) \in Nat
        BY <3>1, IncreaseType
      <3> QED BY <1>2, <1>6, <3>2
    <2>2. stream' \subseteq Message
      BY <1>2, <1>6, <2>1, EntryType DEF PublishIncrease
    <2>3. poll' = [poll EXCEPT ![p] = Idle] /\ UNCHANGED balanceCache /\ Idle.pc # "publish"
      BY <1>6 DEF PublishIncrease, Idle
    <2> QED BY <1>1, <1>2, <2>1, <2>2, <2>3, PollStepTyping
  <1> QED BY <1>3, <1>4, <1>5, <1>6 DEF Polling

\* Polls that are slow or fail, the end of the cached balance, and the blocks of
\* the subscription keep the types.
LEMMA TroubleKeepsTyping ==
    ASSUME DepositTyping, (\E p \in Poll : PollTrouble(p)) \/ Expiry \/ Subscription
    PROVE  DepositTyping'
  <1>2. /\ balanceCache \in Nat \cup {NoEntry} /\ stream \subseteq Message /\ polled \in Nat
        /\ poll \in [Poll -> {Idle} \cup Reading \cup Writing]
    BY DEF DepositTyping, PollTyping
  <1>3. ASSUME NEW p \in Poll, PollTrouble(p) PROVE DepositTyping'
    <2>1. UNCHANGED <<eth, records, announced, arrived, retold, balanceCache, stream, polled>>
      BY <1>3 DEF PollTrouble, TimesOut, PollFails
    <2>2. CASE TimesOut(p)
      <3> DEFINE v == [poll[p] EXCEPT !.awaited = FALSE]
      <3>1. poll[p] \in Reading \cup Writing
        BY <2>2, Forms DEF TimesOut, InFlight
      <3>2. v \in Reading \cup Writing /\ v.pc = poll[p].pc
        BY <3>1 DEF Reading, Writing
      <3>3. v.pc = "publish" => v.balance > (IF v.prev = NoEntry THEN 0 ELSE v.prev)
        BY <3>1, <3>2 DEF DepositTyping, Increased, Prev, Reading, Writing
      <3>4. poll' = [poll EXCEPT ![p] = v]
        BY <1>2, <2>2 DEF TimesOut
      <3> HIDE DEF v
      <3> QED BY <1>2, <2>1, <3>2, <3>3, <3>4, PollStepTyping
    <2>3. CASE PollFails(p)
      BY <1>2, <2>1, <2>3, PollStepTyping DEF PollFails, Idle
    <2> QED BY <1>3, <2>2, <2>3 DEF PollTrouble
  <1>4. CASE Expiry
    BY <1>4 DEF Expiry, BalanceExpires, DepositTyping, ChainTyping, PollTyping, RowTyping,
                eth, records, Increased, Prev
  <1>5. CASE Subscription
    <2>1. PICK b \in Block : ProcessBlock(b)
      BY <1>5 DEF Subscription
    <2>2. stream' \subseteq Message
      <3>1. \A t \in Transfer : [hash |-> t, amount |-> Amount[t], source |-> "realtime"] \in Message
        BY EntryType, ChainAssumption DEF Hash
      <3> QED BY <1>2, <2>1, <3>1 DEF ProcessBlock, Mined
    <2>3. announced' \subseteq Block
      BY <2>1 DEF ProcessBlock, DepositTyping, PollTyping
    <2> QED BY <1>5, <2>1, <2>2, <2>3 DEF Subscription, ProcessBlock, DepositTyping, ChainTyping,
                PollTyping, RowTyping, eth, records, history, Increased, Prev
  <1> QED BY <1>3, <1>4, <1>5


\* What an entry is inserted as is a row with an amount.
LEMMA RowOfType ==
    ASSUME NEW m \in Message
    PROVE  RowOf(m) \in Row /\ RowOf(m) # NoRow
  BY RecordsAssumption DEF Message, RowOf, Row, NoRow

\* The entries that are handled keep the types.
LEMMA PersistenceKeepsTyping ==
    ASSUME DepositTyping, Persistence
    PROVE  DepositTyping'
  <1>1. PICK m \in stream : HandleEntry(m, TRUE) \/ HandleEntry(m, FALSE) \/ SkipEntry(m)
    BY DEF Persistence
  <1>2. m \in Message /\ m.hash \in Hash /\ RowOf(m) \in Row
    BY RowOfType DEF DepositTyping, PollTyping, Message
  <1>3. deposit' \in [Hash -> Row]
    BY <1>1, <1>2 DEF HandleEntry, SkipEntry, records, Upsert, DepositTyping, RowTyping
  <1>4. stream' \subseteq Message
    BY <1>1 DEF HandleEntry, SkipEntry, DepositTyping, PollTyping
  <1>5. UNCHANGED <<eth, mode, poll, balanceCache, announced, track, told, arrived, polled, retold>>
    BY <1>1 DEF Persistence, HandleEntry, SkipEntry, records
  <1> QED BY <1>3, <1>4, <1>5 DEF DepositTyping, ChainTyping, PollTyping, RowTyping, eth, Increased, Prev

\* A count of confirmations and a verdict.
LEMMA OutcomeType ==
    ASSUME DepositTyping, NEW t \in Transfer, NEW b \in Nat
    PROVE  /\ Outcome(t, b) \in Verdict
           /\ Outcome(t, b).confirmations = After(blockOf[t], b)
           /\ Outcome(t, b).status =
                IF blockOf[t] = 0 THEN "reverted"
                ELSE IF Outcome(t, b).confirmations >= Required THEN "confirmed" ELSE "confirming"
  <1>1. blockOf[t] \in Nat
    BY ChainAssumption DEF DepositTyping, ChainTyping
  <1> DEFINE count == IF b > blockOf[t] THEN b - blockOf[t] ELSE 0
  <1>2. count \in Nat
    BY <1>1
  <1>3. Outcome(t, b) = IF t \notin Mined THEN [status |-> "reverted", confirmations |-> 0]
                        ELSE [status |-> IF count >= Required THEN "confirmed" ELSE "confirming",
                              confirmations |-> count]
    BY DEF Outcome
  <1>4. t \in Mined <=> blockOf[t] # 0
    BY DEF Mined
  <1> HIDE DEF count
  <1>5. Outcome(t, b) \in Verdict
    BY <1>2, <1>3 DEF Verdict
  <1>6. Outcome(t, b).confirmations = IF blockOf[t] # 0 THEN count ELSE 0
    BY <1>3, <1>4
  <1>7. Outcome(t, b).status = IF blockOf[t] = 0 THEN "reverted"
                ELSE IF Outcome(t, b).confirmations >= Required THEN "confirmed" ELSE "confirming"
    BY <1>3, <1>4
  <1> QED BY <1>5, <1>6, <1>7 DEF count, After

\* A step of one check keeps the types if what it becomes has one.
LEMMA CheckStepTyping ==
    ASSUME DepositTyping, UNCHANGED <<eth, detectors, arrived, polled>>,
           deposit' \in [Hash -> Row], told' \in [Transfer -> [Event -> Nat]],
           NEW c \in Track, NEW v \in {NoTrack} \cup Loaded \cup Judged,
           track' = [track EXCEPT ![c] = v],
           NEW t \in Transfer,
           retold' = retold \/ retold' = [retold EXCEPT ![t] = @ + 1]
    PROVE  DepositTyping'
  <1> USE DEF DepositTyping, eth, detectors
  <1>1. ChainTyping' /\ PollTyping'
    BY DEF ChainTyping, PollTyping
  <1>2. track' \in [Track -> {NoTrack} \cup Loaded \cup Judged]
    BY DEF RowTyping
  <1>3. retold' \in [Transfer -> Nat]
    BY DEF RowTyping
  <1>4. RowTyping'
    BY <1>2, <1>3 DEF RowTyping
  <1> QED BY <1>1, <1>4 DEF Increased, Prev

\* An event more is a number more.
LEMMA PublishType ==
    ASSUME DepositTyping, NEW t \in Transfer, NEW E, Publish(t, E)
    PROVE  /\ told' \in [Transfer -> [Event -> Nat]]
           /\ \A u \in Transfer : u # t => told'[u] = told[u]
           /\ \A e \in Event : told'[t][e] = IF e \in E THEN told[t][e] + 1 ELSE told[t][e]
  <1>1. told \in [Transfer -> [Event -> Nat]]
    BY DEF DepositTyping, RowTyping
  <1> DEFINE v == [e \in Event |-> IF e \in E THEN told[t][e] + 1 ELSE told[t][e]]
  <1>2. told' = [told EXCEPT ![t] = v]
    BY <1>1 DEF Publish
  <1>3. v \in [Event -> Nat] /\ \A e \in Event : v[e] = IF e \in E THEN told[t][e] + 1 ELSE told[t][e]
    BY <1>1
  <1> HIDE DEF v
  <1> QED BY <1>1, <1>2, <1>3

\* What a check has read.
LEMMA CheckType ==
    ASSUME DepositTyping, NEW c \in Track
    PROVE  /\ track[c] # NoTrack => track[c].t \in Transfer /\ track[c].pc \in {"receipt", "update"}
           /\ track[c].pc = "receipt" => /\ track[c] # NoTrack /\ track[c].t \in Transfer
                                         /\ track[c].head \in Nat /\ track[c].prev \in Nat
           /\ track[c].pc = "update" => /\ track[c] # NoTrack /\ track[c].t \in Transfer
                                        /\ track[c].row \in Verdict
  BY Forms, ChainAssumption DEF Loaded, Judged, NoTrack

\* The steps of a check keep the types.
LEMMA CheckKeepsTyping ==
    ASSUME DepositTyping, NEW c \in Track,
           (\E t \in Transfer : StartCheck(c, t)) \/ GoOn(c) \/ CheckTrouble(c)
    PROVE  DepositTyping'
  <1>1. UNCHANGED <<eth, detectors, arrived, polled>>
    BY DEF StartCheck, GoOn, CheckTrouble, tracking
  <1>2. /\ deposit \in [Hash -> Row] /\ told \in [Transfer -> [Event -> Nat]]
        /\ track \in [Track -> {NoTrack} \cup Loaded \cup Judged]
        /\ head \in 0 .. MaxBlock
    BY DEF DepositTyping, RowTyping, ChainTyping
  <1>3. ASSUME NEW t \in Transfer, StartCheck(c, t) PROVE DepositTyping'
    <2> DEFINE v == [pc |-> "receipt", t |-> t, head |-> head, prev |-> deposit[t].confirmations]
    <2>1. v \in Loaded
      <3>1. deposit[t].confirmations \in Nat
        BY <1>2 DEF Row, Hash
      <3> QED BY <1>2, <3>1 DEF Loaded
    <2>2. track' = [track EXCEPT ![c] = v] /\ UNCHANGED <<deposit, told>>
      BY <1>3 DEF StartCheck, LoadDeposit
    <2>3. retold' = retold \/ retold' = [retold EXCEPT ![t] = @ + 1]
      BY <1>3 DEF StartCheck
    <2> HIDE DEF v
    <2> QED BY <1>1, <1>2, <2>1, <2>2, <2>3, CheckStepTyping
  <1>4. CASE ReadReceipt(c) /\ UNCHANGED retold
    <2> DEFINE t == track[c].t
               row == Outcome(t, track[c].head)
               v == [pc |-> "update", t |-> t, row |-> row]
    <2>1. t \in Transfer /\ track[c].head \in Nat
      BY <1>4, CheckType DEF ReadReceipt
    <2>2. row \in Verdict
      BY <2>1, OutcomeType
    <2>3. told' \in [Transfer -> [Event -> Nat]]
      BY <1>4, <2>1, PublishType DEF ReadReceipt
    <2>4. v \in Judged
      <3> HIDE DEF row, t
      <3> QED BY <2>1, <2>2 DEF Judged
    <2>5. track' = [track EXCEPT ![c] = v] /\ UNCHANGED deposit
      BY <1>4 DEF ReadReceipt
    <2> HIDE DEF v, t
    <2> QED BY <1>1, <1>2, <1>4, <2>1, <2>3, <2>4, <2>5, CheckStepTyping
  <1>5. CASE UpdateDeposit(c) /\ UNCHANGED retold
    <2> DEFINE t == track[c].t
               d == [deposit[t] EXCEPT !.status = track[c].row.status,
                                       !.confirmations = track[c].row.confirmations]
    <2>1. t \in Transfer /\ track[c].row \in Verdict
      BY <1>5, CheckType DEF UpdateDeposit
    <2>2. d \in Row
      <3>1. deposit[t] \in Row
        BY <1>2, <2>1 DEF Hash
      <3>2. track[c].row.status \in {"confirming", "confirmed", "reverted"} /\ track[c].row.confirmations \in Nat
        BY <2>1 DEF Verdict
      <3> QED BY <3>1, <3>2 DEF Row
    <2>3. deposit' = [deposit EXCEPT ![t] = d]
      BY <1>2, <1>5, <2>1 DEF UpdateDeposit, Hash
    <2> HIDE DEF d
    <2>4. deposit' \in [Hash -> Row]
      BY <1>2, <2>2, <2>3
    <2>5. track' = [track EXCEPT ![c] = NoTrack] /\ UNCHANGED told
      BY <1>5 DEF UpdateDeposit
    <2> QED BY <1>1, <1>2, <1>5, <2>1, <2>4, <2>5, CheckStepTyping
  <1>6. CASE CheckTrouble(c)
    <2>1. track[c] # NoTrack /\ track[c].t \in Transfer
      BY <1>6, CheckType DEF CheckTrouble, TrackFails, PublishFails
    <2>2. told' \in [Transfer -> [Event -> Nat]]
      BY <1>2, <1>6, <2>1, PublishType DEF CheckTrouble, TrackFails, PublishFails
    <2>3. /\ track' = [track EXCEPT ![c] = NoTrack] /\ UNCHANGED deposit
          /\ retold' = [retold EXCEPT ![track[c].t] = @ + 1]
      BY <1>6 DEF CheckTrouble, TrackFails, PublishFails
    <2> QED BY <1>1, <1>2, <2>1, <2>2, <2>3, CheckStepTyping
  <1> QED BY <1>3, <1>4, <1>5, <1>6 DEF GoOn

\* Every step keeps the types.
LEMMA NextKeepsTyping ==
    ASSUME DepositTyping, [Next]_vars
    PROVE  DepositTyping'
  <1>1. CASE UNCHANGED vars
    BY <1>1 DEF vars, eth, detectors, records, history, DepositTyping, ChainTyping, PollTyping,
                RowTyping, Increased, Prev
  <1> QED BY <1>1, ChainKeepsTyping, PollingKeepsTyping, TroubleKeepsTyping,
             PersistenceKeepsTyping, CheckKeepsTyping DEF Next

-----------------------------------------------------------------------------
(* What the polls publish *)

\* Arithmetic of what a later balance exceeds an earlier one by.
LEMMA ExcessFacts ==
    ASSUME NEW a \in Nat, NEW b \in Nat, NEW c \in Nat
    PROVE  /\ Excess(a, b) \in Nat
           /\ Excess(a, a) = 0
           /\ Excess(c, a) <= Excess(b, a) + Excess(c, b)
           /\ a > b => Excess(a, b) = a - b
           /\ ~(a > b) => Excess(a, b) = 0
  <1>1. /\ Excess(a, b) = IF a > b THEN a - b ELSE 0
        /\ Excess(a, a) = IF a > a THEN a - a ELSE 0
        /\ Excess(c, a) = IF c > a THEN c - a ELSE 0
        /\ Excess(b, a) = IF b > a THEN b - a ELSE 0
        /\ Excess(c, b) = IF c > b THEN c - b ELSE 0
    BY DEF Excess
  <1> QED BY <1>1

\* A balance that gains k exceeds an earlier one by k more at the most.
LEMMA ExcessGrows ==
    ASSUME NEW a \in Nat, NEW c \in Nat, NEW d \in Nat, NEW k \in Nat, d <= c + k
    PROVE  Excess(d, a) <= Excess(c, a) + k
  <1>1. /\ Excess(d, a) = IF d > a THEN d - a ELSE 0
        /\ Excess(c, a) = IF c > a THEN c - a ELSE 0
    BY DEF Excess
  <1> QED BY <1>1

\* The balance is a number, now and after a step.
LEMMA Balances ==
    /\ Balance \in Nat /\ Balance <= Total(Transfer)
    /\ Balance' \in Nat /\ Balance' <= Total(Transfer)
    /\ Total(Transfer) \in Nat
  <1>1. Held \in SUBSET Transfer /\ Held' \in SUBSET Transfer
    BY DEF Held, Mined
  <1> QED BY <1>1, BalanceType DEF Balance

\* A transfer more is its amount more.
LEMMA TotalAdds ==
    ASSUME NEW S \in SUBSET Transfer, NEW t \in Transfer, t \notin S
    PROVE  Total(S \cup {t}) = Amount[t] + Total(S)
  <1>1. IsFiniteSet(S) /\ \A u \in S \cup {t} : Amount[u] \in Nat
    BY FS_Subset, ChainAssumption
  <1> QED BY <1>1, SumAdds DEF Total

\* A part of the transfers pays no more.
LEMMA TotalGrows ==
    ASSUME NEW S \in SUBSET Transfer, NEW T \in SUBSET S
    PROVE  Total(T) <= Total(S)
  <1>1. IsFiniteSet(S) /\ \A u \in S : Amount[u] \in Nat
    BY FS_Subset, ChainAssumption
  <1> QED BY <1>1, SumGrows DEF Total

\* The block a transfer is mined in makes the balance the larger by it.
LEMMA MinedIsHeld ==
    ASSUME DepositTyping, NEW t \in Transfer, MineTransfer(t)
    PROVE  /\ Held' = Held \cup {t} /\ Mined' = Mined \cup {t}
           /\ t \notin Mined /\ t \notin Held
           /\ Balance' = Amount[t] + Balance
  <1>1. /\ blockOf' = [blockOf EXCEPT ![t] = head'] /\ head' = head + 1 /\ flushes' = flushes
        /\ t \notin Mined
    BY DEF MineTransfer
  <1>2. head' # 0 /\ \A f \in flushes : f < head'
    BY <1>1, ChainAssumption DEF DepositTyping, ChainTyping, Block
  <1>3. blockOf'[t] = head' /\ \A u \in Transfer : u # t => blockOf'[u] = blockOf[u]
    BY <1>1 DEF DepositTyping, ChainTyping
  <1>4. Mined' = Mined \cup {t}
    BY <1>2, <1>3 DEF Mined
  <1>5. Held' = Held \cup {t}
    BY <1>1, <1>2, <1>3, <1>4 DEF Held
  <1>6. t \notin Held /\ Held \in SUBSET Transfer
    BY <1>1 DEF Held, Mined
  <1> QED BY <1>1, <1>4, <1>5, <1>6, TotalAdds DEF Balance

\* A flush leaves nothing.
LEMMA FlushedIsGone ==
    ASSUME DepositTyping, MineFlush
    PROVE  Held' = {} /\ Balance' = 0 /\ Mined' = Mined
  <1>1. flushes' = flushes \cup {head'} /\ head' = head + 1 /\ blockOf' = blockOf
    BY DEF MineFlush
  <1>2. \A t \in Transfer : ~(head' < blockOf[t])
    BY <1>1, ChainAssumption DEF DepositTyping, ChainTyping
  <1>3. Held' = {}
    BY <1>1, <1>2 DEF Held, Mined
  <1> QED BY <1>1, <1>3, BalanceType DEF Balance, Mined

\* What the balance gains has arrived.
LEMMA GainsArrive ==
    ASSUME DepositTyping, Mining \/ Chain
    PROVE  \E k \in Nat : arrived' = arrived + k /\ Balance' <= Balance + k
  <1>1. arrived \in Nat
    BY DEF DepositTyping, PollTyping
  <1>2. CASE Mining
    BY <1>1, <1>2, Balances DEF Mining, MineOther, history, Balance, Held, Mined
  <1>3. ASSUME NEW t \in Transfer, MineTransfer(t), arrived' = arrived + Amount[t]
        PROVE  \E k \in Nat : arrived' = arrived + k /\ Balance' <= Balance + k
    BY <1>1, <1>3, MinedIsHeld, Balances, ChainAssumption
  <1>4. CASE MineFlush /\ UNCHANGED arrived
    BY <1>1, <1>4, FlushedIsGone, Balances
  <1>5. ASSUME NEW t \in Transfer, Orphan(t), UNCHANGED arrived
        PROVE  \E k \in Nat : arrived' = arrived + k /\ Balance' <= Balance + k
    <2>1. blockOf' = [blockOf EXCEPT ![t] = 0] /\ flushes' = flushes
      BY <1>5 DEF Orphan
    <2>2. Held' \subseteq Held
      BY <2>1 DEF Held, Mined, DepositTyping, ChainTyping
    <2>3. Balance' <= Balance
      BY <2>2, TotalGrows DEF Balance, Held, Mined
    <2> QED BY <1>1, <1>5, <2>3, Balances
  <1> QED BY <1>2, <1>3, <1>4, <1>5 DEF Chain

\* The cached balance is a number.
LEMMA CachedType ==
    ASSUME DepositTyping
    PROVE  /\ Cached \in Nat /\ arrived \in Nat /\ polled \in Nat
           /\ balanceCache # NoEntry => Cached = balanceCache
           /\ balanceCache = NoEntry => Cached = 0
           /\ \A n \in Nat : balanceCache' = n => Cached' = n
  BY DetectionAssumption DEF DepositTyping, PollTyping, Cached

\* What the chain adds to the balance may still be published.
LEMMA ChainKeepsComing ==
    ASSUME DepositTyping, Coming, UNCHANGED <<poll, balanceCache, polled>>,
           NEW k \in Nat, arrived' = arrived + k, Balance' <= Balance + k
    PROVE  Coming'
  <1> USE Balances, CachedType
  <1>1. \A p \in Poll : Prev(p)' = Prev(p) /\ Increase(p)' = Increase(p)
    BY DEF Prev, Increase
  <1>2. Cached' = Cached
    BY DEF Cached
  <1>3. \A a \in Nat : /\ Excess(Balance', a) \in Nat /\ Excess(Balance, a) \in Nat
                       /\ Excess(Balance', a) <= Excess(Balance, a) + k
    BY ExcessGrows, ExcessFacts
  <1>4. ASSUME \A p \in Poll : poll[p] = Idle
        PROVE  polled + Excess(Balance', Cached) <= arrived + k
    <2>1. polled + Excess(Balance, Cached) <= arrived
      BY <1>4 DEF Coming
    <2> QED BY <1>3, <2>1
  <1>5. ASSUME NEW p \in Poll, poll[p].pc \in {"read", "write"}
        PROVE  polled + Excess(poll[p].balance, Cached) + Excess(Balance', poll[p].balance)
                <= arrived + k
    <2>1. poll[p].balance \in Nat
      BY <1>5, Forms DEF Reading, Writing
    <2>2. polled + Excess(poll[p].balance, Cached) + Excess(Balance, poll[p].balance) <= arrived
      BY <1>5 DEF Coming
    <2>3. Excess(poll[p].balance, Cached) \in Nat
      BY <2>1, ExcessFacts
    <2> QED BY <1>3, <2>1, <2>2, <2>3
  <1>6. ASSUME NEW p \in Poll, poll[p].pc = "publish"
        PROVE  polled + Increase(p) + Excess(Balance', poll[p].balance) <= arrived + k
    <2>1. poll[p].balance \in Nat /\ Increase(p) \in Nat
      BY <1>6, IncreaseType DEF DepositTyping
    <2>2. polled + Increase(p) + Excess(Balance, poll[p].balance) <= arrived
      BY <1>6 DEF Coming
    <2> QED BY <1>3, <2>1, <2>2
  <1> QED BY <1>1, <1>2, <1>4, <1>5, <1>6 DEF Coming

\* The step of the one poll that is under way.
LEMMA PollKeepsComing ==
    ASSUME DepositTyping, NEW p \in Poll, NEW v \in {Idle} \cup Reading \cup Writing,
           poll' = [poll EXCEPT ![p] = v], \A q \in Poll \ {p} : poll[q] = Idle,
           UNCHANGED <<arrived, Balance>>,
           v = Idle => polled' + Excess(Balance, Cached') <= arrived,
           v.pc \in {"read", "write"} =>
              polled' + Excess(v.balance, Cached') + Excess(Balance, v.balance) <= arrived,
           v.pc = "write" => (IF v.prev = NoEntry THEN 0 ELSE v.prev) = Cached',
           v.pc = "publish" =>
              /\ balanceCache' = v.balance
              /\ polled' + (v.balance - (IF v.prev = NoEntry THEN 0 ELSE v.prev))
                    + Excess(Balance, v.balance) <= arrived
    PROVE  Alone' /\ Coming'
  <1>1. poll'[p] = v /\ \A q \in Poll \ {p} : poll'[q] = Idle
    BY DEF DepositTyping, PollTyping
  <1>2. /\ Prev(p)' = IF v.prev = NoEntry THEN 0 ELSE v.prev
        /\ Increase(p)' = v.balance - (IF v.prev = NoEntry THEN 0 ELSE v.prev)
    BY <1>1 DEF Prev, Increase
  <1>3. Idle.pc = "idle"
    BY DEF Idle
  <1>4. Alone'
    BY <1>1 DEF Alone
  <1>5. Coming'
    BY <1>1, <1>2, <1>3 DEF Coming
  <1> QED BY <1>4, <1>5

\* A poll leaves the rest to come.
LEMMA PollingKeepsComing ==
    ASSUME DepositTyping, Alone, Coming, NEW p \in Poll, Polling(p), ~repeated'
    PROVE  Alone' /\ Coming'
  <1> USE CachedType, Balances
  <1>1. UNCHANGED <<arrived, Balance>>
    BY DEF Polling, eth, Balance, Held, Mined
  <1>2. poll \in [Poll -> {Idle} \cup Reading \cup Writing] /\ Idle.pc = "idle"
    BY DEF DepositTyping, PollTyping, Idle
  <1>3. poll[p] # Idle => \A q \in Poll \ {p} : poll[q] = Idle
    BY DEF Alone
  <1>4. CASE /\ ReadBalances(p) /\ UNCHANGED polled
             /\ repeated' = (repeated \/ \E q \in Poll : poll[q] # Idle)
    <2> DEFINE v == [pc |-> "read", awaited |-> TRUE, balance |-> Balance]
    <2>1. \A q \in Poll : poll[q] = Idle
      BY <1>4
    <2>2. v \in Reading /\ v.pc = "read" /\ v.balance = Balance /\ v # Idle
      BY <1>2 DEF Reading
    <2>3. poll' = [poll EXCEPT ![p] = v] /\ UNCHANGED <<balanceCache, polled, Cached>>
      BY <1>4 DEF ReadBalances, Cached
    <2>4. polled + Excess(Balance, Cached) + Excess(Balance, Balance) <= arrived
      <3>1. polled + Excess(Balance, Cached) <= arrived
        BY <2>1 DEF Coming
      <3>2. Excess(Balance, Balance) = 0 /\ Excess(Balance, Cached) \in Nat
        BY ExcessFacts
      <3> QED BY <3>1, <3>2
    <2> HIDE DEF v
    <2> QED BY <1>1, <2>1, <2>2, <2>3, <2>4, PollKeepsComing
  <1>5. CASE ReadCaches(p) /\ UNCHANGED polled
    <2>1. poll[p] \in Reading /\ poll[p].pc = "read" /\ poll[p] # Idle
      BY <1>2, <1>5, Forms DEF ReadCaches
    <2>2. PICK b \in 0 .. head :
            poll' = [poll EXCEPT ![p] = [pc |-> "write", awaited |-> @.awaited,
                                         balance |-> @.balance, block |-> b,
                                         prev |-> balanceCache]]
      BY <1>5 DEF ReadCaches
    <2> DEFINE v == [pc |-> "write", awaited |-> poll[p].awaited, balance |-> poll[p].balance,
                     block |-> b, prev |-> balanceCache]
    <2>3. /\ v \in Writing /\ v.pc = "write" /\ v.balance = poll[p].balance /\ v # Idle
          /\ v.prev = balanceCache
      <3>1. b \in 0 .. MaxBlock /\ balanceCache \in Nat \cup {NoEntry}
        BY ChainAssumption DEF DepositTyping, ChainTyping, PollTyping
      <3> QED BY <1>2, <2>1, <3>1 DEF Reading, Writing
    <2>4. poll' = [poll EXCEPT ![p] = v] /\ UNCHANGED <<balanceCache, polled, Cached>>
      BY <1>2, <1>5, <2>2 DEF ReadCaches, Cached
    <2>5. polled + Excess(poll[p].balance, Cached) + Excess(Balance, poll[p].balance) <= arrived
      BY <2>1 DEF Coming
    <2> HIDE DEF v
    <2> QED BY <1>1, <1>3, <2>1, <2>3, <2>4, <2>5, PollKeepsComing
  <1>6. CASE WriteCache(p) /\ UNCHANGED polled
    <2>1. /\ poll[p] \in Writing /\ poll[p].balance \in Nat /\ poll[p].pc = "write" /\ poll[p] # Idle
          /\ Prev(p) \in Nat
      BY <1>2, <1>6, Forms, IncreaseType DEF WriteCache, Writing
    <2> DEFINE v == IF Increased(p) THEN [poll[p] EXCEPT !.pc = "publish"] ELSE Idle
    <2>2. v \in {Idle} \cup Writing
      BY <2>1 DEF Writing
    <2>3. /\ poll' = [poll EXCEPT ![p] = v] /\ balanceCache' = poll[p].balance
          /\ UNCHANGED polled /\ Cached' = poll[p].balance
      BY <1>2, <1>6, <2>1 DEF WriteCache
    <2>4. /\ Prev(p) = Cached
          /\ polled + Excess(poll[p].balance, Cached) + Excess(Balance, poll[p].balance) <= arrived
      BY <2>1 DEF Coming
    <2>5. CASE Increased(p)
      <3>1. v.pc = "publish" /\ v.balance = poll[p].balance /\ v.prev = poll[p].prev /\ v # Idle
        BY <1>2, <2>1, <2>5 DEF Writing
      <3>2. polled + (poll[p].balance - Prev(p)) + Excess(Balance, poll[p].balance) <= arrived
        BY <2>1, <2>4, <2>5, ExcessFacts DEF Increased
      <3> HIDE DEF v
      <3> QED BY <1>1, <1>3, <2>1, <2>2, <2>3, <3>1, <3>2, PollKeepsComing DEF Prev
    <2>6. CASE ~Increased(p)
      <3>1. v = Idle
        BY <2>6
      <3>2. polled + Excess(Balance, poll[p].balance) <= arrived
        <4>1. Excess(poll[p].balance, Cached) = 0 /\ Excess(Balance, poll[p].balance) \in Nat
          BY <2>1, <2>4, <2>6, ExcessFacts DEF Increased
        <4> QED BY <2>4, <4>1
      <3> HIDE DEF v
      <3> QED BY <1>1, <1>2, <1>3, <2>1, <2>2, <2>3, <3>1, <3>2, PollKeepsComing
    <2> QED BY <2>5, <2>6
  <1>7. CASE PublishIncrease(p) /\ polled' = polled + Increase(p)
    <2>1. poll[p].pc = "publish" /\ poll[p] # Idle /\ poll[p].balance \in Nat /\ Increase(p) \in Nat
      BY <1>2, <1>7, IncreaseType DEF PublishIncrease, DepositTyping
    <2>2. poll' = [poll EXCEPT ![p] = Idle] /\ UNCHANGED <<balanceCache, Cached>>
      BY <1>7 DEF PublishIncrease, Cached
    <2>3. balanceCache = poll[p].balance
          /\ polled + Increase(p) + Excess(Balance, poll[p].balance) <= arrived
      BY <2>1 DEF Coming
    <2>4. Cached = poll[p].balance
      BY <2>1, <2>3, DetectionAssumption DEF Cached
    <2> QED BY <1>1, <1>2, <1>3, <1>7, <2>1, <2>2, <2>3, <2>4, PollKeepsComing
  <1> QED BY <1>4, <1>5, <1>6, <1>7 DEF Polling

\* Trouble with a poll and the end of the cached balance leave the rest to come.
LEMMA TroubleKeepsComing ==
    ASSUME DepositTyping, Alone, Coming, (\E p \in Poll : PollTrouble(p)) \/ Expiry, ~repeated'
    PROVE  Alone' /\ Coming'
  <1> USE CachedType, Balances
  <1>1. UNCHANGED <<arrived, polled, Balance>>
    BY DEF PollTrouble, Expiry, eth, Balance, Held, Mined
  <1>2. poll \in [Poll -> {Idle} \cup Reading \cup Writing] /\ Idle.pc = "idle"
    BY DEF DepositTyping, PollTyping, Idle
  <1>3. ASSUME NEW p \in Poll, PollTrouble(p) PROVE Alone' /\ Coming'
    <2>1. poll[p] # Idle /\ \A q \in Poll \ {p} : poll[q] = Idle
      BY <1>3 DEF Alone, PollTrouble, TimesOut, PollFails, InFlight
    <2>2. poll[p] \in Reading \cup Writing /\ poll[p].balance \in Nat /\ UNCHANGED <<balanceCache, Cached>>
      BY <1>3, <2>1, Forms DEF Reading, Writing, PollTrouble, TimesOut, PollFails, Cached
    <2>3. /\ poll[p].pc \in {"read", "write"} =>
              polled + Excess(poll[p].balance, Cached) + Excess(Balance, poll[p].balance) <= arrived
          /\ poll[p].pc = "write" => Prev(p) = Cached
          /\ poll[p].pc = "publish" =>
              balanceCache = poll[p].balance
              /\ polled + Increase(p) + Excess(Balance, poll[p].balance) <= arrived
      BY DEF Coming
    <2>4. CASE TimesOut(p)
      <3> DEFINE v == [poll[p] EXCEPT !.awaited = FALSE]
      <3>1. /\ v \in Reading \cup Writing /\ v.pc = poll[p].pc /\ v.balance = poll[p].balance
            /\ v.pc # "read" => v.prev = poll[p].prev
            /\ v # Idle
        BY <1>2, <2>2 DEF Reading, Writing
      <3>2. poll' = [poll EXCEPT ![p] = v]
        BY <1>2, <2>4 DEF TimesOut
      <3> HIDE DEF v
      <3> QED BY <1>1, <2>1, <2>2, <2>3, <3>1, <3>2, PollKeepsComing DEF Prev, Increase
    <2>5. CASE PollFails(p)
      <3>1. poll' = [poll EXCEPT ![p] = Idle]
        BY <2>5 DEF PollFails
      <3>2. polled + Excess(Balance, Cached) <= arrived
        <4>1. CASE poll[p].pc \in {"read", "write"}
          <5>1. /\ Excess(Balance, Cached) <= Excess(poll[p].balance, Cached) + Excess(Balance, poll[p].balance)
                /\ Excess(Balance, Cached) \in Nat /\ Excess(poll[p].balance, Cached) \in Nat
                /\ Excess(Balance, poll[p].balance) \in Nat
            BY <2>2, ExcessFacts
          <5> QED BY <2>3, <4>1, <5>1
        <4>2. CASE poll[p].pc = "publish"
          <5>1. Increase(p) \in Nat /\ Cached = poll[p].balance
            BY <2>2, <2>3, <4>2, IncreaseType, DetectionAssumption DEF DepositTyping, Cached
          <5>2. Excess(Balance, poll[p].balance) \in Nat
            BY <2>2, ExcessFacts
          <5> QED BY <2>3, <4>2, <5>1, <5>2
        <4> QED BY <2>2, <4>1, <4>2 DEF Reading, Writing
      <3> QED BY <1>1, <1>2, <2>1, <2>2, <3>1, <3>2, PollKeepsComing
    <2> QED BY <1>3, <2>4, <2>5 DEF PollTrouble
  <1>4. CASE Expiry
    <2>1. (\A p \in Poll : poll[p] = Idle) /\ poll' = poll /\ balanceCache = 0 /\ balanceCache' = NoEntry
      BY <1>4 DEF Expiry, BalanceExpires
    <2>2. Cached = 0 /\ Cached' = 0
      BY <2>1 DEF Cached
    <2>3. \A p \in Poll : poll'[p] = Idle
      BY <2>1
    <2> QED BY <1>1, <1>2, <2>1, <2>2, <2>3 DEF Alone, Coming
  <1> QED BY <1>3, <1>4

\* The polls never read more than all transfers pay, and every entry and row has an
\* amount.
LEMMA NextKeepsSound ==
    ASSUME DepositTyping, Sound, FollowedIsRealtime, [Next]_vars
    PROVE  Sound'
  <1> USE DEF Sound
  <1>1. \A p \in Poll : poll'[p] # Idle => poll'[p].balance <= Total(Transfer)
    <2>1. poll \in [Poll -> {Idle} \cup Reading \cup Writing]
      BY DEF DepositTyping, PollTyping
    <2>2. ASSUME NEW p \in Poll, Polling(p) \/ PollTrouble(p), NEW q \in Poll, poll'[q] # Idle
          PROVE  poll'[q].balance <= Total(Transfer)
      <3>1. CASE ReadBalances(p)
        BY <2>1, <2>2, <3>1, Balances DEF ReadBalances
      <3>2. CASE ReadCaches(p) \/ WriteCache(p) \/ TimesOut(p)
        <4>1. poll[p] # Idle /\ poll[p] \in Reading \cup Writing
          BY <3>2, Forms DEF ReadCaches, WriteCache, TimesOut, InFlight, Idle
        <4>2. poll'[q] # Idle => poll'[q].balance = poll[q].balance /\ poll[q] # Idle
          BY <2>1, <3>2, <4>1 DEF ReadCaches, WriteCache, TimesOut, Reading, Writing
        <4> QED BY <2>2, <4>2
      <3>3. CASE PublishIncrease(p) \/ PollFails(p)
        BY <2>1, <2>2, <3>3 DEF PublishIncrease, PollFails
      <3> QED BY <2>2, <3>1, <3>2, <3>3 DEF Polling, PollTrouble
    <2>3. UNCHANGED poll \/ \E p \in Poll : Polling(p) \/ PollTrouble(p)
      BY DEF Next, vars, detectors, Mining, Chain, Announce, Expiry, BalanceExpires, Subscription,
             ProcessBlock, Persistence, HandleEntry, SkipEntry, records, StartCheck, GoOn, CheckTrouble, tracking
    <2> QED BY <2>2, <2>3
  <1>2. \A m \in stream' : m.amount > 0
    <2>1. ASSUME NEW p \in Poll, PublishIncrease(p) PROVE \A m \in stream' : m.amount > 0
      <3>1. Increase(p) > 0
        BY <2>1, IncreaseType DEF PublishIncrease, DepositTyping
      <3> QED BY <2>1, <3>1 DEF PublishIncrease
    <2>2. ASSUME NEW b \in Block, ProcessBlock(b) PROVE \A m \in stream' : m.amount > 0
      BY <2>2, ChainAssumption DEF ProcessBlock, Mined
    <2>3. \/ stream' \subseteq stream
          \/ \E p \in Poll : PublishIncrease(p)
          \/ \E b \in Block : ProcessBlock(b)
      BY DEF Next, vars, detectors, Mining, Chain, Announce, Expiry, BalanceExpires, Subscription,
             Persistence, HandleEntry, SkipEntry, records, StartCheck, GoOn, CheckTrouble, tracking, Polling,
             ReadBalances, ReadCaches, WriteCache, PollTrouble, TimesOut, PollFails
    <2> QED BY <2>1, <2>2, <2>3
  <1>3. \A h \in Hash : deposit'[h] = NoRow \/ deposit'[h].amount > 0
    <2>1. deposit \in [Hash -> Row]
      BY DEF DepositTyping, RowTyping
    <2>2. ASSUME NEW m \in stream, Upsert(m) PROVE \A h \in Hash : deposit'[h] = NoRow \/ deposit'[h].amount > 0
      <3>1. m.hash \in Hash /\ m.amount > 0 /\ RowOf(m).amount = m.amount
        BY DEF DepositTyping, PollTyping, Message, RowOf
      <3> QED BY <2>1, <2>2, <3>1 DEF Upsert
    <2>3. ASSUME NEW c \in Track, UpdateDeposit(c)
          PROVE  \A h \in Hash : deposit'[h] = NoRow \/ deposit'[h].amount > 0
      <3> DEFINE t == track[c].t
      <3>1. t \in Transfer /\ deposit[t].source = "realtime" /\ deposit[t] \in Row
        BY <2>1, <2>3, CheckType DEF UpdateDeposit, FollowedIsRealtime, Hash
      <3>2. deposit[t].amount > 0
        BY <3>1 DEF Hash, NoRow
      <3>3. \A h \in Hash : deposit'[h].amount = deposit[h].amount /\ (h # t => deposit'[h] = deposit[h])
        BY <2>1, <2>3, <3>1 DEF UpdateDeposit, Hash, Row
      <3> QED BY <3>2, <3>3
    <2>4. \/ UNCHANGED deposit
          \/ \E m \in stream : Upsert(m)
          \/ \E c \in Track : UpdateDeposit(c)
      BY DEF Next, vars, records, Mining, Chain, Expiry, Subscription, Persistence, HandleEntry,
             SkipEntry, StartCheck, LoadDeposit, GoOn, ReadReceipt, CheckTrouble, TrackFails, PublishFails,
             Polling, PollTrouble
    <2> QED BY <2>2, <2>3, <2>4
  <1> QED BY <1>1, <1>2, <1>3

\* Every step keeps what the polls may publish.
LEMMA NextKeepsPollInv ==
    ASSUME DepositTyping, FollowedIsRealtime, PollInv, [Next]_vars
    PROVE  PollInv'
  <1>1. Sound'
    BY NextKeepsSound DEF PollInv
  <1>2. SUFFICES ASSUME ~repeated' PROVE Alone' /\ Coming'
    BY <1>1 DEF PollInv
  <1>3. ~repeated
    BY <1>2 DEF Next, vars, history, Mining, Chain, Polling, PollTrouble, Expiry, Subscription,
                Persistence, StartCheck, GoOn, CheckTrouble, tracking
  <1>4. Alone /\ Coming
    BY <1>3 DEF PollInv
  <1>5. CASE Mining \/ Chain
    <2>1. UNCHANGED <<poll, balanceCache, polled>>
      BY <1>5 DEF Mining, Chain, Announce, detectors, history
    <2> QED BY <1>4, <1>5, <2>1, GainsArrive, ChainKeepsComing DEF Alone
  <1>6. CASE UNCHANGED <<eth, poll, balanceCache, polled, arrived>>
    <2>1. UNCHANGED <<Balance, Cached>>
      BY <1>6 DEF eth, Balance, Held, Mined, Cached
    <2> QED BY <1>4, <1>6, <2>1 DEF Alone, Coming, Prev, Increase
  <1>7. CASE Subscription \/ Persistence \/ UNCHANGED vars
             \/ \E c \in Track : (\E t \in Transfer : StartCheck(c, t)) \/ GoOn(c) \/ CheckTrouble(c)
    BY <1>6, <1>7 DEF Subscription, ProcessBlock, Persistence, HandleEntry, SkipEntry, records, vars, detectors, history,
              StartCheck, GoOn, CheckTrouble, tracking
  <1> QED BY <1>2, <1>4, <1>5, <1>7, PollingKeepsComing, TroubleKeepsComing DEF Next

-----------------------------------------------------------------------------
(* What the tracker has told *)

\* The steps that touch neither rows nor checks.
LEMMA OtherSteps ==
    ASSUME [Next]_vars
    PROVE  \/ Mining \/ Chain
           \/ UNCHANGED <<eth, records, retold>>
           \/ Persistence
           \/ \E c \in Track : (\E t \in Transfer : StartCheck(c, t)) \/ GoOn(c) \/ CheckTrouble(c)
  BY DEF Next, vars, history, Polling, PollTrouble, Expiry, Subscription

\* An entry becomes the row of its hash only when there is none; a realtime row is
\* pending and without confirmations.
LEMMA NewRow ==
    ASSUME DepositTyping, Persistence, NEW h \in Hash
    PROVE  /\ UNCHANGED <<eth, track, told, retold>>
           /\ deposit[h] # NoRow => deposit'[h] = deposit[h]
           /\ deposit'[h] # deposit[h] =>
                /\ deposit[h] = NoRow
                /\ deposit'[h].source \in {"polling", "realtime"}
                /\ deposit'[h].source = "polling" => deposit'[h].status = "confirmed"
                /\ deposit'[h].source = "realtime" =>
                     deposit'[h].status = "pending" /\ deposit'[h].confirmations = 0
  <1>1. PICK m \in stream : /\ Upsert(m) \/ UNCHANGED deposit
                           /\ UNCHANGED <<eth, track, told, retold>>
    BY DEF Persistence, HandleEntry, SkipEntry, records
  <1>2. m \in Message /\ deposit \in [Hash -> Row]
    BY DEF DepositTyping, PollTyping, RowTyping
  <1>3. deposit'[h] = deposit[h] \/ (deposit[h] = NoRow /\ deposit'[h] = RowOf(m))
    BY <1>1, <1>2 DEF Upsert
  <1> QED BY <1>1, <1>2, <1>3 DEF RowOf, Message

\* The row of a transfer is written by the check that has judged it.
LEMMA RowWritten ==
    ASSUME DepositTyping, NEW c \in Track, UpdateDeposit(c)
    PROVE  /\ track[c].t \in Transfer /\ track[c].row \in Verdict
           /\ track' = [track EXCEPT ![c] = NoTrack] /\ UNCHANGED told
           /\ \A h \in Hash : h # track[c].t => deposit'[h] = deposit[h]
           /\ deposit'[track[c].t].source = deposit[track[c].t].source
           /\ deposit'[track[c].t].status = track[c].row.status
           /\ deposit'[track[c].t].confirmations = track[c].row.confirmations
           /\ deposit'[track[c].t].amount = deposit[track[c].t].amount
  <1>1. track[c].t \in Transfer /\ track[c].row \in Verdict
    BY CheckType DEF UpdateDeposit
  <1>2. track[c].t \in Hash /\ deposit \in [Hash -> Row]
    BY <1>1 DEF Hash, DepositTyping, RowTyping
  <1> DEFINE t == track[c].t
             d == [deposit[t] EXCEPT !.status = track[c].row.status,
                                     !.confirmations = track[c].row.confirmations]
  <1>3. deposit' = [deposit EXCEPT ![t] = d]
    BY <1>2 DEF UpdateDeposit
  <1>4. /\ d.source = deposit[t].source /\ d.status = track[c].row.status
        /\ d.confirmations = track[c].row.confirmations /\ d.amount = deposit[t].amount
    BY <1>2 DEF Row
  <1> HIDE DEF d
  <1> QED BY <1>1, <1>2, <1>3, <1>4 DEF UpdateDeposit

\* A check reads a head that is not above the chain's.
LEMMA NextKeepsHeadIsRead ==
    ASSUME DepositTyping, HeadIsRead, [Next]_vars
    PROVE  HeadIsRead'
  <1>1. head \in Nat /\ track \in [Track -> {NoTrack} \cup Loaded \cup Judged]
    BY ChainAssumption DEF DepositTyping, ChainTyping, RowTyping
  <1>2. CASE Mining \/ Chain
    <2>1. track' = track /\ head' \in {head, head + 1}
      BY <1>2 DEF Mining, Chain, records, MineOther, MineTransfer, MineFlush, Orphan
    <2> QED BY <1>1, <2>1, CheckType DEF HeadIsRead
  <1>3. CASE Persistence \/ UNCHANGED <<eth, records, retold>>
    BY <1>3 DEF HeadIsRead, Persistence, HandleEntry, SkipEntry, eth, records
  <1>4. ASSUME NEW c \in Track,
               (\E t \in Transfer : StartCheck(c, t)) \/ GoOn(c) \/ CheckTrouble(c)
        PROVE  HeadIsRead'
    <2>1. head' = head
      BY <1>4 DEF StartCheck, GoOn, CheckTrouble, tracking, eth
    <2>2. \A d \in Track : d # c => track'[d] = track[d]
      BY <1>1, <1>4 DEF StartCheck, LoadDeposit, GoOn, ReadReceipt, UpdateDeposit, CheckTrouble,
                        TrackFails, PublishFails
    <2>3. track'[c].pc = "receipt" => track'[c].head = head
      BY <1>1, <1>4 DEF StartCheck, LoadDeposit, GoOn, ReadReceipt, UpdateDeposit, CheckTrouble,
                        TrackFails, PublishFails, NoTrack
    <2> QED BY <1>1, <2>1, <2>2, <2>3 DEF HeadIsRead
  <1> QED BY <1>2, <1>3, <1>4, OtherSteps

\* Only realtime rows are followed.
LEMMA NextKeepsFollowed ==
    ASSUME DepositTyping, FollowedIsRealtime, [Next]_vars
    PROVE  FollowedIsRealtime'
  <1>1. /\ track \in [Track -> {NoTrack} \cup Loaded \cup Judged]
        /\ \A t \in Transfer : t \in Hash
        /\ \A c \in Track : track[c] # NoTrack => track[c].t \in Transfer
    BY CheckType DEF DepositTyping, RowTyping, Hash
  <1>2. CASE Mining \/ Chain \/ UNCHANGED <<eth, records, retold>>
    BY <1>2 DEF FollowedIsRealtime, Open, Mining, Chain, records
  <1>3. CASE Persistence
    <2>1. track' = track
      BY <1>3 DEF Persistence, HandleEntry, SkipEntry, records
    <2>2. ASSUME NEW t \in Transfer
          PROVE  /\ Open(t)' => deposit'[t].source = "realtime"
                 /\ deposit[t].source = "realtime" => deposit'[t].source = "realtime"
      <3>1. CASE deposit'[t] = deposit[t]
        BY <3>1 DEF FollowedIsRealtime, Open
      <3>2. CASE deposit'[t] # deposit[t]
        BY <1>1, <1>3, <3>2, NewRow DEF Open, NoRow
      <3> QED BY <3>1, <3>2
    <2> QED BY <1>1, <2>1, <2>2 DEF FollowedIsRealtime
  <1>4. ASSUME NEW c \in Track,
               (\E t \in Transfer : StartCheck(c, t)) \/ GoOn(c) \/ CheckTrouble(c)
        PROVE  FollowedIsRealtime'
    <2>1. \A d \in Track : d # c => track'[d] = track[d]
      BY <1>1, <1>4 DEF StartCheck, LoadDeposit, GoOn, ReadReceipt, UpdateDeposit, CheckTrouble,
                        TrackFails, PublishFails
    <2>2. track'[c] = NoTrack \/ (track[c] # NoTrack /\ track'[c].t = track[c].t)
          \/ \E t \in Transfer : Open(t) /\ track'[c].t = t
      BY <1>1, <1>4 DEF StartCheck, LoadDeposit, GoOn, ReadReceipt, UpdateDeposit, CheckTrouble,
                        TrackFails, PublishFails, NoTrack
    <2>3. \A t \in Transfer : deposit[t].source = "realtime" => deposit'[t].source = "realtime"
      BY <1>1, <1>4, RowWritten DEF StartCheck, LoadDeposit, GoOn, ReadReceipt, CheckTrouble,
                        TrackFails, PublishFails
    <2>4. \A t \in Transfer : Open(t)' => deposit'[t].source = "realtime"
      <3>1. CASE UNCHANGED deposit
        BY <3>1 DEF FollowedIsRealtime, Open
      <3>2. CASE UpdateDeposit(c)
        <4>1. track[c] # NoTrack
          BY <3>2 DEF UpdateDeposit, NoTrack
        <4> QED BY <1>1, <3>2, <4>1, RowWritten DEF FollowedIsRealtime, Open
      <3> QED BY <1>4, <3>1, <3>2 DEF StartCheck, LoadDeposit, GoOn, ReadReceipt, CheckTrouble,
                        TrackFails, PublishFails
    <2> QED BY <1>1, <2>1, <2>2, <2>3, <2>4 DEF FollowedIsRealtime
  <1> QED BY <1>2, <1>3, <1>4, OtherSteps

\* An event that was published stays published.
LEMMA ToldGrows ==
    ASSUME DepositTyping, [Next]_vars
    PROVE  \A t \in Transfer, e \in Event : told[t][e] \in Nat /\ told'[t][e] >= told[t][e]
  <1>1. \A t \in Transfer, e \in Event : told[t][e] \in Nat
    BY DEF DepositTyping, RowTyping
  <1>2. ASSUME NEW t \in Transfer, NEW E, Publish(t, E)
        PROVE  \A u \in Transfer, e \in Event : told'[u][e] >= told[u][e]
    BY <1>1, <1>2, PublishType
  <1>3. ASSUME NEW c \in Track, ReadReceipt(c) \/ PublishFails(c)
        PROVE  \E t \in Transfer : \E E : Publish(t, E)
    <2>1. track[c].t \in Transfer
      BY <1>3, CheckType DEF ReadReceipt, PublishFails
    <2> QED BY <1>3, <2>1 DEF ReadReceipt, PublishFails
  <1>4. UNCHANGED told \/ \E c \in Track : ReadReceipt(c) \/ PublishFails(c)
    BY OtherSteps DEF Mining, Chain, records, Persistence, HandleEntry, SkipEntry, StartCheck, LoadDeposit,
       GoOn, UpdateDeposit, CheckTrouble, TrackFails
  <1>5. UNCHANGED told \/ \E t \in Transfer : \E E : Publish(t, E)
    BY <1>3, <1>4
  <1> QED BY <1>1, <1>2, <1>5

\* The names of the events.
LEMMA EventNames ==
    /\ \A m \in Milestones : Milestone(m) \in Event /\ m \in Nat \ {0}
    /\ Final("confirmed") \in Event /\ Final("reverted") \in Event
    /\ \A m \in Milestones : \A n : Milestone(m) = Milestone(n) => m = n
    /\ \A m \in Milestones : Milestone(m) # Final("confirmed") /\ Milestone(m) # Final("reverted")
    /\ Final("confirmed") # Final("reverted")
  BY RecordsAssumption DEF Event, Milestone, Final

\* What was told stays told.
LEMMA StaysTold ==
    ASSUME DepositTyping, [Next]_vars, NEW t \in Transfer
    PROVE  /\ \A n : AllTold(told[t], n) => AllTold(told'[t], n)
           /\ \A s : FinalTold(told[t], s) => FinalTold(told'[t], s)
  <1>1. \A e \in Event : told[t][e] > 0 => told'[t][e] > 0
    <2> SUFFICES ASSUME NEW e \in Event, told[t][e] > 0 PROVE told'[t][e] > 0
      OBVIOUS
    <2>1. told[t][e] \in Nat /\ told'[t][e] >= told[t][e] /\ told'[t][e] \in Nat
      BY ToldGrows, NextKeepsTyping DEF DepositTyping, RowTyping
    <2> QED BY <2>1
  <1>2. \A n : AllTold(told[t], n) => AllTold(told'[t], n)
    BY <1>1, EventNames DEF AllTold
  <1>3. \A s : FinalTold(told[t], s) => FinalTold(told'[t], s)
    BY <1>1, EventNames DEF FinalTold
  <1> QED BY <1>2, <1>3

\* What a check publishes covers what it writes.
LEMMA ReceiptTold ==
    ASSUME DepositTyping, ToldBefore, NEW c \in Track, ReadReceipt(c), [Next]_vars,
           NEW t \in Transfer, t = track[c].t,
           NEW row \in Verdict, row = Outcome(t, track[c].head)
    PROVE  AllTold(told'[t], row.confirmations) /\ FinalTold(told'[t], row.status)
  <1>1. Publish(t, Events(track[c].prev, row)) /\ track[c].pc = "receipt"
    BY DEF ReadReceipt
  <1>2. \A e \in Event : e \in Events(track[c].prev, row) => told'[t][e] > 0
    <2> SUFFICES ASSUME NEW e \in Event, e \in Events(track[c].prev, row) PROVE told'[t][e] > 0
      OBVIOUS
    <2>1. told'[t][e] = told[t][e] + 1 /\ told[t][e] \in Nat
      BY <1>1, PublishType, ToldGrows
    <2> QED BY <2>1
  <1>3. AllTold(told'[t], track[c].prev)
    BY <1>1, StaysTold DEF ToldBefore
  <1>4. track[c].prev \in Nat /\ row.confirmations \in Nat
    BY <1>1, CheckType DEF Verdict
  <1>5. ASSUME NEW m \in Milestones, m <= row.confirmations PROVE told'[t][Milestone(m)] > 0
    <2>1. CASE m <= track[c].prev
      BY <1>3, <2>1 DEF AllTold
    <2>2. CASE track[c].prev < m
      <3>1. Milestone(m) \in Events(track[c].prev, row)
        BY <1>5, <2>2 DEF Events, Crossed
      <3> QED BY <1>2, <3>1, EventNames
    <2> QED BY <1>4, <2>1, <2>2, EventNames
  <1>6. row.status \in {"confirmed", "reverted"} => told'[t][Final(row.status)] > 0
    <2>1. row.status \in {"confirmed", "reverted"} =>
            Final(row.status) \in Events(track[c].prev, row) /\ Final(row.status) \in Event
      BY EventNames DEF Events, FinalOf
    <2> QED BY <1>2, <2>1
  <1> QED BY <1>5, <1>6 DEF AllTold, FinalTold

\* Whatever a check has read or will write was told before, and so was what a row says.
LEMMA NextKeepsTold ==
    ASSUME DepositTyping, FollowedIsRealtime, ToldBefore, MilestonesTold, [Next]_vars
    PROVE  ToldBefore' /\ MilestonesTold'
  <1>1. /\ track \in [Track -> {NoTrack} \cup Loaded \cup Judged]
        /\ \A t \in Transfer : t \in Hash
    BY DEF DepositTyping, RowTyping, Hash
  <1>2. ASSUME NEW c \in Track, track'[c] = track[c]
        PROVE  /\ track'[c].pc = "receipt" => AllTold(told'[track'[c].t], track'[c].prev)
               /\ track'[c].pc = "update" =>
                    /\ AllTold(told'[track'[c].t], track'[c].row.confirmations)
                    /\ FinalTold(told'[track'[c].t], track'[c].row.status)
    <2>1. CASE track[c].pc = "receipt"
      <3>1. PICK t \in Transfer, n \in Nat : t = track[c].t /\ n = track[c].prev
        BY <2>1, CheckType
      <3>2. AllTold(told'[t], n)
        BY <2>1, <3>1, StaysTold DEF ToldBefore
      <3> QED BY <1>2, <2>1, <3>1, <3>2
    <2>2. CASE track[c].pc = "update"
      <3>1. PICK t \in Transfer, row \in Verdict : t = track[c].t /\ row = track[c].row
        BY <2>2, CheckType
      <3>2. AllTold(told'[t], row.confirmations) /\ FinalTold(told'[t], row.status)
        BY <2>2, <3>1, StaysTold DEF ToldBefore
      <3> QED BY <1>2, <2>2, <3>1, <3>2
    <2> QED BY <1>2, <2>1, <2>2
  <1>3. ASSUME NEW t \in Transfer, deposit'[t] = deposit[t] PROVE
           deposit'[t].source = "realtime" =>
             AllTold(told'[t], deposit'[t].confirmations) /\ FinalTold(told'[t], deposit'[t].status)
    <2> SUFFICES ASSUME deposit[t].source = "realtime"
                 PROVE  AllTold(told'[t], deposit'[t].confirmations) /\ FinalTold(told'[t], deposit'[t].status)
      BY <1>3
    <2>1. PICK n, s : n = deposit[t].confirmations /\ s = deposit[t].status
      OBVIOUS
    <2>2. AllTold(told[t], n) /\ FinalTold(told[t], s)
      BY <2>1 DEF MilestonesTold, AllTold, FinalTold
    <2>3. AllTold(told'[t], n) /\ FinalTold(told'[t], s)
      BY <2>2, StaysTold
    <2> QED BY <1>3, <2>1, <2>3 DEF AllTold, FinalTold
  <1>4. ASSUME \A c \in Track : track'[c] = track[c] PROVE ToldBefore'
    BY <1>2, <1>4 DEF ToldBefore
  <1>5. (\A t \in Transfer : deposit'[t].source = "realtime" =>
             AllTold(told'[t], deposit'[t].confirmations) /\ FinalTold(told'[t], deposit'[t].status))
         => MilestonesTold'
    BY DEF MilestonesTold, AllTold, FinalTold
  <1>6. CASE Mining \/ Chain \/ UNCHANGED <<eth, records, retold>>
    BY <1>3, <1>4, <1>5, <1>6 DEF Mining, Chain, records
  <1>7. CASE Persistence
    <2>1. track' = track
      BY <1>7 DEF Persistence, HandleEntry, SkipEntry, records
    <2>2. ASSUME NEW t \in Transfer, deposit'[t] # deposit[t], deposit'[t].source = "realtime"
          PROVE  AllTold(told'[t], deposit'[t].confirmations) /\ FinalTold(told'[t], deposit'[t].status)
      <3>1. deposit'[t].status = "pending" /\ deposit'[t].confirmations = 0
        BY <1>1, <1>7, <2>2, NewRow
      <3> QED BY <3>1, EventNames DEF AllTold, FinalTold
    <2> QED BY <1>3, <1>4, <1>5, <2>1, <2>2
  <1>8. ASSUME NEW c \in Track, NEW t \in Transfer, StartCheck(c, t)
        PROVE  ToldBefore' /\ MilestonesTold'
    <2>1. /\ deposit' = deposit /\ Open(t)
          /\ track' = [track EXCEPT ![c] = [pc |-> "receipt", t |-> t, head |-> head,
                                            prev |-> deposit[t].confirmations]]
      BY <1>8 DEF StartCheck, LoadDeposit
    <2>2. track'[c].pc = "receipt" /\ track'[c].t = t /\ track'[c].prev = deposit'[t].confirmations
      BY <1>1, <2>1
    <2>3. AllTold(told'[t], deposit'[t].confirmations)
      BY <1>3, <2>1 DEF FollowedIsRealtime
    <2>4. \A d \in Track : d # c => track'[d] = track[d]
      BY <1>1, <2>1
    <2>5. ToldBefore'
      BY <1>2, <2>2, <2>3, <2>4 DEF ToldBefore, AllTold
    <2> QED BY <1>3, <1>5, <2>1, <2>5
  <1>9. ASSUME NEW c \in Track, ReadReceipt(c) PROVE ToldBefore' /\ MilestonesTold'
    <2>1. track[c].t \in Transfer /\ track[c].head \in Nat
      BY <1>9, CheckType DEF ReadReceipt
    <2>2. PICK t \in Transfer : t = track[c].t
      BY <2>1
    <2>3. PICK row \in Verdict : row = Outcome(t, track[c].head)
      BY <2>1, <2>2, OutcomeType
    <2>4. AllTold(told'[t], row.confirmations) /\ FinalTold(told'[t], row.status)
      BY <1>9, <2>2, <2>3, ReceiptTold
    <2>5. track' = [track EXCEPT ![c] = [pc |-> "update", t |-> t, row |-> row]] /\ deposit' = deposit
      BY <1>9, <2>2, <2>3 DEF ReadReceipt
    <2>6. /\ track'[c].pc = "update" /\ track'[c].t = t /\ track'[c].row = row
          /\ \A d \in Track : d # c => track'[d] = track[d]
      BY <1>1, <2>5
    <2>7. ToldBefore'
      BY <1>2, <2>4, <2>6 DEF ToldBefore, AllTold, FinalTold
    <2> QED BY <1>3, <1>5, <2>5, <2>7
  <1>10. ASSUME NEW c \in Track, UpdateDeposit(c) PROVE ToldBefore' /\ MilestonesTold'
    <2>1. PICK t \in Transfer, row \in Verdict : t = track[c].t /\ row = track[c].row
      BY <1>10, RowWritten
    <2>2. /\ deposit'[t].confirmations = row.confirmations /\ deposit'[t].status = row.status
          /\ \A u \in Transfer : u # t => deposit'[u] = deposit[u]
          /\ track' = [track EXCEPT ![c] = NoTrack]
      BY <1>1, <1>10, <2>1, RowWritten
    <2>3. AllTold(told'[t], row.confirmations) /\ FinalTold(told'[t], row.status)
      BY <1>10, <2>1, StaysTold DEF ToldBefore, UpdateDeposit
    <2>4. NoTrack.pc = "idle" /\ track'[c] = NoTrack /\ \A d \in Track : d # c => track'[d] = track[d]
      BY <1>1, <2>2 DEF NoTrack
    <2>5. ToldBefore'
      BY <1>2, <2>4 DEF ToldBefore
    <2> QED BY <1>3, <1>5, <2>2, <2>3, <2>5 DEF AllTold, FinalTold
  <1>11. ASSUME NEW c \in Track, CheckTrouble(c) PROVE ToldBefore' /\ MilestonesTold'
    <2>1. track' = [track EXCEPT ![c] = NoTrack] /\ deposit' = deposit
      BY <1>11 DEF CheckTrouble, TrackFails, PublishFails
    <2>2. NoTrack.pc = "idle" /\ track'[c] = NoTrack /\ \A d \in Track : d # c => track'[d] = track[d]
      BY <1>1, <2>1 DEF NoTrack
    <2>3. ToldBefore'
      BY <1>2, <2>2 DEF ToldBefore
    <2> QED BY <1>3, <1>5, <2>1, <2>3
  <1> QED BY <1>6, <1>7, <1>8, <1>9, <1>10, <1>11, OtherSteps DEF GoOn

-----------------------------------------------------------------------------
(* How often an event is told *)

\* Counting checks.
LEMMA Checks ==
    ASSUME NEW S \in SUBSET Track
    PROVE  /\ IsFiniteSet(S) /\ Cardinality(S) \in Nat
           /\ Cardinality({}) = 0
           /\ \A T \in SUBSET S : Cardinality(T) <= Cardinality(S)
           /\ \A c \in S : Cardinality(S \ {c}) + 1 = Cardinality(S)
           /\ \A c \in Track : Cardinality(S \cup {c}) <= Cardinality(S) + 1
           /\ \A c : S = {c} => Cardinality(S) = 1
  <1>1. IsFiniteSet(S) /\ Cardinality(S) \in Nat
    BY RecordsAssumption, FS_Subset, FS_CardinalityType
  <1>2. \A T \in SUBSET S : Cardinality(T) <= Cardinality(S)
    BY <1>1, FS_Subset
  <1>3. ASSUME NEW c \in S PROVE Cardinality(S \ {c}) + 1 = Cardinality(S)
    <2>1. Cardinality(S \ {c}) = Cardinality(S) - 1
      BY <1>1, FS_RemoveElement
    <2> QED BY <1>1, <2>1
  <1>4. ASSUME NEW c \in Track PROVE Cardinality(S \cup {c}) <= Cardinality(S) + 1
    BY <1>1, FS_AddElement
  <1> QED BY <1>1, <1>2, <1>3, <1>4, FS_EmptySet, FS_Singleton

\* Confirmations grow with the block, and a transfer has none in its own.
LEMMA AfterFacts ==
    ASSUME NEW n \in Nat, NEW b \in Nat
    PROVE  /\ After(n, b) \in Nat /\ After(0, b) = 0 /\ (b <= n => After(n, b) = 0)
           /\ After(n, b) <= After(n, b + 1)
  <1>1. /\ After(n, b) = IF n # 0 /\ b > n THEN b - n ELSE 0
        /\ After(n, b + 1) = IF n # 0 /\ b + 1 > n THEN b + 1 - n ELSE 0
        /\ After(0, b) = 0
    BY DEF After
  <1> QED BY <1>1

\* The checks of a transfer are checks, and the numbers of its bounds are numbers.
LEMMA BoundTypes ==
    ASSUME DepositTyping, NEW t \in Transfer
    PROVE  /\ Active(t) \in SUBSET Track /\ Active(t)' \in SUBSET Track
           /\ InReceipt(t) \in SUBSET Active(t) /\ InReceipt(t)' \in SUBSET Active(t)'
           /\ \A m : Crossing(t, m) \in SUBSET InReceipt(t) /\ Crossing(t, m)' \in SUBSET InReceipt(t)'
           /\ \A m \in Milestones : told[t][Milestone(m)] \in Nat
           /\ \A s \in {"confirmed", "reverted"} : told[t][Final(s)] \in Nat
           /\ retold[t] \in Nat
           /\ \A m : /\ One(Below(t, m)) = IF Below(t, m) THEN 1 ELSE 0
                     /\ One(Below(t, m))' = IF Below(t, m)' THEN 1 ELSE 0
           /\ \A s : /\ One(Unsettled(t, s)) = IF Unsettled(t, s) THEN 1 ELSE 0
                     /\ One(Unsettled(t, s))' = IF Unsettled(t, s)' THEN 1 ELSE 0
  <1>1. /\ Active(t) \in SUBSET Track /\ Active(t)' \in SUBSET Track
        /\ InReceipt(t) \in SUBSET Active(t) /\ InReceipt(t)' \in SUBSET Active(t)'
        /\ \A m : Crossing(t, m) \in SUBSET InReceipt(t) /\ Crossing(t, m)' \in SUBSET InReceipt(t)'
    BY DEF Active, InReceipt, Crossing
  <1>2. /\ \A m \in Milestones : told[t][Milestone(m)] \in Nat
        /\ \A s \in {"confirmed", "reverted"} : told[t][Final(s)] \in Nat
        /\ retold[t] \in Nat
    BY EventNames DEF DepositTyping, RowTyping
  <1> QED BY <1>1, <1>2 DEF One

\* A step that adds nothing to what was, and may be, told of a transfer.
LEMMA SameBounds ==
    ASSUME DepositTyping, NEW t \in Transfer, Bounds(t),
           told'[t] = told[t], retold'[t] = retold[t], InReceipt(t)' = InReceipt(t),
           \A m \in Milestones : Crossing(t, m)' = Crossing(t, m) /\ (Below(t, m)' => Below(t, m)),
           \A s \in {"confirmed", "reverted"} : Unsettled(t, s)' => Unsettled(t, s)
    PROVE  Bounds(t)'
  <1>1. ASSUME NEW m \in Milestones PROVE MilestoneBound(t, m)'
    <2>1. MilestoneBound(t, m)
      BY DEF Bounds
    <2>2. Cardinality(Crossing(t, m)) \in Nat
      BY BoundTypes, Checks
    <2>3. One(Below(t, m))' \in Nat /\ One(Below(t, m)) \in Nat /\ One(Below(t, m))' <= One(Below(t, m))
      BY BoundTypes
    <2>4. told[t][Milestone(m)] \in Nat /\ retold[t] \in Nat
      BY BoundTypes
    <2> QED BY <2>1, <2>2, <2>3, <2>4 DEF MilestoneBound
  <1>2. ASSUME NEW s \in {"confirmed", "reverted"} PROVE FinalBound(t, s)'
    <2>1. FinalBound(t, s)
      BY DEF Bounds
    <2>2. Cardinality(InReceipt(t)) \in Nat
      BY BoundTypes, Checks
    <2>3. /\ One(Unsettled(t, s))' \in Nat /\ One(Unsettled(t, s)) \in Nat
          /\ One(Unsettled(t, s))' <= One(Unsettled(t, s))
      BY BoundTypes
    <2>4. told[t][Final(s)] \in Nat /\ retold[t] \in Nat
      BY BoundTypes
    <2> QED BY <2>1, <2>2, <2>3, <2>4 DEF FinalBound
  <1> QED BY <1>1, <1>2 DEF Bounds

\* A step that leaves the checks of a transfer and its row alone.
LEMMA SameChecks ==
    ASSUME DepositTyping, NEW t \in Transfer, Bounds(t),
           told'[t] = told[t], retold'[t] = retold[t], Active(t)' = Active(t),
           \A c \in Active(t) : track'[c] = track[c] /\ CountOf(c)' = CountOf(c),
           deposit'[t] = deposit[t] \/ (deposit[t].confirmations = 0 /\ deposit[t].status = "none"),
           \A m \in Milestones : After(blockOf'[t], head') < m => After(blockOf[t], head) < m
    PROVE  Bounds(t)'
  <1>1. InReceipt(t)' = InReceipt(t)
    BY DEF InReceipt
  <1>2. ASSUME NEW m \in Milestones
        PROVE  Crossing(t, m)' = Crossing(t, m) /\ (Below(t, m)' => Below(t, m))
    <2>1. Crossing(t, m)' = Crossing(t, m)
      BY <1>1 DEF Crossing, InReceipt
    <2>2. deposit[t].confirmations = 0 => deposit[t].confirmations < m
      BY EventNames
    <2> QED BY <2>1, <2>2 DEF Below
  <1>3. ASSUME NEW s \in {"confirmed", "reverted"} PROVE Unsettled(t, s)' => Unsettled(t, s)
    BY DEF Unsettled
  <1> QED BY <1>1, <1>2, <1>3, SameBounds

\* Blocks and transfers only add confirmations to come; an orphaned transfer may
\* be told of again.
LEMMA ChainKeepsBounds ==
    ASSUME DepositTyping, HeadIsRead, NEW t \in Transfer, Bounds(t), Mining \/ Chain
    PROVE  Bounds(t)'
  <1>1. UNCHANGED <<deposit, track, told>>
    BY DEF Mining, Chain, records
  <1>2. /\ blockOf \in [Transfer -> Nat] /\ head \in Nat /\ blockOf[t] \in Nat
        /\ retold \in [Transfer -> Nat]
    BY ChainAssumption DEF DepositTyping, ChainTyping, RowTyping
  <1>3. Active(t)' = Active(t) /\ InReceipt(t)' = InReceipt(t)
    BY <1>1 DEF Active, InReceipt
  <1>4. CASE head' = head + 1 /\ blockOf'[t] \in {blockOf[t], head'}
             /\ (blockOf'[t] = head' => blockOf[t] = 0) /\ retold' = retold
    <2>1. \A c \in Active(t) : CountOf(c)' = CountOf(c)
      <3> SUFFICES ASSUME NEW c \in Active(t) PROVE CountOf(c)' = CountOf(c)
        OBVIOUS
      <3>1. track[c].t = t /\ (track[c].pc # "update" => track[c].pc = "receipt")
        BY CheckType DEF Active
      <3>2. track[c].pc = "receipt" => track[c].head \in Nat /\ track[c].head <= head
        BY CheckType DEF Active, HeadIsRead
      <3>3. track[c].pc = "receipt" =>
              After(blockOf'[t], track[c].head) = After(blockOf[t], track[c].head)
        <4>1. CASE blockOf'[t] = blockOf[t]
          BY <4>1
        <4>2. CASE track[c].pc = "receipt" /\ blockOf'[t] = head'
          <5>1. /\ blockOf[t] = 0 /\ head' \in Nat /\ track[c].head \in Nat
                /\ track[c].head <= head'
            BY <1>2, <1>4, <3>2, <4>2
          <5>2. After(head', track[c].head) = 0 /\ After(0, track[c].head) = 0
            BY <5>1, AfterFacts
          <5> QED BY <4>2, <5>1, <5>2
        <4> QED BY <1>4, <4>1, <4>2
      <3> QED BY <1>1, <3>1, <3>3 DEF CountOf
    <2>2. After(blockOf'[t], head') >= After(blockOf[t], head)
      <3>1. After(blockOf[t], head) <= After(blockOf[t], head + 1)
        BY <1>2, AfterFacts
      <3>2. blockOf'[t] = head' => After(blockOf[t], head) = 0 /\ After(blockOf'[t], head') = 0
        <4>1. head' \in Nat /\ head' <= head'
          BY <1>2, <1>4
        <4>2. After(0, head) = 0 /\ After(head', head') = 0
          BY <1>2, <4>1, AfterFacts
        <4> QED BY <1>4, <4>2
      <3>3. After(blockOf[t], head + 1) = After(blockOf[t], head')
        BY <1>4
      <3>4. After(blockOf[t], head) \in Nat
        BY <1>2, AfterFacts
      <3> QED BY <1>4, <3>1, <3>2, <3>3, <3>4
    <2>3. After(blockOf'[t], head') \in Nat /\ After(blockOf[t], head) \in Nat
      <3>1. head' \in Nat /\ blockOf'[t] \in Nat
        BY <1>2, <1>4
      <3> QED BY <1>2, <3>1, AfterFacts
    <2>4. \A m \in Milestones : After(blockOf'[t], head') < m => After(blockOf[t], head) < m
      BY <2>2, <2>3, EventNames
    <2> QED BY <1>1, <1>3, <1>4, <2>1, <2>4, SameChecks
  <1>5. ASSUME NEW u \in Transfer, Orphan(u), retold' = [retold EXCEPT ![u] = @ + 1]
        PROVE  Bounds(t)'
    <2>1. head' = head /\ blockOf' = [blockOf EXCEPT ![u] = 0]
      BY <1>5 DEF Orphan
    <2>2. CASE t # u
      <3>1. blockOf'[t] = blockOf[t] /\ retold'[t] = retold[t]
        BY <1>2, <1>5, <2>1, <2>2
      <3>2. \A c \in Active(t) : CountOf(c)' = CountOf(c)
        BY <1>1, <3>1 DEF CountOf, Active
      <3> QED BY <1>1, <1>3, <2>1, <3>1, <3>2, SameChecks
    <2>3. CASE t = u
      <3>1. blockOf'[t] = 0 /\ retold'[t] = retold[t] + 1
        BY <1>2, <1>5, <2>1, <2>3
      <3>2. ASSUME NEW m \in Milestones PROVE MilestoneBound(t, m)'
        <4>1. Crossing(t, m)' = {}
          <5> SUFFICES ASSUME NEW c \in Crossing(t, m)' PROVE FALSE
            OBVIOUS
          <5>1. track[c].pc = "receipt" /\ track[c].t = t /\ m <= CountOf(c)' /\ c \in Track
            BY <1>1 DEF Crossing, InReceipt, Active
          <5>2. CountOf(c)' = After(0, track[c].head) /\ track[c].head \in Nat
            BY <1>1, <3>1, <5>1, CheckType DEF CountOf
          <5>3. CountOf(c)' = 0
            BY <5>2, AfterFacts
          <5> QED BY <5>1, <5>3, EventNames
        <4>2. MilestoneBound(t, m)
          BY DEF Bounds
        <4>3. Cardinality(Crossing(t, m)) \in Nat /\ Cardinality(Crossing(t, m))' = 0
          BY <4>1, BoundTypes, Checks
        <4>4. One(Below(t, m))' \in {0, 1} /\ One(Below(t, m)) \in {0, 1}
          BY BoundTypes
        <4>5. told[t][Milestone(m)] \in Nat /\ retold[t] \in Nat
          BY BoundTypes
        <4> QED BY <1>1, <3>1, <4>2, <4>3, <4>4, <4>5 DEF MilestoneBound
      <3>3. ASSUME NEW s \in {"confirmed", "reverted"} PROVE FinalBound(t, s)'
        <4>1. FinalBound(t, s)
          BY DEF Bounds
        <4>2. Unsettled(t, s)' <=> Unsettled(t, s)
          BY <1>1, <1>3 DEF Unsettled
        <4>3. One(Unsettled(t, s))' = One(Unsettled(t, s)) /\ One(Unsettled(t, s)) \in Nat
          BY <4>2, BoundTypes
        <4>4. Cardinality(InReceipt(t)) \in Nat
          BY BoundTypes, Checks
        <4>5. told[t][Final(s)] \in Nat /\ retold[t] \in Nat
          BY BoundTypes
        <4> QED BY <1>1, <1>3, <3>1, <4>1, <4>3, <4>4, <4>5 DEF FinalBound
      <3> QED BY <3>2, <3>3 DEF Bounds
    <2> QED BY <2>2, <2>3
  <1>6. ASSUME NEW u \in Transfer, MineTransfer(u)
        PROVE  head' = head + 1 /\ blockOf'[t] \in {blockOf[t], head'}
               /\ (blockOf'[t] = head' => blockOf[t] = 0)
    <2>1. /\ head' = head + 1 /\ blockOf' = [blockOf EXCEPT ![u] = head'] /\ blockOf[u] = 0
          /\ blockOf[t] <= head
      BY <1>6 DEF MineTransfer, Mined, DepositTyping, ChainTyping
    <2> QED BY <1>2, <2>1
  <1>7. MineFlush \/ MineOther => head' = head + 1 /\ blockOf'[t] = blockOf[t] /\ blockOf[t] <= head
    BY DEF MineFlush, MineOther, DepositTyping, ChainTyping
  <1>8. MineFlush \/ MineOther => head' = head + 1 /\ blockOf'[t] \in {blockOf[t], head'}
                                  /\ (blockOf'[t] = head' => blockOf[t] = 0)
    BY <1>2, <1>7
  <1> QED BY <1>4, <1>5, <1>6, <1>8 DEF Mining, Chain, history

\* A step of one check, as the other transfers see it.
LEMMA OtherTransfers ==
    ASSUME DepositTyping, NEW t \in Transfer, Bounds(t), NEW c \in Track, NEW v,
           track' = [track EXCEPT ![c] = v], UNCHANGED eth,
           track[c] # NoTrack => track[c].t # t, v # NoTrack => v.t # t,
           told'[t] = told[t], retold'[t] = retold[t], deposit'[t] = deposit[t]
    PROVE  Bounds(t)'
  <1>1. track'[c] = v /\ \A d \in Track : d # c => track'[d] = track[d]
    BY DEF DepositTyping, RowTyping
  <1>2. Active(t)' = Active(t)
    BY <1>1 DEF Active
  <1>3. \A d \in Active(t) : track'[d] = track[d]
    BY <1>1 DEF Active
  <1>4. blockOf' = blockOf /\ head' = head
    BY DEF eth
  <1>5. \A d \in Active(t) : CountOf(d)' = CountOf(d)
    BY <1>3, <1>4 DEF CountOf
  <1> QED BY <1>2, <1>3, <1>4, <1>5, SameChecks

\* A step of one check, as its transfer sees it.
LEMMA OwnTransfer ==
    ASSUME DepositTyping, NEW t \in Transfer, NEW c \in Track, NEW v,
           track' = [track EXCEPT ![c] = v], UNCHANGED eth,
           track[c] # NoTrack => track[c].t = t, v # NoTrack => v.t = t
    PROVE  /\ track'[c] = v /\ \A d \in Track : d # c => track'[d] = track[d]
           /\ Active(t)' = (Active(t) \ {c}) \cup (IF v = NoTrack THEN {} ELSE {c})
           /\ \A d \in Active(t) \ {c} : CountOf(d)' = CountOf(d)
           /\ \A d \in Track \ {c} : d \in InReceipt(t)' <=> d \in InReceipt(t)
           /\ \A m : \A d \in Track \ {c} : d \in Crossing(t, m)' <=> d \in Crossing(t, m)
           /\ v.pc # "receipt" => \A m : InReceipt(t)' = InReceipt(t) \ {c}
                                         /\ Crossing(t, m)' = Crossing(t, m) \ {c}
           /\ blockOf' = blockOf /\ head' = head
  <1>1. track'[c] = v /\ \A d \in Track : d # c => track'[d] = track[d]
    BY DEF DepositTyping, RowTyping
  <1>2. blockOf' = blockOf /\ head' = head
    BY DEF eth
  <1>3. Active(t)' = (Active(t) \ {c}) \cup (IF v = NoTrack THEN {} ELSE {c})
    BY <1>1 DEF Active
  <1>4. \A d \in Track \ {c} : CountOf(d)' = CountOf(d)
    BY <1>1, <1>2 DEF CountOf
  <1>5. \A d \in Track \ {c} : d \in InReceipt(t)' <=> d \in InReceipt(t)
    BY <1>1 DEF InReceipt, Active
  <1>6. \A m : \A d \in Track \ {c} : d \in Crossing(t, m)' <=> d \in Crossing(t, m)
    BY <1>1, <1>4, <1>5 DEF Crossing, InReceipt, Active
  <1>7. v.pc # "receipt" => InReceipt(t)' = InReceipt(t) \ {c}
    BY <1>1, <1>5 DEF InReceipt, Active
  <1>8. v.pc # "receipt" => \A m : Crossing(t, m)' = Crossing(t, m) \ {c}
    BY <1>6, <1>7 DEF Crossing, InReceipt, Active
  <1> QED BY <1>1, <1>2, <1>3, <1>4, <1>5, <1>6, <1>7, <1>8 DEF Active

\* A check is started: the row was below its next milestones, or the start is
\* paid for as a second check.
LEMMA StartKeepsBounds ==
    ASSUME DepositTyping, NEW t \in Transfer, Bounds(t), NEW c \in Track, StartCheck(c, t)
    PROVE  Bounds(t)'
  <1> DEFINE v == [pc |-> "receipt", t |-> t, head |-> head, prev |-> deposit[t].confirmations]
  <1>1. /\ track' = [track EXCEPT ![c] = v] /\ UNCHANGED <<eth, told, deposit>>
        /\ track[c] = NoTrack /\ Open(t)
    BY DEF StartCheck, LoadDeposit, tracking
  <1>2. v.pc = "receipt" /\ v.t = t /\ v.head = head /\ v.prev = deposit[t].confirmations /\ v # NoTrack
    BY DEF NoTrack
  <1>3. /\ deposit[t].confirmations \in Nat /\ head \in Nat /\ blockOf[t] \in Nat
        /\ retold \in [Transfer -> Nat]
    BY ChainAssumption DEF DepositTyping, RowTyping, ChainTyping, Row, Hash
  <1> HIDE DEF v
  <1>4. /\ track'[c] = v /\ \A d \in Track : d # c => track'[d] = track[d]
        /\ Active(t)' = Active(t) \cup {c} /\ c \notin Active(t)
        /\ \A d \in Active(t) : CountOf(d)' = CountOf(d)
        /\ blockOf' = blockOf /\ head' = head
        /\ \A d \in Track \ {c} : d \in InReceipt(t)' <=> d \in InReceipt(t)
        /\ \A m : \A d \in Track \ {c} : d \in Crossing(t, m)' <=> d \in Crossing(t, m)
    <2>1. /\ (track[c] # NoTrack => track[c].t = t) /\ (v # NoTrack => v.t = t)
          /\ UNCHANGED eth /\ track' = [track EXCEPT ![c] = v]
      BY <1>1, <1>2
    <2>2. track'[c] = v /\ \A d \in Track : d # c => track'[d] = track[d]
      BY <2>1 DEF DepositTyping, RowTyping
    <2>4. Active(t)' = (Active(t) \ {c}) \cup (IF v = NoTrack THEN {} ELSE {c})
      BY <2>1, OwnTransfer
    <2>5. \A d \in Active(t) \ {c} : CountOf(d)' = CountOf(d)
      BY <2>1, OwnTransfer
    <2>6. \A d \in Track \ {c} : d \in InReceipt(t)' <=> d \in InReceipt(t)
      BY <2>1, OwnTransfer
    <2>7. \A m : \A d \in Track \ {c} : d \in Crossing(t, m)' <=> d \in Crossing(t, m)
      BY <2>1, OwnTransfer
    <2>8. blockOf' = blockOf /\ head' = head
      BY <2>1, OwnTransfer
    <2>3. c \notin Active(t)
      BY <1>1 DEF Active
    <2> QED BY <1>2, <2>2, <2>3, <2>4, <2>5, <2>6, <2>7, <2>8
  <1>5. CountOf(c)' = After(blockOf[t], head) /\ After(blockOf[t], head) \in Nat
    BY <1>2, <1>3, <1>4, AfterFacts DEF CountOf
  <1>6. InReceipt(t)' = InReceipt(t) \cup {c}
    <2>1. c \in InReceipt(t)'
      BY <1>2, <1>4 DEF InReceipt
    <2>2. InReceipt(t)' \subseteq Track /\ InReceipt(t) \subseteq Track
      BY BoundTypes
    <2> QED BY <1>4, <2>1, <2>2
  <1>7. ASSUME NEW m \in Milestones PROVE Crossing(t, m)' \subseteq Crossing(t, m) \cup {c}
    BY <1>4 DEF Crossing, InReceipt, Active
  <1>8. ASSUME NEW m \in Milestones
        PROVE  Below(t, m)' => \/ \E d \in Active(t) : CountOf(d) < m
                               \/ After(blockOf[t], head) < m
    BY <1>4, <1>5 DEF Below
  <1>9. CASE Overlaps(c, t)
    <2>1. retold'[t] = retold[t] + 1
      BY <1>3, <1>9 DEF StartCheck
    <2>2. ASSUME NEW m \in Milestones PROVE MilestoneBound(t, m)'
      <3>1. MilestoneBound(t, m) /\ told'[t] = told[t]
        BY <1>1 DEF Bounds
      <3>2. /\ Crossing(t, m) \in SUBSET Track /\ Crossing(t, m) \cup {c} \in SUBSET Track
        BY BoundTypes
      <3>3. /\ Cardinality(Crossing(t, m)) \in Nat /\ Cardinality(Crossing(t, m) \cup {c}) \in Nat
            /\ Cardinality(Crossing(t, m)') <= Cardinality(Crossing(t, m) \cup {c})
            /\ Cardinality(Crossing(t, m) \cup {c}) <= Cardinality(Crossing(t, m)) + 1
            /\ Cardinality(Crossing(t, m)') \in Nat
        BY <1>7, <3>2, Checks
      <3>4. /\ One(Below(t, m))' \in Nat /\ One(Below(t, m)) \in Nat
            /\ One(Below(t, m))' <= One(Below(t, m))
        <4>1. Below(t, m)' => Below(t, m)
          BY <1>8 DEF Below
        <4> QED BY <4>1, BoundTypes
      <3>5. told[t][Milestone(m)] \in Nat /\ retold[t] \in Nat
        BY BoundTypes
      <3> QED BY <2>1, <3>1, <3>3, <3>4, <3>5 DEF MilestoneBound
    <2>3. ASSUME NEW s \in {"confirmed", "reverted"} PROVE FinalBound(t, s)'
      <3>1. FinalBound(t, s) /\ told'[t] = told[t]
        BY <1>1 DEF Bounds
      <3>2. /\ Cardinality(InReceipt(t)') <= Cardinality(InReceipt(t)) + 1
            /\ Cardinality(InReceipt(t)') \in Nat /\ Cardinality(InReceipt(t)) \in Nat
        BY <1>6, BoundTypes, Checks
      <3>3. Unsettled(t, s)' => Unsettled(t, s)
        <4>1. \A d \in Active(t) : d # c /\ d \in Track
          BY <1>4 DEF Active
        <4>2. track'[c].pc = "receipt" /\ c \in Active(t)'
          BY <1>2, <1>4
        <4> QED BY <1>4, <4>1, <4>2 DEF Unsettled
      <3>4. /\ One(Unsettled(t, s))' \in Nat /\ One(Unsettled(t, s)) \in Nat
            /\ One(Unsettled(t, s))' <= One(Unsettled(t, s))
        BY <3>3, BoundTypes
      <3>5. told[t][Final(s)] \in Nat /\ retold[t] \in Nat
        BY BoundTypes
      <3> QED BY <2>1, <3>1, <3>2, <3>4, <3>5 DEF FinalBound
    <2> QED BY <2>2, <2>3 DEF Bounds
  <1>10. CASE ~Overlaps(c, t)
    <2>1. retold'[t] = retold[t] /\ Active(t) = {}
      BY <1>1, <1>10 DEF StartCheck, Overlaps, Active
    <2>2. InReceipt(t) = {} /\ InReceipt(t)' = {c}
      BY <1>6, <2>1 DEF InReceipt
    <2>3. ASSUME NEW m \in Milestones PROVE MilestoneBound(t, m)'
      <3>1. MilestoneBound(t, m) /\ told'[t] = told[t] /\ m \in Nat
        BY <1>1, EventNames DEF Bounds
      <3>2. Cardinality(Crossing(t, m)) = 0
        BY <2>2, BoundTypes, Checks
      <3>3. Crossing(t, m)' = IF deposit[t].confirmations < m /\ m <= After(blockOf[t], head)
                              THEN {c} ELSE {}
        BY <1>2, <1>4, <1>5, <2>2 DEF Crossing
      <3>4. Cardinality(Crossing(t, m)') = IF deposit[t].confirmations < m /\ m <= After(blockOf[t], head)
                                           THEN 1 ELSE 0
        BY <3>3, BoundTypes, Checks
      <3>5. Below(t, m)' => After(blockOf[t], head) < m
        BY <1>8, <2>1
      <3>6. Below(t, m) <=> After(blockOf[t], head) < m \/ deposit[t].confirmations < m
        BY <2>1 DEF Below
      <3>7. /\ One(Below(t, m))' = IF Below(t, m)' THEN 1 ELSE 0
            /\ One(Below(t, m)) = IF Below(t, m) THEN 1 ELSE 0
        BY BoundTypes
      <3>8. Cardinality(Crossing(t, m)') + One(Below(t, m))' <= One(Below(t, m))
        BY <1>3, <1>5, <3>1, <3>4, <3>5, <3>6, <3>7
      <3>9. told[t][Milestone(m)] \in Nat /\ retold[t] \in Nat
        BY BoundTypes
      <3>10. One(Below(t, m))' \in Nat /\ One(Below(t, m)) \in Nat /\ Cardinality(Crossing(t, m)') \in Nat
        BY <3>4, <3>7
      <3> QED BY <2>1, <3>1, <3>2, <3>8, <3>9, <3>10 DEF MilestoneBound
    <2>4. ASSUME NEW s \in {"confirmed", "reverted"} PROVE FinalBound(t, s)'
      <3>1. FinalBound(t, s) /\ told'[t] = told[t]
        BY <1>1 DEF Bounds
      <3>2. Cardinality(InReceipt(t)) = 0 /\ Cardinality(InReceipt(t)') = 1
        BY <2>2, BoundTypes, Checks
      <3>3. Unsettled(t, s)
        BY <1>1, <2>1 DEF Unsettled, Open
      <3>4. ~Unsettled(t, s)'
        BY <1>2, <1>4, <2>1 DEF Unsettled
      <3>5. One(Unsettled(t, s)) = 1 /\ One(Unsettled(t, s))' = 0
        BY <3>3, <3>4, BoundTypes
      <3>6. told[t][Final(s)] \in Nat /\ retold[t] \in Nat
        BY BoundTypes
      <3> QED BY <2>1, <3>1, <3>2, <3>5, <3>6 DEF FinalBound
    <2> QED BY <2>3, <2>4 DEF Bounds
  <1> QED BY <1>9, <1>10

\* A check publishes: what it crossed is told and no longer to come.
LEMMA ReceiptKeepsBounds ==
    ASSUME DepositTyping, NEW c \in Track, ReadReceipt(c), UNCHANGED <<eth, retold>>,
           NEW t \in Transfer, t = track[c].t, Bounds(t)
    PROVE  Bounds(t)'
  <1>1. track[c].pc = "receipt" /\ track[c] # NoTrack /\ track[c].head \in Nat
    BY CheckType DEF ReadReceipt
  <1>2. PICK row \in Verdict : row = Outcome(t, track[c].head)
    BY <1>1, OutcomeType
  <1> DEFINE v == [pc |-> "update", t |-> t, row |-> row]
  <1>3. /\ track' = [track EXCEPT ![c] = v] /\ Publish(t, Events(track[c].prev, row))
        /\ UNCHANGED deposit /\ UNCHANGED eth
    BY <1>2 DEF ReadReceipt
  <1>4. v.pc = "update" /\ v.t = t /\ v.row = row /\ v # NoTrack
    BY DEF NoTrack
  <1> HIDE DEF v
  <1>5. track'[c] = v /\ \A d \in Track : d # c => track'[d] = track[d]
    BY <1>3 DEF DepositTyping, RowTyping
  <1>6. /\ Active(t)' = (Active(t) \ {c}) \cup (IF v = NoTrack THEN {} ELSE {c})
        /\ \A d \in Active(t) \ {c} : CountOf(d)' = CountOf(d)
        /\ v.pc # "receipt" => \A m : InReceipt(t)' = InReceipt(t) \ {c}
                                      /\ Crossing(t, m)' = Crossing(t, m) \ {c}
        /\ blockOf' = blockOf /\ head' = head
    BY <1>3, <1>4, OwnTransfer
  <1>7. c \in Active(t) /\ Active(t)' = Active(t) /\ c \in InReceipt(t)
    BY <1>1, <1>4, <1>6 DEF Active, InReceipt
  <1>8. CountOf(c) = row.confirmations /\ CountOf(c)' = row.confirmations
    <2>1. CountOf(c) = After(blockOf[t], track[c].head)
      BY <1>1 DEF CountOf
    <2>2. CountOf(c)' = row.confirmations
      BY <1>4, <1>5 DEF CountOf
    <2> QED BY <1>1, <1>2, <2>1, <2>2, OutcomeType
  <1>9. \A d \in Active(t) : CountOf(d)' = CountOf(d)
    BY <1>6, <1>8
  <1>10. \A e \in Event : told'[t][e] = IF e \in Events(track[c].prev, row) THEN told[t][e] + 1
                                        ELSE told[t][e]
    BY <1>3, PublishType
  <1>11. retold'[t] = retold[t]
    OBVIOUS
  <1>12. ASSUME NEW m \in Milestones PROVE MilestoneBound(t, m)'
    <2>1. MilestoneBound(t, m)
      BY DEF Bounds
    <2>2. c \in Crossing(t, m) <=> Milestone(m) \in Events(track[c].prev, row)
      <3>1. Milestone(m) \in Events(track[c].prev, row) <=> m \in Crossed(track[c].prev, row.confirmations)
        BY EventNames DEF Events, FinalOf, Verdict
      <3> QED BY <1>7, <1>8, <3>1 DEF Crossing, Crossed
    <2>3. Crossing(t, m)' = Crossing(t, m) \ {c}
      BY <1>4, <1>6
    <2>4. Below(t, m)' => Below(t, m)
      BY <1>3, <1>6, <1>7, <1>9 DEF Below
    <2>5. /\ One(Below(t, m))' \in Nat /\ One(Below(t, m)) \in Nat
          /\ One(Below(t, m))' <= One(Below(t, m))
      BY <2>4, BoundTypes
    <2>6. told[t][Milestone(m)] \in Nat /\ retold[t] \in Nat
      BY BoundTypes
    <2>7. told'[t][Milestone(m)] = IF c \in Crossing(t, m) THEN told[t][Milestone(m)] + 1
                                   ELSE told[t][Milestone(m)]
      BY <1>10, <2>2, EventNames
    <2>8. /\ Cardinality(Crossing(t, m)) \in Nat /\ Cardinality(Crossing(t, m) \ {c}) \in Nat
          /\ c \in Crossing(t, m) => Cardinality(Crossing(t, m) \ {c}) + 1 = Cardinality(Crossing(t, m))
          /\ c \notin Crossing(t, m) => Crossing(t, m) \ {c} = Crossing(t, m)
      <3>1. Crossing(t, m) \in SUBSET Track /\ Crossing(t, m) \ {c} \in SUBSET Track
        BY BoundTypes
      <3> QED BY <3>1, Checks
    <2>9. told'[t][Milestone(m)] + Cardinality(Crossing(t, m)') = told[t][Milestone(m)] + Cardinality(Crossing(t, m))
      BY <2>3, <2>6, <2>7, <2>8
    <2> QED BY <1>11, <2>1, <2>3, <2>5, <2>6, <2>7, <2>8, <2>9 DEF MilestoneBound
  <1>13. ASSUME NEW s \in {"confirmed", "reverted"} PROVE FinalBound(t, s)'
    <2>1. FinalBound(t, s)
      BY DEF Bounds
    <2>2. Final(s) \in Events(track[c].prev, row) <=> row.status = s
      BY EventNames DEF Events, FinalOf, Verdict, Crossed, Final, Milestone
    <2>3. InReceipt(t)' = InReceipt(t) \ {c}
      BY <1>4, <1>6
    <2>4. Unsettled(t, s)' => Unsettled(t, s) \/ row.status # s
      <3>1. \A d \in Active(t) : d \in Track
        BY DEF Active
      <3> QED BY <1>4, <1>5, <1>7, <3>1 DEF Unsettled
    <2>5. /\ One(Unsettled(t, s))' \in Nat /\ One(Unsettled(t, s)) \in Nat
          /\ One(Unsettled(t, s))' <= One(Unsettled(t, s)) + (IF row.status = s THEN 0 ELSE 1)
      BY <2>4, BoundTypes
    <2>6. told[t][Final(s)] \in Nat /\ retold[t] \in Nat
      BY BoundTypes
    <2>7. told'[t][Final(s)] = told[t][Final(s)] + (IF row.status = s THEN 1 ELSE 0)
      BY <1>10, <2>2, <2>6, EventNames
    <2>8. /\ Cardinality(InReceipt(t)) \in Nat /\ Cardinality(InReceipt(t)') \in Nat
          /\ Cardinality(InReceipt(t)') + 1 = Cardinality(InReceipt(t))
      <3>1. InReceipt(t) \in SUBSET Track /\ InReceipt(t) \ {c} \in SUBSET Track
        BY BoundTypes
      <3> QED BY <1>7, <2>3, <3>1, Checks
    <2> QED BY <1>11, <2>1, <2>5, <2>6, <2>7, <2>8 DEF FinalBound
  <1> QED BY <1>12, <1>13 DEF Bounds

\* A check writes its row: the row is where the check was going to leave it.
LEMMA UpdateKeepsBounds ==
    ASSUME DepositTyping, NEW c \in Track, UpdateDeposit(c), UNCHANGED <<eth, retold>>,
           NEW t \in Transfer, t = track[c].t, Bounds(t)
    PROVE  Bounds(t)'
  <1>1. track[c].pc = "update" /\ track[c] # NoTrack
    BY CheckType DEF UpdateDeposit
  <1>2. /\ track' = [track EXCEPT ![c] = NoTrack] /\ told'[t] = told[t] /\ UNCHANGED eth
        /\ deposit'[t].confirmations = track[c].row.confirmations
        /\ deposit'[t].status = track[c].row.status
    BY RowWritten
  <1>3. NoTrack.pc # "receipt"
    BY DEF NoTrack
  <1>4. track'[c] = NoTrack /\ \A d \in Track : d # c => track'[d] = track[d]
    BY <1>2 DEF DepositTyping, RowTyping
  <1>5. /\ Active(t)' = (Active(t) \ {c}) \cup (IF NoTrack = NoTrack THEN {} ELSE {c})
        /\ \A d \in Active(t) \ {c} : CountOf(d)' = CountOf(d)
        /\ NoTrack.pc # "receipt" => \A m : InReceipt(t)' = InReceipt(t) \ {c}
                                            /\ Crossing(t, m)' = Crossing(t, m) \ {c}
        /\ blockOf' = blockOf /\ head' = head
    BY <1>1, <1>2, OwnTransfer
  <1>6. c \in Active(t) /\ Active(t)' = Active(t) \ {c} /\ c \notin InReceipt(t)
    BY <1>1, <1>5 DEF Active, InReceipt
  <1>7. InReceipt(t)' = InReceipt(t) /\ \A m : Crossing(t, m)' = Crossing(t, m)
    BY <1>3, <1>5, <1>6 DEF Crossing
  <1>8. CountOf(c) = track[c].row.confirmations
    BY <1>1 DEF CountOf
  <1>9. \A m \in Milestones : Below(t, m)' => Below(t, m)
    BY <1>2, <1>5, <1>6, <1>8 DEF Below
  <1>10. \A s \in {"confirmed", "reverted"} : Unsettled(t, s)' => Unsettled(t, s)
    <2>1. \A d \in Active(t) : d \in Track
      BY DEF Active
    <2> QED BY <1>1, <1>2, <1>4, <1>6, <2>1 DEF Unsettled
  <1> QED BY <1>2, <1>7, <1>9, <1>10, SameBounds

\* A check that fails may have told some of what it crossed; the failure is paid for
\* as a check that may be repeated.
LEMMA TroubleKeepsBounds ==
    ASSUME DepositTyping, NEW c \in Track, CheckTrouble(c),
           NEW t \in Transfer, t = track[c].t, Bounds(t)
    PROVE  Bounds(t)'
  <1>1. track[c] # NoTrack /\ UNCHANGED eth /\ UNCHANGED deposit
        /\ track' = [track EXCEPT ![c] = NoTrack]
    BY CheckType DEF CheckTrouble, TrackFails, PublishFails, tracking
  <1>2. retold'[t] = retold[t] + 1
    BY DEF CheckTrouble, DepositTyping, RowTyping
  <1>3. NoTrack.pc # "receipt"
    BY DEF NoTrack
  <1>4. NoTrack.pc # "receipt" => \A m : InReceipt(t)' = InReceipt(t) \ {c}
                                         /\ Crossing(t, m)' = Crossing(t, m) \ {c}
    BY <1>1, OwnTransfer
  <1>5. c \in Active(t)
    BY <1>1 DEF Active
  <1>6. /\ \A m \in Milestones : told'[t][Milestone(m)] = told[t][Milestone(m)]
            \/ (c \in Crossing(t, m) /\ told'[t][Milestone(m)] = told[t][Milestone(m)] + 1)
        /\ \A s \in {"confirmed", "reverted"} : told'[t][Final(s)] = told[t][Final(s)]
    <2>1. CASE TrackFails(c)
      BY <2>1 DEF TrackFails
    <2>2. CASE PublishFails(c)
      <3>1. track[c].pc = "receipt" /\ track[c].head \in Nat
        BY <2>2, CheckType DEF PublishFails
      <3> DEFINE crossed == Crossed(track[c].prev, Outcome(t, track[c].head).confirmations)
      <3>2. PICK m \in crossed : Publish(t, {Milestone(n) : n \in {k \in crossed : k <= m}})
        BY <2>2 DEF PublishFails
      <3> DEFINE E == {Milestone(n) : n \in {k \in crossed : k <= m}}
      <3>3. CountOf(c) = Outcome(t, track[c].head).confirmations
        <4>1. CountOf(c) = After(blockOf[t], track[c].head)
          BY <3>1 DEF CountOf
        <4> QED BY <3>1, <4>1, OutcomeType
      <3>4. ASSUME NEW n \in Milestones, Milestone(n) \in E PROVE c \in Crossing(t, n)
        <4>1. n \in crossed
          BY <3>4, EventNames DEF Crossed
        <4> QED BY <1>5, <3>1, <3>3, <4>1 DEF Crossing, Crossed, InReceipt
      <3>5. \A s \in {"confirmed", "reverted"} : Final(s) \notin E
        BY EventNames DEF Crossed
      <3>6. Publish(t, E)
        BY <3>2
      <3> HIDE DEF E
      <3>7. \A e \in Event : told'[t][e] = IF e \in E THEN told[t][e] + 1 ELSE told[t][e]
        BY <3>6, PublishType
      <3> QED BY <3>4, <3>5, <3>7, EventNames
    <2> QED BY <2>1, <2>2 DEF CheckTrouble
  <1>7. ASSUME NEW m \in Milestones PROVE MilestoneBound(t, m)'
    <2>1. MilestoneBound(t, m) /\ Crossing(t, m)' = Crossing(t, m) \ {c}
      BY <1>3, <1>4 DEF Bounds
    <2>2. told[t][Milestone(m)] \in Nat /\ retold[t] \in Nat
      BY BoundTypes
    <2>3. One(Below(t, m))' \in {0, 1} /\ One(Below(t, m)) \in {0, 1}
      BY BoundTypes
    <2>4. /\ Cardinality(Crossing(t, m)) \in Nat /\ Cardinality(Crossing(t, m) \ {c}) \in Nat
          /\ c \in Crossing(t, m) => Cardinality(Crossing(t, m) \ {c}) + 1 = Cardinality(Crossing(t, m))
          /\ Cardinality(Crossing(t, m) \ {c}) <= Cardinality(Crossing(t, m))
      <3>1. Crossing(t, m) \in SUBSET Track /\ Crossing(t, m) \ {c} \in SUBSET Crossing(t, m)
            /\ Crossing(t, m) \ {c} \in SUBSET Track
        BY BoundTypes
      <3> QED BY <3>1, Checks
    <2>5. told'[t][Milestone(m)] + Cardinality(Crossing(t, m)') <= told[t][Milestone(m)] + Cardinality(Crossing(t, m))
      BY <1>6, <2>1, <2>2, <2>4
    <2>6. told'[t][Milestone(m)] \in Nat
      BY <1>6, <2>2
    <2> QED BY <1>2, <2>1, <2>2, <2>3, <2>4, <2>5, <2>6 DEF MilestoneBound
  <1>8. ASSUME NEW s \in {"confirmed", "reverted"} PROVE FinalBound(t, s)'
    <2>1. FinalBound(t, s) /\ InReceipt(t)' = InReceipt(t) \ {c}
      BY <1>3, <1>4 DEF Bounds
    <2>2. told[t][Final(s)] \in Nat /\ retold[t] \in Nat
      BY BoundTypes
    <2>3. One(Unsettled(t, s))' \in {0, 1} /\ One(Unsettled(t, s)) \in {0, 1}
      BY BoundTypes
    <2>4. /\ Cardinality(InReceipt(t)) \in Nat /\ Cardinality(InReceipt(t) \ {c}) \in Nat
          /\ Cardinality(InReceipt(t) \ {c}) <= Cardinality(InReceipt(t))
      <3>1. InReceipt(t) \in SUBSET Track /\ InReceipt(t) \ {c} \in SUBSET InReceipt(t)
            /\ InReceipt(t) \ {c} \in SUBSET Track
        BY BoundTypes
      <3> QED BY <3>1, Checks
    <2> QED BY <1>2, <1>6, <2>1, <2>2, <2>3, <2>4 DEF FinalBound
  <1> QED BY <1>7, <1>8 DEF Bounds

\* Every step keeps the bounds.
LEMMA NextKeepsBounds ==
    ASSUME DepositTyping, HeadIsRead, NEW t \in Transfer, Bounds(t), [Next]_vars
    PROVE  Bounds(t)'
  <1>1. CASE UNCHANGED <<eth, track, told, retold>> /\ (UNCHANGED deposit \/ Persistence)
    <2>1. Active(t)' = Active(t)
      BY <1>1 DEF Active
    <2>2. \A c \in Active(t) : track'[c] = track[c] /\ CountOf(c)' = CountOf(c)
      BY <1>1 DEF CountOf, eth
    <2>3. deposit'[t] = deposit[t] \/ (deposit[t].confirmations = 0 /\ deposit[t].status = "none")
      BY <1>1, NewRow DEF Hash, NoRow
    <2>4. blockOf'[t] = blockOf[t] /\ head' = head
      BY <1>1 DEF eth
    <2> QED BY <1>1, <2>1, <2>2, <2>3, <2>4, SameChecks
  <1>2. Persistence => UNCHANGED <<eth, track, told, retold>>
    BY DEF Persistence, HandleEntry, SkipEntry, records
  <1>3. UNCHANGED <<eth, records, retold>> => UNCHANGED <<eth, track, told, retold>> /\ UNCHANGED deposit
    BY DEF records
  <1>4. ASSUME NEW c \in Track, NEW u \in Transfer, StartCheck(c, u), u # t PROVE Bounds(t)'
    <2> DEFINE v == [pc |-> "receipt", t |-> u, head |-> head, prev |-> deposit[u].confirmations]
    <2>1. /\ track' = [track EXCEPT ![c] = v] /\ UNCHANGED eth /\ track[c] = NoTrack
          /\ told'[t] = told[t] /\ deposit'[t] = deposit[t] /\ v.t = u
      BY <1>4 DEF StartCheck, LoadDeposit, tracking
    <2>2. retold'[t] = retold[t]
      BY <1>4 DEF StartCheck, DepositTyping, RowTyping
    <2> HIDE DEF v
    <2> QED BY <1>4, <2>1, <2>2, OtherTransfers
  <1>5. ASSUME NEW c \in Track, GoOn(c) \/ CheckTrouble(c) PROVE Bounds(t)'
    <2>1. track[c] # NoTrack /\ UNCHANGED eth
      BY <1>5, CheckType DEF GoOn, CheckTrouble, ReadReceipt, UpdateDeposit, TrackFails, PublishFails,
                             tracking
    <2>2. PICK u \in Transfer : u = track[c].t
      BY <2>1, CheckType
    <2>3. CASE u = t
      BY <1>5, <2>1, <2>2, <2>3, ReceiptKeepsBounds, UpdateKeepsBounds, TroubleKeepsBounds DEF GoOn
    <2>4. CASE u # t
      <3>1. \E v : track' = [track EXCEPT ![c] = v] /\ (v # NoTrack => v.t = u)
        <4>1. CASE ReadReceipt(c)
          <5> DEFINE v == [pc |-> "update", t |-> u, row |-> Outcome(u, track[c].head)]
          <5>1. track' = [track EXCEPT ![c] = v] /\ v.t = u
            BY <2>2, <4>1 DEF ReadReceipt
          <5> HIDE DEF v
          <5> QED BY <5>1
        <4>2. CASE track' = [track EXCEPT ![c] = NoTrack]
          BY <4>2
        <4> QED BY <1>5, <4>1, <4>2 DEF GoOn, UpdateDeposit, CheckTrouble, TrackFails, PublishFails
      <3>2. told'[t] = told[t]
        <4>1. ASSUME NEW E, Publish(u, E) PROVE told'[t] = told[t]
          BY <2>2, <2>4, <4>1, PublishType
        <4>2. ReadReceipt(c) => \E E : Publish(u, E)
          BY <2>2 DEF ReadReceipt
        <4>3. PublishFails(c) => \E E : Publish(u, E)
          BY <2>2 DEF PublishFails
        <4>4. UpdateDeposit(c) \/ TrackFails(c) => UNCHANGED told
          BY DEF UpdateDeposit, TrackFails
        <4> QED BY <1>5, <4>1, <4>2, <4>3, <4>4 DEF GoOn, CheckTrouble
      <3>3. retold'[t] = retold[t]
        BY <1>5, <2>2, <2>4 DEF GoOn, CheckTrouble, DepositTyping, RowTyping
      <3>4. deposit'[t] = deposit[t]
        BY <1>5, <2>2, <2>4, RowWritten DEF GoOn, ReadReceipt, CheckTrouble, TrackFails, PublishFails, Hash
      <3> QED BY <2>1, <2>2, <2>4, <3>1, <3>2, <3>3, <3>4, OtherTransfers
    <2> QED BY <2>3, <2>4
  <1> QED BY <1>1, <1>2, <1>3, <1>4, <1>5, OtherSteps, ChainKeepsBounds, StartKeepsBounds

\* In the first state nothing is told, published or to come.
LEMMA InitTracker ==
    ASSUME Init
    PROVE  TrackerInv /\ PollInv
  <1> USE DEF Init, ChainInit, DetectionInit, RecordsInit
  <1>1. \A c \in Track : track[c] = NoTrack /\ NoTrack.pc = "idle"
    BY DEF NoTrack
  <1>2. HeadIsRead /\ ToldBefore
    BY <1>1 DEF HeadIsRead, ToldBefore
  <1>3. \A t \in Transfer : t \in Hash /\ deposit[t] = NoRow /\ NoRow.status = "none" /\ NoRow.source = "none"
    BY DEF Hash, NoRow
  <1>4. FollowedIsRealtime /\ MilestonesTold
    BY <1>1, <1>3 DEF FollowedIsRealtime, MilestonesTold, Open
  <1>5. ASSUME NEW t \in Transfer PROVE Bounds(t)
    <2>1. InReceipt(t) = {} /\ \A m : Crossing(t, m) = {}
      BY <1>1 DEF InReceipt, Active, Crossing
    <2>2. Cardinality(InReceipt(t)) = 0 /\ \A m : Cardinality(Crossing(t, m)) = 0
      BY <2>1, FS_EmptySet
    <2>3. \A m : One(Below(t, m)) \in {0, 1}
      BY DEF One
    <2>4. \A s : One(Unsettled(t, s)) \in {0, 1}
      BY DEF One
    <2>5. retold[t] = 0 /\ \A e \in Event : told[t][e] = 0
      OBVIOUS
    <2>6. \A m \in Milestones : MilestoneBound(t, m)
      BY <2>2, <2>3, <2>5, EventNames DEF MilestoneBound
    <2>7. \A s \in {"confirmed", "reverted"} : FinalBound(t, s)
      BY <2>2, <2>4, <2>5, EventNames DEF FinalBound
    <2> QED BY <2>6, <2>7 DEF Bounds
  <1>6. TrackerInv
    BY <1>2, <1>4, <1>5 DEF TrackerInv
  <1>7. Balance = 0
    <2>1. Held = {}
      BY DEF Held, Mined
    <2> QED BY <2>1, BalanceType DEF Balance
  <1>8. Cached = 0 /\ Excess(0, 0) = 0
    BY DEF Cached, Excess
  <1>9. \A p \in Poll : poll[p] = Idle /\ Idle.pc = "idle"
    BY DEF Idle
  <1>10. Sound
    BY <1>9 DEF Sound
  <1>11. Alone /\ Coming
    BY <1>7, <1>8, <1>9 DEF Alone, Coming
  <1> QED BY <1>6, <1>10, <1>11 DEF PollInv

-----------------------------------------------------------------------------
(* What arrived is accounted for *)

\* There are finitely many hashes.
LEMMA HashIsFinite == IsFiniteSet(Hash)
  <1>1. IsFiniteSet(0 .. MaxBlock)
    BY ChainAssumption, FS_Interval
  <1> QED BY <1>1, ChainAssumption, FS_Union DEF Hash

\* What a hash is worth: what its row says, or its only entry.
LEMMA ValueFacts ==
    ASSUME NEW row, row # NoRow => row.amount \in Nat, NEW S \in SUBSET Message, NEW h
    PROVE  /\ ValueOf(row, S, h) \in Nat
           /\ row # NoRow => ValueOf(row, S, h) = row.amount
           /\ row = NoRow /\ ~(\E m \in S : m.hash = h) => ValueOf(row, S, h) = 0
           /\ \A m \in S : row = NoRow /\ m.hash = h /\ (\A n \in S : n.hash = h => n = m)
                            => ValueOf(row, S, h) = m.amount
  <1>1. \A m \in S : m.amount \in Nat
    BY DEF Message
  <1>2. ASSUME NEW m \in S, m.hash = h
        PROVE  (CHOOSE n \in S : n.hash = h) \in S /\ (CHOOSE n \in S : n.hash = h).hash = h
    BY <1>2
  <1>3. ValueOf(row, S, h) =
          IF row # NoRow THEN row.amount
          ELSE IF \E m \in S : m.hash = h THEN (CHOOSE m \in S : m.hash = h).amount ELSE 0
    BY DEF ValueOf
  <1>4. CASE row # NoRow
    BY <1>3, <1>4
  <1>5. CASE row = NoRow /\ \E m \in S : m.hash = h
    <2> DEFINE k == CHOOSE m \in S : m.hash = h
    <2>1. k \in S /\ k.hash = h
      BY <1>2, <1>5
    <2>2. ValueOf(row, S, h) = k.amount
      BY <1>3, <1>5
    <2> HIDE DEF k
    <2> QED BY <1>1, <1>5, <2>1, <2>2
  <1>6. CASE row = NoRow /\ ~(\E m \in S : m.hash = h)
    BY <1>3, <1>6
  <1> QED BY <1>4, <1>5, <1>6

\* What is recorded is a number.
LEMMA RecordedType ==
    ASSUME DepositTyping
    PROVE  /\ Recorded \in Nat
           /\ \A h \in Hash : Value(h) \in Nat
           /\ \A p \in Poll : PendingOf(p) \in Nat
  <1>1. ASSUME NEW h \in Hash PROVE Value(h) \in Nat
    <2>1. deposit[h].amount \in Nat /\ stream \in SUBSET Message
      BY DEF DepositTyping, RowTyping, PollTyping, Row
    <2> QED BY <2>1, ValueFacts DEF Value
  <1>2. ASSUME NEW p \in Poll PROVE PendingOf(p) \in Nat
    <2>1. poll[p].pc = "publish" => Increase(p) \in Nat
      BY IncreaseType DEF DepositTyping
    <2> QED BY <2>1 DEF PendingOf
  <1> DEFINE f == [h \in Hash |-> Value(h)]
             g == [p \in Poll |-> PendingOf(p)]
  <1>3. SumFunctionOnSet(f, Hash) \in Nat
    <2>1. \A h \in Hash : f[h] \in Nat
      BY <1>1
    <2> HIDE DEF f
    <2> QED BY <2>1, HashIsFinite, SumType
  <1>4. SumFunctionOnSet(g, Poll) \in Nat
    <2>1. \A p \in Poll : g[p] \in Nat
      BY <1>2
    <2> HIDE DEF g
    <2> QED BY <2>1, DetectionAssumption, SumType
  <1>5. Recorded = SumFunctionOnSet(f, Hash) + SumFunctionOnSet(g, Poll)
    BY DEF Recorded, SumFunction
  <1> QED BY <1>1, <1>2, <1>3, <1>4, <1>5

\* A step that changes what one hash is worth and one increase.
LEMMA RecordedMoves ==
    ASSUME DepositTyping, NEW p \in Poll, NEW h \in Hash,
           \A q \in Poll : q # p => PendingOf(q)' = PendingOf(q), PendingOf(p)' \in Nat,
           \A k \in Hash : k # h => Value(k)' = Value(k), Value(h)' \in Nat
    PROVE  /\ Recorded' + Value(h) + PendingOf(p) = Recorded + Value(h)' + PendingOf(p)'
           /\ Recorded' \in Nat
  <1> DEFINE f == [k \in Hash |-> Value(k)]
             fn == [k \in Hash |-> Value(k)']
             g == [q \in Poll |-> PendingOf(q)]
             gn == [q \in Poll |-> PendingOf(q)']
  <1>1. /\ \A k \in Hash : f[k] \in Nat /\ fn[k] \in Nat
        /\ \A k \in Hash : k # h => fn[k] = f[k]
        /\ f[h] = Value(h) /\ fn[h] = Value(h)'
    BY RecordedType
  <1>2. /\ \A q \in Poll : g[q] \in Nat /\ gn[q] \in Nat
        /\ \A q \in Poll : q # p => gn[q] = g[q]
        /\ g[p] = PendingOf(p) /\ gn[p] = PendingOf(p)'
    BY RecordedType
  <1>3. Recorded = SumFunctionOnSet(f, Hash) + SumFunctionOnSet(g, Poll)
    BY DEF Recorded, SumFunction
  <1>4. Recorded' = SumFunctionOnSet(fn, Hash) + SumFunctionOnSet(gn, Poll)
    BY DEF Recorded, SumFunction
  <1> HIDE DEF f, fn, g, gn
  <1>5. SumFunctionOnSet(fn, Hash) + f[h] = SumFunctionOnSet(f, Hash) + fn[h]
    BY <1>1, HashIsFinite, SumUpdates
  <1>6. SumFunctionOnSet(gn, Poll) + g[p] = SumFunctionOnSet(g, Poll) + gn[p]
    BY <1>2, DetectionAssumption, SumUpdates
  <1>7. /\ SumFunctionOnSet(f, Hash) \in Nat /\ SumFunctionOnSet(fn, Hash) \in Nat
        /\ SumFunctionOnSet(g, Poll) \in Nat /\ SumFunctionOnSet(gn, Poll) \in Nat
    BY <1>1, <1>2, HashIsFinite, DetectionAssumption, SumType
  <1> QED BY <1>1, <1>2, <1>3, <1>4, <1>5, <1>6, <1>7

\* A step that changes neither.
LEMMA RecordedStays ==
    ASSUME \A q \in Poll : PendingOf(q)' = PendingOf(q), \A k \in Hash : Value(k)' = Value(k)
    PROVE  Recorded' = Recorded
  <1>1. [k \in Hash |-> Value(k)'] = [k \in Hash |-> Value(k)]
    OBVIOUS
  <1>2. [q \in Poll |-> PendingOf(q)'] = [q \in Poll |-> PendingOf(q)]
    OBVIOUS
  <1>3. Recorded' = SumFunction([k \in Hash |-> Value(k)']) + SumFunction([q \in Poll |-> PendingOf(q)'])
    BY DEF Recorded
  <1> QED BY <1>1, <1>2, <1>3 DEF Recorded

\* A step that touches neither entries, rows' amounts nor polls.
LEMMA ValuesStay ==
    ASSUME UNCHANGED stream,
           \A h \in Hash : deposit'[h] = deposit[h]
               \/ (deposit[h] # NoRow /\ deposit'[h] # NoRow /\ deposit'[h].amount = deposit[h].amount)
    PROVE  \A h \in Hash : Value(h)' = Value(h)
  BY DEF Value, ValueOf

\* A balance that gains k above an earlier one exceeds it by k more.
LEMMA ExcessAdds ==
    ASSUME NEW a \in Nat, NEW c \in Nat, NEW k \in Nat, a <= c
    PROVE  Excess(c + k, a) = Excess(c, a) + k
  <1>1. /\ Excess(c + k, a) = IF c + k > a THEN c + k - a ELSE 0
        /\ Excess(c, a) = IF c > a THEN c - a ELSE 0
    BY DEF Excess
  <1> QED BY <1>1

\* Blocks: a transfer shows in the balance, a flush hides only what a poll has seen.
LEMMA ChainKeepsAccounts ==
    ASSUME DepositTyping, mode = "polling", ~missed', Accounts, Mining \/ Chain
    PROVE  Accounts'
  <1>0. /\ Balance \in Nat /\ Balance' \in Nat /\ Cached \in Nat /\ arrived \in Nat /\ Recorded \in Nat
        /\ balanceCache # NoEntry => Cached = balanceCache
        /\ balanceCache = NoEntry => Cached = 0
    BY Balances, CachedType, RecordedType
  <1>1. UNCHANGED <<deposit, stream, poll, balanceCache, seen>> /\ announced' = {}
    BY DEF Mining, Chain, records, history, detectors, Announce, Accounts
  <1>2. Recorded' = Recorded /\ Cached' = Cached /\ \A p \in Poll : Prev(p)' = Prev(p)
    <2>1. \A p \in Poll : PendingOf(p)' = PendingOf(p)
      BY <1>1 DEF PendingOf, Increase, Prev
    <2>2. \A h \in Hash : Value(h)' = Value(h)
      BY <1>1, ValuesStay
    <2> QED BY <1>1, <2>1, <2>2, RecordedStays DEF Cached, Prev
  <1>3. OneEntryEach'
    BY <1>1 DEF Accounts, OneEntryEach
  <1>4. /\ arrived = Total(Mined) /\ seen \subseteq Mined /\ Mined \ Held \subseteq seen
        /\ Total(seen) <= Recorded /\ arrived <= Recorded + Excess(Balance, Cached)
    BY DEF Accounts
  <1>5. \A p \in Poll : poll[p].pc = "write" =>
          /\ poll[p].balance \in Nat /\ Prev(p) \in Nat /\ poll[p] # Idle
          /\ Excess(poll[p].balance, Prev(p)) \in Nat
          /\ arrived <= Recorded + Excess(poll[p].balance, Prev(p)) + Excess(Balance, poll[p].balance)
    <2> SUFFICES ASSUME NEW p \in Poll, poll[p].pc = "write"
                 PROVE  /\ poll[p].balance \in Nat /\ Prev(p) \in Nat /\ poll[p] # Idle
                        /\ Excess(poll[p].balance, Prev(p)) \in Nat
                        /\ arrived <= Recorded + Excess(poll[p].balance, Prev(p))
                                              + Excess(Balance, poll[p].balance)
      OBVIOUS
    <2>1. poll[p].balance \in Nat /\ Prev(p) \in Nat
      BY IncreaseType
    <2>2. Excess(poll[p].balance, Prev(p)) \in Nat
      BY <2>1, ExcessFacts
    <2> QED BY <2>1, <2>2 DEF Accounts, Idle
  <1>6. CASE Mining
    <2>1. UNCHANGED <<arrived, Mined, Held, Balance>>
      BY <1>6 DEF Mining, MineOther, history, Balance, Held, Mined
    <2> QED BY <1>1, <1>2, <1>3, <1>4, <1>5, <2>1 DEF Accounts
  <1>7. ASSUME NEW t \in Transfer, MineTransfer(t), arrived' = arrived + Amount[t], ~FlushUnseen
        PROVE  Accounts'
    <2>1. /\ Held' = Held \cup {t} /\ Mined' = Mined \cup {t} /\ t \notin Mined
          /\ Balance' = Balance + Amount[t] /\ Amount[t] \in Nat
      <3>1. Amount[t] \in Nat
        BY ChainAssumption
      <3> QED BY <1>0, <1>7, <3>1, MinedIsHeld
    <2>2. Cached <= Balance
      BY <1>0, <1>7 DEF FlushUnseen
    <2>3. arrived' = Total(Mined')
      <3>1. Mined \in SUBSET Transfer
        BY DEF Mined
      <3>2. Total(Mined \cup {t}) = Amount[t] + Total(Mined) /\ Total(Mined) \in Nat
        BY <2>1, <3>1, TotalAdds, BalanceType
      <3> QED BY <1>4, <1>7, <2>1, <3>2
    <2>4. Excess(Balance', Cached) = Excess(Balance, Cached) + Amount[t] /\ Excess(Balance, Cached) \in Nat
      <3>1. Excess(Balance + Amount[t], Cached) = Excess(Balance, Cached) + Amount[t]
        BY <1>0, <2>1, <2>2, ExcessAdds
      <3>2. Excess(Balance, Cached) \in Nat
        BY <1>0, ExcessFacts
      <3> QED BY <2>1, <3>1, <3>2
    <2>5. arrived' <= Recorded + Excess(Balance', Cached)
      BY <1>0, <1>4, <1>7, <2>1, <2>4
    <2>6. ASSUME NEW p \in Poll, poll[p].pc = "write"
          PROVE  arrived' <= Recorded + Excess(poll[p].balance, Prev(p)) + Excess(Balance', poll[p].balance)
      <3>1. poll[p].balance <= Balance
        BY <1>0, <1>5, <1>7, <2>6 DEF FlushUnseen
      <3>2. /\ Excess(Balance', poll[p].balance) = Excess(Balance, poll[p].balance) + Amount[t]
            /\ Excess(Balance, poll[p].balance) \in Nat
        <4>1. poll[p].balance \in Nat
          BY <1>5, <2>6
        <4>2. Excess(Balance + Amount[t], poll[p].balance) = Excess(Balance, poll[p].balance) + Amount[t]
          BY <1>0, <2>1, <3>1, <4>1, ExcessAdds
        <4>3. Excess(Balance, poll[p].balance) \in Nat
          BY <1>0, <4>1, ExcessFacts
        <4> QED BY <2>1, <4>2, <4>3
      <3> QED BY <1>0, <1>5, <1>7, <2>1, <2>6, <3>2
    <2>7. seen' \subseteq Mined' /\ Mined' \ Held' \subseteq seen'
      BY <1>1, <1>4, <2>1
    <2> QED BY <1>1, <1>2, <1>3, <1>4, <2>3, <2>5, <2>6, <2>7 DEF Accounts
  <1>8. CASE MineFlush /\ UNCHANGED arrived /\ Held \subseteq seen
    <2>1. Held' = {} /\ Mined' = Mined /\ Mined = seen
      BY <1>4, <1>8, FlushedIsGone DEF Held
    <2>2. arrived <= Recorded
      BY <1>4, <2>1
    <2>3. Excess(Balance', Cached) \in Nat /\ arrived <= Recorded + Excess(Balance', Cached)
      <3>1. Excess(Balance', Cached) \in Nat
        BY <1>0, ExcessFacts
      <3> QED BY <1>0, <2>2, <3>1
    <2>4. ASSUME NEW p \in Poll, poll[p].pc = "write"
          PROVE  arrived <= Recorded + Excess(poll[p].balance, Prev(p)) + Excess(Balance', poll[p].balance)
      <3>1. Excess(Balance', poll[p].balance) \in Nat
        BY <1>0, <1>5, <2>4, ExcessFacts
      <3> QED BY <1>0, <1>5, <2>2, <2>4, <3>1
    <2> QED BY <1>1, <1>2, <1>3, <1>4, <1>8, <2>1, <2>3, <2>4 DEF Accounts
  <1>9. Chain => \/ \E t \in Transfer : MineTransfer(t) /\ arrived' = arrived + Amount[t] /\ ~FlushUnseen
                 \/ MineFlush /\ UNCHANGED arrived /\ Held \subseteq seen
    BY DEF Chain
  <1> QED BY <1>6, <1>7, <1>8, <1>9

\* An entry of the stream becomes the row it is worth.
LEMMA PersistenceKeepsAccounts ==
    ASSUME DepositTyping, Accounts, Persistence, ~missed'
    PROVE  Accounts'
  <1>1. PICK m \in stream : Upsert(m) /\ stream' \in {stream, stream \ {m}}
    BY DEF Persistence, HandleEntry, SkipEntry, records
  <1>2. UNCHANGED <<eth, poll, balanceCache, announced, arrived, seen>>
    BY DEF Persistence, HandleEntry, SkipEntry, records
  <1>3. /\ m \in Message /\ m.hash \in Hash /\ deposit \in [Hash -> Row] /\ stream \in SUBSET Message
        /\ stream' \in SUBSET Message
        /\ RowOf(m) # NoRow /\ RowOf(m).amount = m.amount /\ m.amount \in Nat
    BY <1>1, RowOfType DEF DepositTyping, PollTyping, RowTyping, Message, RowOf
  <1>4. \A n \in stream : n.hash = m.hash => n = m
    BY DEF Accounts, OneEntryEach
  <1>5. ASSUME NEW h \in Hash PROVE Value(h)' = Value(h)
    <2>1. deposit[h].amount \in Nat /\ deposit'[h].amount \in Nat
      BY <1>1, <1>3 DEF Upsert, Row
    <2>2. CASE deposit[h] # NoRow
      <3>1. deposit'[h] = deposit[h]
        BY <1>1, <1>3, <2>2 DEF Upsert
      <3> QED BY <1>3, <2>1, <2>2, <3>1, ValueFacts DEF Value
    <2>3. CASE deposit[h] = NoRow /\ h = m.hash
      <3>1. deposit'[h] = RowOf(m)
        BY <1>1, <1>3, <2>3 DEF Upsert
      <3>2. Value(h)' = m.amount
        BY <1>3, <2>1, <3>1, ValueFacts DEF Value
      <3>3. Value(h) = m.amount
        BY <1>3, <1>4, <2>1, <2>3, ValueFacts DEF Value
      <3> QED BY <3>2, <3>3
    <2>4. CASE deposit[h] = NoRow /\ h # m.hash
      <3>1. deposit'[h] = NoRow
        BY <1>1, <1>3, <2>4 DEF Upsert
      <3>2. CASE \E n \in stream : n.hash = h
        <4>1. PICK n \in stream : n.hash = h
          BY <3>2
        <4>2. n \in stream' /\ \A k \in stream : k.hash = h => k = n
          BY <1>1, <2>4, <4>1 DEF Accounts, OneEntryEach
        <4>3. Value(h) = n.amount
          BY <1>3, <2>1, <2>4, <4>1, <4>2, ValueFacts DEF Value
        <4>4. Value(h)' = n.amount
          BY <1>1, <1>3, <2>1, <3>1, <4>1, <4>2, ValueFacts DEF Value
        <4> QED BY <4>3, <4>4
      <3>3. CASE ~(\E n \in stream : n.hash = h)
        <4>1. Value(h) = 0
          BY <1>3, <2>1, <2>4, <3>3, ValueFacts DEF Value
        <4>2. Value(h)' = 0
          BY <1>1, <1>3, <2>1, <3>1, <3>3, ValueFacts DEF Value
        <4> QED BY <4>1, <4>2
      <3> QED BY <3>2, <3>3
    <2> QED BY <2>2, <2>3, <2>4
  <1>6. Recorded' = Recorded
    <2>1. \A p \in Poll : PendingOf(p)' = PendingOf(p)
      BY <1>2 DEF PendingOf, Increase, Prev
    <2> QED BY <1>5, <2>1, RecordedStays
  <1>7. UNCHANGED <<Mined, Held, Balance, Cached>> /\ \A p \in Poll : Prev(p)' = Prev(p)
    BY <1>2 DEF eth, Mined, Held, Balance, Cached, Prev
  <1>8. OneEntryEach'
    BY <1>1 DEF Accounts, OneEntryEach
  <1> QED BY <1>2, <1>6, <1>7, <1>8 DEF Accounts

\* A step that leaves the chain, the polls and the entries alone, and the amount of every row.
LEMMA OthersKeepAccounts ==
    ASSUME Accounts, UNCHANGED <<eth, poll, balanceCache, announced, stream, arrived, seen>>,
           \A h \in Hash : deposit'[h] = deposit[h]
               \/ (deposit[h] # NoRow /\ deposit'[h] # NoRow /\ deposit'[h].amount = deposit[h].amount)
    PROVE  Accounts'
  <1>1. \A h \in Hash : Value(h)' = Value(h)
    BY ValuesStay
  <1>2. \A p \in Poll : PendingOf(p)' = PendingOf(p)
    BY DEF PendingOf, Increase, Prev
  <1>3. Recorded' = Recorded
    BY <1>1, <1>2, RecordedStays
  <1>4. UNCHANGED <<Mined, Held, Balance, Cached>> /\ \A p \in Poll : Prev(p)' = Prev(p)
    BY DEF eth, Mined, Held, Balance, Cached, Prev
  <1> QED BY <1>3, <1>4 DEF Accounts, OneEntryEach

\* What a poll takes into the cache is published or was recorded.
LEMMA PollingKeepsAccounts ==
    ASSUME DepositTyping, mode = "polling", ~missed', Accounts, NEW p \in Poll, Polling(p)
    PROVE  Accounts'
  <1>0. /\ Balance \in Nat /\ Cached \in Nat /\ arrived \in Nat /\ Recorded \in Nat
        /\ \A q \in Poll : PendingOf(q) \in Nat
        /\ Idle.pc = "idle"
        /\ poll \in [Poll -> {Idle} \cup Reading \cup Writing]
    BY Balances, CachedType, RecordedType DEF Idle, DepositTyping, PollTyping
  <1>1. UNCHANGED <<deposit, announced, arrived, Mined, Held, Balance>>
    BY DEF Polling, eth, records, ReadBalances, ReadCaches, WriteCache, PublishIncrease, Mined, Held, Balance
  <1>2. /\ announced = {} /\ OneEntryEach /\ arrived = Total(Mined) /\ seen \subseteq Mined
        /\ Mined \ Held \subseteq seen
        /\ Total(seen) <= Recorded /\ arrived <= Recorded + Excess(Balance, Cached)
    BY DEF Accounts
  <1>3. ASSUME NEW q \in Poll, poll[q].pc = "write"
        PROVE  /\ poll[q].balance \in Nat /\ Prev(q) \in Nat
               /\ Excess(poll[q].balance, Prev(q)) \in Nat /\ Excess(Balance, poll[q].balance) \in Nat
               /\ arrived <= Recorded + Excess(poll[q].balance, Prev(q)) + Excess(Balance, poll[q].balance)
    <2>1. poll[q].balance \in Nat /\ Prev(q) \in Nat
      BY <1>3, IncreaseType
    <2> QED BY <1>0, <1>3, <2>1, ExcessFacts DEF Accounts
  <1>4. \A q \in Poll : q # p => poll'[q] = poll[q]
    BY <1>0 DEF Polling, ReadBalances, ReadCaches, WriteCache, PublishIncrease
  <1>5. \A q \in Poll : q # p => PendingOf(q)' = PendingOf(q) /\ Prev(q)' = Prev(q)
    BY <1>4 DEF PendingOf, Increase, Prev
  <1>6. CASE ReadBalances(p) /\ UNCHANGED seen
    <2>1. /\ poll[p] = Idle /\ poll'[p].pc = "read"
          /\ UNCHANGED <<balanceCache, stream>>
      BY <1>0, <1>6 DEF ReadBalances
    <2>2. PendingOf(p)' = 0 /\ PendingOf(p) = 0
      BY <1>0, <2>1 DEF PendingOf
    <2>3. Recorded' = Recorded /\ Cached' = Cached
      <3>1. \A h \in Hash : Value(h)' = Value(h)
        BY <1>1, <2>1, ValuesStay
      <3> QED BY <1>5, <2>1, <2>2, <3>1, RecordedStays DEF Cached
    <2> QED BY <1>1, <1>2, <1>3, <1>4, <1>5, <1>6, <2>1, <2>3 DEF Accounts, OneEntryEach
  <1>7. CASE ReadCaches(p) /\ UNCHANGED seen
    <2>1. poll[p].pc = "read" /\ poll[p] \in Reading /\ UNCHANGED <<balanceCache, stream>>
      BY <1>7, Forms DEF ReadCaches
    <2>2. poll'[p].pc = "write" /\ poll'[p].balance = poll[p].balance /\ poll'[p].prev = balanceCache
      BY <1>0, <1>7 DEF ReadCaches
    <2>3. PendingOf(p)' = 0 /\ PendingOf(p) = 0
      BY <2>1, <2>2 DEF PendingOf
    <2>4. Recorded' = Recorded /\ Cached' = Cached
      <3>1. \A h \in Hash : Value(h)' = Value(h)
        BY <1>1, <2>1, ValuesStay
      <3> QED BY <1>5, <2>1, <2>3, <3>1, RecordedStays DEF Cached
    <2>5. Prev(p)' = Cached /\ poll[p].balance \in Nat
      BY <2>1, <2>2 DEF Prev, Cached, Reading
    <2>6. arrived <= Recorded + Excess(poll[p].balance, Cached) + Excess(Balance, poll[p].balance)
      <3>1. /\ Excess(Balance, Cached) <= Excess(poll[p].balance, Cached) + Excess(Balance, poll[p].balance)
            /\ Excess(poll[p].balance, Cached) \in Nat /\ Excess(Balance, poll[p].balance) \in Nat
            /\ Excess(Balance, Cached) \in Nat
        BY <1>0, <2>5, ExcessFacts
      <3> QED BY <1>0, <1>2, <3>1
    <2> QED BY <1>1, <1>2, <1>3, <1>4, <1>5, <1>7, <2>1, <2>2, <2>4, <2>5, <2>6 DEF Accounts, OneEntryEach
  <1>8. CASE WriteCache(p) /\ seen' = IF poll[p].balance = Balance THEN seen \cup Held ELSE seen
    <2>1. /\ poll[p].pc = "write" /\ balanceCache' = poll[p].balance /\ UNCHANGED stream
          /\ poll' = [poll EXCEPT ![p] = IF Increased(p) THEN [@ EXCEPT !.pc = "publish"] ELSE Idle]
      BY <1>8 DEF WriteCache
    <2>2. poll[p] \in Writing
      BY <2>1, Forms
    <2>3. Cached' = poll[p].balance /\ PendingOf(p) = 0
      BY <1>3, <2>1, CachedType DEF PendingOf
    <2>4. PendingOf(p)' = (IF Increased(p) THEN poll[p].balance - Prev(p) ELSE 0)
          /\ poll'[p].pc # "write"
      <3>1. CASE Increased(p)
        <4>1. /\ poll'[p].pc = "publish" /\ poll'[p].balance = poll[p].balance
              /\ poll'[p].prev = poll[p].prev
          BY <1>0, <2>1, <2>2, <3>1 DEF Writing
        <4> QED BY <3>1, <4>1 DEF PendingOf, Increase, Prev
      <3>2. CASE ~Increased(p)
        <4>1. poll'[p] = Idle
          BY <1>0, <2>1, <3>2
        <4> QED BY <1>0, <3>2, <4>1 DEF PendingOf
      <3> QED BY <3>1, <3>2
    <2>5. PendingOf(p)' = Excess(poll[p].balance, Prev(p)) /\ PendingOf(p)' \in Nat
      BY <1>3, <2>1, <2>4 DEF Increased, Excess
    <2>6. Recorded' = Recorded + Excess(poll[p].balance, Prev(p))
      <3>1. \A h \in Hash : Value(h)' = Value(h)
        BY <1>1, <2>1, ValuesStay
      <3>2. 0 \in Hash /\ Value(0) \in Nat
        BY ChainAssumption, RecordedType DEF Hash
      <3>3. Recorded' + Value(0) + PendingOf(p) = Recorded + Value(0)' + PendingOf(p)'
            /\ Recorded' \in Nat
        BY <1>5, <2>5, <3>1, <3>2, RecordedMoves
      <3>4. Value(0)' = Value(0)
        BY <3>1, <3>2
      <3> QED BY <1>0, <1>3, <2>1, <2>3, <2>5, <3>2, <3>3, <3>4
    <2>7. Recorded <= Recorded' /\ Recorded' \in Nat
      BY <1>0, <1>3, <2>1, <2>6
    <2>8. arrived <= Recorded' + Excess(Balance, Cached')
      BY <1>0, <1>3, <2>1, <2>3, <2>6
    <2>9. ASSUME NEW q \in Poll, poll'[q].pc = "write"
          PROVE  arrived <= Recorded' + Excess(poll'[q].balance, Prev(q)') + Excess(Balance, poll'[q].balance)
      <3>1. q # p /\ poll'[q] = poll[q] /\ Prev(q)' = Prev(q)
        BY <1>4, <1>5, <2>4, <2>9
      <3> QED BY <1>0, <1>3, <2>7, <2>9, <3>1
    <2>10. seen' \subseteq Mined /\ Mined \ Held \subseteq seen' /\ Total(seen') <= Recorded'
      <3>1. CASE poll[p].balance = Balance
        <4>1. seen' = Mined
          BY <1>2, <1>8, <3>1 DEF Held
        <4>2. Excess(Balance, Cached') = 0
          BY <1>0, <2>3, <3>1, ExcessFacts
        <4> QED BY <1>0, <1>2, <2>7, <2>8, <4>1, <4>2
      <3>2. CASE poll[p].balance # Balance
        <4>1. Total(seen) \in Nat
          BY <1>2, BalanceType DEF Mined
        <4> QED BY <1>0, <1>2, <1>8, <2>7, <3>2, <4>1
      <3> QED BY <3>1, <3>2
    <2> QED BY <1>1, <1>2, <2>1, <2>8, <2>9, <2>10 DEF Accounts, OneEntryEach
  <1>9. CASE PublishIncrease(p) /\ UNCHANGED seen /\ ~(\A m \in stream' \ stream : Known(m.hash))
    <2>1. PICK h \in Hash :
            /\ stream' = stream \cup {[hash |-> h, amount |-> Increase(p), source |-> "polling"]}
            /\ poll' = [poll EXCEPT ![p] = Idle] /\ UNCHANGED balanceCache
      BY <1>9 DEF PublishIncrease
    <2> DEFINE e == [hash |-> h, amount |-> Increase(p), source |-> "polling"]
    <2>2. ~Known(h)
      BY <1>9, <2>1
    <2>3. deposit[h] = NoRow /\ \A m \in stream : m.hash # h
      BY <2>2 DEF Known
    <2>4. Increase(p) \in Nat /\ PendingOf(p) = Increase(p) /\ poll'[p] = Idle
      BY <1>0, <1>9, <2>1, IncreaseType DEF PublishIncrease, DepositTyping, PendingOf
    <2>5. e \in Message /\ stream \in SUBSET Message /\ stream' \in SUBSET Message /\ deposit \in [Hash -> Row]
      BY <2>1, <2>4, EntryType DEF DepositTyping, PollTyping, RowTyping
    <2>6. e.hash = h /\ e.amount = Increase(p) /\ stream' = stream \cup {e}
      BY <2>1
    <2> HIDE DEF e
    <2>7. PendingOf(p)' = 0
      BY <1>0, <2>4 DEF PendingOf
    <2>8. Value(h) = 0 /\ Value(h)' = Increase(p)
      <3>1. deposit'[h] = NoRow /\ deposit[h].amount \in Nat
        BY <1>1, <2>3, <2>5 DEF Row
      <3>2. Value(h) = 0
        BY <2>3, <2>5, <3>1, ValueFacts DEF Value
      <3>3. Value(h)' = e.amount
        BY <1>1, <2>3, <2>5, <2>6, <3>1, ValueFacts DEF Value
      <3> QED BY <2>6, <3>2, <3>3
    <2>9. ASSUME NEW k \in Hash, k # h PROVE Value(k)' = Value(k)
      <3>1. {m \in stream' : m.hash = k} = {m \in stream : m.hash = k}
        BY <2>6, <2>9
      <3>2. (\E m \in stream' : m.hash = k) <=> (\E m \in stream : m.hash = k)
        BY <3>1
      <3>3. deposit'[k] = deposit[k] /\ deposit[k].amount \in Nat
        BY <1>1, <2>5 DEF Row
      <3>4. CASE deposit[k] # NoRow
        BY <2>5, <3>3, <3>4, ValueFacts DEF Value
      <3>5. CASE deposit[k] = NoRow /\ ~(\E m \in stream : m.hash = k)
        <4>1. Value(k) = 0
          BY <2>5, <3>3, <3>5, ValueFacts DEF Value
        <4>2. Value(k)' = 0
          BY <2>5, <3>2, <3>3, <3>5, ValueFacts DEF Value
        <4> QED BY <4>1, <4>2
      <3>6. ASSUME NEW n \in stream, n.hash = k, deposit[k] = NoRow PROVE Value(k)' = Value(k)
        <4>1. n \in stream' /\ \A m \in stream : m.hash = k => m = n
          BY <1>2, <2>6, <3>6 DEF OneEntryEach
        <4>2. \A m \in stream' : m.hash = k => m = n
          BY <2>6, <2>9, <4>1
        <4>3. Value(k) = n.amount
          BY <2>5, <3>3, <3>6, <4>1, ValueFacts DEF Value
        <4>4. Value(k)' = n.amount
          BY <2>5, <3>3, <3>6, <4>1, <4>2, ValueFacts DEF Value
        <4> QED BY <4>3, <4>4
      <3> QED BY <3>4, <3>5, <3>6
    <2>10. Recorded' = Recorded
      <3>1. Recorded' + Value(h) + PendingOf(p) = Recorded + Value(h)' + PendingOf(p)'
            /\ Recorded' \in Nat
        BY <1>5, <2>4, <2>7, <2>8, <2>9, RecordedMoves
      <3> QED BY <1>0, <2>4, <2>7, <2>8, <3>1
    <2>11. Cached' = Cached
      BY <2>1 DEF Cached
    <2>12. OneEntryEach'
      BY <1>2, <2>3, <2>6 DEF OneEntryEach
    <2>13. poll'[p].pc # "write"
      BY <1>0, <2>4
    <2> QED BY <1>1, <1>2, <1>3, <1>4, <1>5, <1>9, <2>10, <2>11, <2>12, <2>13 DEF Accounts
  <1> QED BY <1>6, <1>7, <1>8, <1>9 DEF Polling

\* Trouble with a poll loses an increase or nothing; when the cached balance ends, the
\* next poll takes everything for new.
LEMMA TroubleKeepsAccounts ==
    ASSUME DepositTyping, ~missed', Accounts, (\E p \in Poll : PollTrouble(p)) \/ Expiry
    PROVE  Accounts'
  <1>0. /\ Balance \in Nat /\ Cached \in Nat /\ arrived \in Nat /\ Recorded \in Nat
        /\ poll \in [Poll -> {Idle} \cup Reading \cup Writing] /\ Idle.pc = "idle"
    BY Balances, CachedType, RecordedType DEF Idle, DepositTyping, PollTyping
  <1>1. UNCHANGED <<deposit, stream, announced, arrived, seen, Mined, Held, Balance>>
    BY DEF PollTrouble, TimesOut, PollFails, Expiry, BalanceExpires, eth, records, Mined, Held, Balance
  <1>2. \A h \in Hash : Value(h)' = Value(h)
    BY <1>1, ValuesStay
  <1>3. ASSUME NEW p \in Poll, PollTrouble(p) PROVE Accounts'
    <2>1. UNCHANGED balanceCache /\ Cached' = Cached
      BY <1>3 DEF PollTrouble, TimesOut, PollFails, Cached
    <2>2. \A q \in Poll : q # p => poll'[q] = poll[q]
      BY <1>0, <1>3 DEF PollTrouble, TimesOut, PollFails
    <2>3. \/ poll'[p].pc = "idle" /\ poll[p].pc # "publish"
          \/ /\ poll'[p].pc = poll[p].pc /\ poll'[p].balance = poll[p].balance
             /\ poll[p].pc # "read" => poll'[p].prev = poll[p].prev
      <3>1. CASE TimesOut(p)
        <4>1. poll[p] \in Reading \cup Writing
          BY <3>1, Forms DEF TimesOut, InFlight
        <4> QED BY <1>0, <3>1, <4>1 DEF TimesOut, Reading, Writing
      <3>2. CASE PollFails(p) /\ poll[p].pc # "publish"
        BY <1>0, <3>2 DEF PollFails
      <3> QED BY <1>3, <3>1, <3>2 DEF PollTrouble
    <2>4. \A q \in Poll : PendingOf(q)' = PendingOf(q)
      BY <2>2, <2>3 DEF PendingOf, Increase, Prev
    <2>5. Recorded' = Recorded
      BY <1>2, <2>4, RecordedStays
    <2>6. \A q \in Poll : poll'[q].pc = "write" =>
            poll[q].pc = "write" /\ poll'[q].balance = poll[q].balance /\ Prev(q)' = Prev(q)
      BY <2>2, <2>3 DEF Prev
    <2> QED BY <1>1, <2>1, <2>5, <2>6 DEF Accounts, OneEntryEach
  <1>4. CASE Expiry
    <2>1. (\A p \in Poll : poll[p] = Idle) /\ poll' = poll /\ balanceCache' = NoEntry
      BY <1>4 DEF Expiry, BalanceExpires
    <2>2. Recorded' = Recorded
      <3>1. \A q \in Poll : PendingOf(q)' = PendingOf(q)
        BY <2>1 DEF PendingOf, Increase, Prev
      <3> QED BY <1>2, <3>1, RecordedStays
    <2>3. Cached' = 0
      BY <2>1 DEF Cached
    <2>4. arrived <= Recorded + Excess(Balance, 0)
      <3>1. /\ Excess(Balance, 0) = IF Balance > 0 THEN Balance - 0 ELSE 0
            /\ Excess(Balance, Cached) = IF Balance > Cached THEN Balance - Cached ELSE 0
        BY DEF Excess
      <3>2. Excess(Balance, Cached) <= Excess(Balance, 0) /\ Excess(Balance, 0) \in Nat
            /\ Excess(Balance, Cached) \in Nat
        BY <1>0, <3>1
      <3>3. arrived <= Recorded + Excess(Balance, Cached)
        BY DEF Accounts
      <3> QED BY <1>0, <3>2, <3>3
    <2>5. \A p \in Poll : poll'[p].pc # "write"
      BY <1>0, <2>1
    <2> QED BY <1>1, <2>2, <2>3, <2>4, <2>5 DEF Accounts, OneEntryEach
  <1> QED BY <1>3, <1>4

\* Every step keeps the accounts.
LEMMA NextKeepsAccountInv ==
    ASSUME DepositTyping, FollowedIsRealtime, AccountInv, [Next]_vars
    PROVE  AccountInv'
  <1>1. SUFFICES ASSUME mode' = "polling", ~missed' PROVE Accounts'
    BY DEF AccountInv
  <1>2. mode = "polling" /\ ~missed
    <2>1. Mining \/ Chain => mode' = mode /\ (missed => missed')
      <3>1. Mining \/ Chain => mode' = mode
        BY DEF Mining, Chain, history, detectors, Announce
      <3>2. Mining \/ Chain => (missed => missed')
        BY DEF Mining, Chain, history
      <3> QED BY <3>1, <3>2
    <2>2. ASSUME NEW p \in Poll, Polling(p) \/ PollTrouble(p) PROVE mode' = mode /\ (missed => missed')
      <3>1. mode' = mode
        BY <2>2 DEF Polling, ReadBalances, ReadCaches, WriteCache, PublishIncrease, PollTrouble, TimesOut,
                    PollFails
      <3>2. missed => missed'
        BY <2>2 DEF Polling, PollTrouble
      <3> QED BY <3>1, <3>2
    <2>3. Expiry \/ Subscription \/ Persistence => mode' = mode /\ (missed => missed')
      BY DEF Expiry, BalanceExpires, Subscription, ProcessBlock, history, Persistence, HandleEntry, SkipEntry, records
    <2>4. ASSUME NEW c \in Track, (\E t \in Transfer : StartCheck(c, t)) \/ GoOn(c) \/ CheckTrouble(c)
          PROVE  mode' = mode /\ (missed => missed')
      BY <2>4 DEF StartCheck, GoOn, CheckTrouble, tracking, detectors
    <2>5. UNCHANGED vars => mode' = mode /\ (missed => missed')
      BY DEF vars, detectors, history
    <2> QED BY <1>1, <2>1, <2>2, <2>3, <2>4, <2>5 DEF Next
  <1>3. Accounts
    BY <1>2 DEF AccountInv
  <1>4. ~Subscription
    BY <1>3 DEF Subscription, ProcessBlock, Accounts
  <1>5. CASE UNCHANGED vars
    BY <1>3, <1>5, OthersKeepAccounts DEF vars, detectors, records, history
  <1>6. ASSUME NEW c \in Track, (\E t \in Transfer : StartCheck(c, t)) \/ GoOn(c) \/ CheckTrouble(c)
        PROVE  Accounts'
    <2>1. UNCHANGED <<eth, poll, balanceCache, announced, stream, arrived, seen>>
      BY <1>6 DEF StartCheck, GoOn, CheckTrouble, tracking, detectors
    <2>2. CASE UNCHANGED deposit
      BY <1>3, <2>1, <2>2, OthersKeepAccounts
    <2>3. CASE UpdateDeposit(c)
      <3>1. track[c].t \in Transfer /\ track[c] # NoTrack
        BY <2>3, CheckType DEF UpdateDeposit
      <3>2. deposit[track[c].t].source = "realtime" /\ deposit'[track[c].t].source = "realtime"
        BY <2>3, <3>1, RowWritten DEF FollowedIsRealtime
      <3>3. deposit[track[c].t] # NoRow /\ deposit'[track[c].t] # NoRow
        BY <3>2 DEF NoRow
      <3>4. \A h \in Hash : deposit'[h] = deposit[h]
               \/ (deposit[h] # NoRow /\ deposit'[h] # NoRow /\ deposit'[h].amount = deposit[h].amount)
        BY <2>3, <3>3, RowWritten
      <3> QED BY <1>3, <2>1, <3>4, OthersKeepAccounts
    <2> QED BY <1>6, <2>2, <2>3 DEF StartCheck, LoadDeposit, GoOn, ReadReceipt, CheckTrouble, TrackFails,
               PublishFails
  <1> QED BY <1>1, <1>2, <1>3, <1>4, <1>5, <1>6, ChainKeepsAccounts, PollingKeepsAccounts,
             TroubleKeepsAccounts, PersistenceKeepsAccounts DEF Next

\* In the first state nothing has arrived.
LEMMA InitAccounts ==
    ASSUME Init
    PROVE  AccountInv
  <1> USE DEF Init, ChainInit, DetectionInit, RecordsInit
  <1>1. DepositTyping
    BY InitTyping
  <1>2. Mined = {} /\ Held = {} /\ Total({}) = 0 /\ {} \in SUBSET Transfer
    BY BalanceType DEF Held, Mined
  <1>3. Recorded \in Nat /\ Excess(Balance, Cached) \in Nat /\ Balance \in Nat /\ Cached \in Nat
    <2>1. Recorded \in Nat /\ Balance \in Nat /\ Cached \in Nat
      BY <1>1, RecordedType, Balances, CachedType
    <2> QED BY <2>1, ExcessFacts
  <1>4. \A p \in Poll : poll[p].pc = "idle"
    BY DEF Idle
  <1>5. Accounts
    <2>1. announced = {} /\ OneEntryEach /\ arrived = Total(Mined) /\ seen = {} /\ arrived = 0
      BY <1>2 DEF OneEntryEach
    <2>2. 0 <= Recorded /\ 0 <= Recorded + Excess(Balance, Cached)
      BY <1>3
    <2> QED BY <1>2, <1>4, <2>1, <2>2 DEF Accounts
  <1> QED BY <1>5 DEF AccountInv

\* Every step keeps the invariant.
LEMMA NextKeepsInvariant ==
    ASSUME DepositInv, [Next]_vars
    PROVE  DepositInv'
  <1>1. DepositTyping /\ HeadIsRead /\ FollowedIsRealtime /\ ToldBefore /\ MilestonesTold /\ PollInv
        /\ AccountInv /\ \A t \in Transfer : Bounds(t)
    BY DEF DepositInv, TrackerInv
  <1>2. DepositTyping' /\ HeadIsRead' /\ FollowedIsRealtime' /\ ToldBefore' /\ MilestonesTold' /\ PollInv'
        /\ AccountInv'
    BY <1>1, NextKeepsTyping, NextKeepsHeadIsRead, NextKeepsFollowed, NextKeepsTold, NextKeepsPollInv,
       NextKeepsAccountInv
  <1>3. (\A t \in Transfer : Bounds(t))'
    BY <1>1, NextKeepsBounds
  <1> QED BY <1>2, <1>3 DEF DepositInv, TrackerInv

\* Every reachable state has it.
LEMMA AlwaysDepositInv == Spec => []DepositInv
  <1>1. Init => DepositInv
    BY InitTyping, InitTracker, InitAccounts DEF DepositInv
  <1>2. DepositInv /\ [Next]_vars => DepositInv'
    BY NextKeepsInvariant
  <1> QED BY <1>1, <1>2, PTL DEF Spec

-----------------------------------------------------------------------------
(* The theorems *)

\* Rows, entries and polls have the form the code gives them: a row has an amount, and a
\* poll never reads more than all transfers pay.
THEOREM DepositTypes == Spec => []TypeOK
  <1>1. DepositInv => TypeOK
    BY DEF DepositInv, DepositTyping, ChainTyping, PollTyping, PollInv, Sound, TypeOK
  <1> QED BY <1>1, AlwaysDepositInv, PTL

\* What the polls publish has arrived: polling-detector writes the cache before it
\* publishes, so a poll that dies publishes nothing twice.
THEOREM PolledIsOnce == Spec => []PolledOnce
  <1>1. DepositInv => PolledOnce
    <2> SUFFICES ASSUME DepositInv, ~repeated PROVE polled <= arrived
      BY DEF PolledOnce
    <2>1. DepositTyping /\ Coming
      BY DEF DepositInv, PollInv
    <2>2. /\ polled \in Nat /\ arrived \in Nat /\ Cached \in Nat /\ Balance \in Nat
          /\ Excess(Balance, Cached) \in Nat
      BY <2>1, CachedType, Balances, ExcessFacts
    <2>3. CASE \A p \in Poll : poll[p] = Idle
      <3>1. polled + Excess(Balance, Cached) <= arrived
        BY <2>1, <2>3 DEF Coming
      <3> QED BY <2>2, <3>1
    <2>4. ASSUME NEW p \in Poll, poll[p] # Idle PROVE polled <= arrived
      <3>1. poll[p] \in Reading \cup Writing /\ poll[p].balance \in Nat
        BY <2>1, <2>4, Forms DEF Reading, Writing
      <3>2. Excess(poll[p].balance, Cached) \in Nat /\ Excess(Balance, poll[p].balance) \in Nat
        BY <2>2, <3>1, ExcessFacts
      <3>3. CASE poll[p].pc \in {"read", "write"}
        <4>1. polled + Excess(poll[p].balance, Cached) + Excess(Balance, poll[p].balance) <= arrived
          BY <2>1, <3>3 DEF Coming
        <4> QED BY <2>2, <3>2, <4>1
      <3>4. CASE poll[p].pc = "publish"
        <4>1. polled + Increase(p) + Excess(Balance, poll[p].balance) <= arrived
          BY <2>1, <3>4 DEF Coming
        <4>2. Increase(p) \in Nat
          BY <2>1, <3>4, IncreaseType DEF DepositTyping
        <4> QED BY <2>2, <3>2, <4>1, <4>2
      <3> QED BY <3>1, <3>3, <3>4 DEF Reading, Writing
    <2> QED BY <2>3, <2>4
  <1> QED BY <1>1, AlwaysDepositInv, PTL

\* confirmation-tracker publishes before it updates: whatever a row says was told.
THEOREM RowsAreTold == Spec => []MilestonesTold
  <1>1. DepositInv => MilestonesTold
    BY DEF DepositInv, TrackerInv
  <1> QED BY <1>1, AlwaysDepositInv, PTL

\* An event is told once, and once more only for a check that failed or overlapped
\* another, or a transfer that was orphaned.
THEOREM EventsAreToldOnce == Spec => []ToldOnce
  <1>1. DepositInv => ToldOnce
    <2> SUFFICES ASSUME DepositInv, NEW t \in Transfer, NEW e \in Event
                 PROVE  told[t][e] <= 1 + retold[t]
      BY DEF ToldOnce
    <2>1. DepositTyping /\ Bounds(t)
      BY DEF DepositInv, TrackerInv
    <2>2. ASSUME NEW m \in Milestones, e = Milestone(m) PROVE told[t][e] <= 1 + retold[t]
      <3>1. MilestoneBound(t, m)
        BY <2>1 DEF Bounds
      <3>2. Cardinality(Crossing(t, m)) \in Nat
        BY <2>1, BoundTypes, Checks
      <3>3. One(Below(t, m)) \in Nat /\ told[t][Milestone(m)] \in Nat /\ retold[t] \in Nat
        BY <2>1, BoundTypes
      <3> QED BY <2>2, <3>1, <3>2, <3>3 DEF MilestoneBound
    <2>3. ASSUME NEW s \in {"confirmed", "reverted"}, e = Final(s) PROVE told[t][e] <= 1 + retold[t]
      <3>1. FinalBound(t, s)
        BY <2>1 DEF Bounds
      <3>2. Cardinality(InReceipt(t)) \in Nat
        BY <2>1, BoundTypes, Checks
      <3>3. One(Unsettled(t, s)) \in Nat /\ told[t][Final(s)] \in Nat /\ retold[t] \in Nat
        BY <2>1, BoundTypes
      <3> QED BY <2>3, <3>1, <3>2, <3>3 DEF FinalBound
    <2> QED BY <2>2, <2>3 DEF Event
  <1> QED BY <1>1, AlwaysDepositInv, PTL

\* When the polls alone watch an address and have caught up, everything that arrived is
\* in a row, unless an increase was lost or hidden from them.
THEOREM NothingIsLost == Spec => []AllAccountedFor
  <1>1. DepositInv => AllAccountedFor
    <2> SUFFICES ASSUME DepositInv, mode = "polling", ~missed, balanceCache = Balance, stream = {},
                        \A p \in Poll : poll[p] = Idle
                 PROVE  Credited >= arrived
      BY DEF AllAccountedFor
    <2>1. DepositTyping /\ Accounts
      BY DEF DepositInv, AccountInv
    <2>2. Balance \in Nat /\ Cached = Balance /\ arrived \in Nat /\ Recorded \in Nat
      BY <2>1, Balances, CachedType, RecordedType, DetectionAssumption DEF Cached
    <2>3. arrived <= Recorded
      <3>1. Excess(Balance, Cached) = 0
        BY <2>2, ExcessFacts
      <3>2. arrived <= Recorded + Excess(Balance, Cached)
        BY <2>1 DEF Accounts
      <3> QED BY <2>2, <3>1, <3>2
    <2>4. SumFunction([p \in Poll |-> PendingOf(p)]) = 0
      <3> DEFINE g == [p \in Poll |-> PendingOf(p)]
      <3>1. \A p \in Poll : g[p] = 0
        BY DEF PendingOf, Idle
      <3>2. SumFunction(g) = SumFunctionOnSet(g, Poll)
        BY DEF SumFunction
      <3> HIDE DEF g
      <3>3. SumFunction(g) = 0
        BY <3>1, <3>2, DetectionAssumption, SumOfZeros
      <3> QED BY <3>3 DEF g
    <2>5. \A h \in Hash : Value(h) = deposit[h].amount
      BY DEF Value, ValueOf, NoRow
    <2>6. [h \in Hash |-> Value(h)] = [h \in Hash |-> deposit[h].amount]
      BY <2>5
    <2>7. Recorded = Credited + 0
      BY <2>4, <2>6 DEF Recorded, Credited
    <2>8. Credited \in Nat
      <3> DEFINE f == [h \in Hash |-> deposit[h].amount]
      <3>1. \A h \in Hash : f[h] \in Nat
        BY <2>1 DEF DepositTyping, RowTyping, Row
      <3>2. Credited = SumFunctionOnSet(f, Hash)
        BY DEF Credited, SumFunction
      <3> HIDE DEF f
      <3> QED BY <3>1, <3>2, HashIsFinite, SumType
    <2> QED BY <2>2, <2>3, <2>7, <2>8
  <1> QED BY <1>1, AlwaysDepositInv, PTL

-----------------------------------------------------------------------------
(* What is promised of a row *)

\* A call of the tracker has one row in hand, or none.
LEMMA CheckedFacts ==
    ASSUME RowTyping, NEW c \in Track
    PROVE  /\ CheckedRows[c] = IF track[c] = NoTrack THEN {} ELSE {track[c].t}
           /\ \A x \in Loaded \cup Judged : x # NoTrack /\ x.t \in Transfer
           /\ \A x \in {NoTrack} \cup Loaded \cup Judged : track' = [track EXCEPT ![c] = x] =>
                CheckedRows' = [CheckedRows EXCEPT ![c] = IF x = NoTrack THEN {} ELSE {x.t}]
  <1>1. track \in [Track -> {NoTrack} \cup Loaded \cup Judged]
    BY DEF RowTyping
  <1>2. \A x \in Loaded \cup Judged : x # NoTrack /\ x.t \in Transfer
    <2>1. \A x \in Loaded : x.pc = "receipt" /\ x.t \in Transfer
      BY DEF Loaded
    <2>2. \A x \in Judged : x.pc = "update" /\ x.t \in Transfer
      BY DEF Judged
    <2>3. NoTrack.pc = "idle"
      BY DEF NoTrack
    <2> QED BY <2>1, <2>2, <2>3
  <1> QED BY <1>1, <1>2 DEF CheckedRows

\* The insertion of a row.
LEMMA InsertKeepsPromise ==
    ASSUME RowTyping, NEW m \in Message, Upsert(m), UNCHANGED track
    PROVE  [Promise!Next]_Promise!vars
  <1>1. deposit \in [Hash -> Row] /\ m.hash \in Hash
    BY DEF RowTyping, Message
  <1>2. CheckedRows' = CheckedRows
    BY DEF CheckedRows
  <1>3. CASE deposit[m.hash] # NoRow
    BY <1>2, <1>3 DEF Upsert, RowStatus, Promise!vars
  <1>4. CASE deposit[m.hash] = NoRow
    <2>1. RowStatus[m.hash] = "none"
      BY <1>1, <1>4 DEF RowStatus, NoRow
    <2>2. RowOf(m).status \in {"pending", "confirmed"}
      BY DEF RowOf
    <2>3. RowStatus' = [h \in Hash |-> IF h = m.hash THEN RowOf(m).status ELSE RowStatus[h]]
      BY <1>1, <1>4 DEF Upsert, RowStatus
    <2> HIDE DEF RowStatus
    <2>4. Promise!Insert(m.hash)
      BY <1>2, <2>1, <2>2, <2>3 DEF Promise!Insert, Promise!Write
    <2> QED BY <1>1, <2>4 DEF Promise!Next
  <1> QED BY <1>3, <1>4

\* The steps of a call of the tracker.
LEMMA CheckKeepsPromise ==
    ASSUME RowTyping, RowTyping', NEW c \in Track,
           \/ \E t \in Transfer : LoadDeposit(c, t)
           \/ ReadReceipt(c) \/ UpdateDeposit(c) \/ TrackFails(c) \/ PublishFails(c)
    PROVE  [Promise!Next]_Promise!vars
  <1>1. /\ track \in [Track -> {NoTrack} \cup Loaded \cup Judged]
        /\ track' \in [Track -> {NoTrack} \cup Loaded \cup Judged]
        /\ deposit \in [Hash -> Row]
    BY DEF RowTyping
  <1>2. RowStatus = [h \in Hash |-> RowStatus[h]]
    BY DEF RowStatus
  <1>3. CASE TrackFails(c) \/ PublishFails(c)
    <2>1. track' = [track EXCEPT ![c] = NoTrack] /\ UNCHANGED deposit
      BY <1>3 DEF TrackFails, PublishFails
    <2>2. CheckedRows' = [CheckedRows EXCEPT ![c] = {}] /\ RowStatus' = RowStatus
      BY <2>1, CheckedFacts DEF RowStatus
    <2>3. Promise!EndCheck(c)
      BY <1>2, <2>2 DEF Promise!EndCheck, Promise!Write
    <2> QED BY <2>3 DEF Promise!Next
  <1>4. ASSUME NEW t \in Transfer, LoadDeposit(c, t)
        PROVE  Promise!Next
    <2> DEFINE x == [pc |-> "receipt", t |-> t, head |-> head, prev |-> deposit[t].confirmations]
    <2>1. track' = [track EXCEPT ![c] = x] /\ x.t = t /\ x.pc = "receipt"
      BY <1>4 DEF LoadDeposit
    <2> HIDE DEF x
    <2>2. x \in Loaded
      <3>1. track'[c] = x
        BY <1>1, <2>1
      <3> QED BY <1>1, <2>1, <3>1 DEF NoTrack, Judged
    <2>3. CheckedRows[c] = {} /\ CheckedRows' = [CheckedRows EXCEPT ![c] = {t}]
      BY <1>4, <2>1, <2>2, CheckedFacts DEF LoadDeposit
    <2>4. t \in Promise!In({"pending", "confirming"}) /\ RowStatus' = RowStatus
      BY <1>1, <1>4 DEF LoadDeposit, Open, Promise!In, RowStatus, Hash
    <2>5. Promise!StartCheck(c)
      BY <2>3, <2>4 DEF Promise!StartCheck
    <2> QED BY <2>5 DEF Promise!Next
  <1>5. CASE ReadReceipt(c)
    <2> DEFINE x == [pc |-> "update", t |-> track[c].t,
                     row |-> Outcome(track[c].t, track[c].head)]
    <2>1. track' = [track EXCEPT ![c] = x] /\ x.t = track[c].t /\ x.pc = "update"
      BY <1>5 DEF ReadReceipt
    <2> HIDE DEF x
    <2>2. x \in Judged
      <3>1. track'[c] = x
        BY <1>1, <2>1
      <3> QED BY <1>1, <2>1, <3>1 DEF NoTrack, Loaded
    <2>3. track[c] # NoTrack
      BY <1>5 DEF ReadReceipt, NoTrack
    <2>4. CheckedRows[c] = {x.t} /\ CheckedRows' = [CheckedRows EXCEPT ![c] = {x.t}]
      BY <2>1, <2>2, <2>3, CheckedFacts
    <2>5. CheckedRows' = CheckedRows
      BY <2>4 DEF CheckedRows
    <2>6. RowStatus' = RowStatus
      BY <1>5 DEF ReadReceipt, RowStatus
    <2> QED BY <2>5, <2>6 DEF Promise!vars
  <1>6. CASE UpdateDeposit(c)
    <2> DEFINE t == track[c].t
               s == track[c].row.status
    <2>1. track[c] \in Judged /\ track[c] # NoTrack
      BY <1>1, <1>6 DEF UpdateDeposit, NoTrack, Loaded
    <2>2. t \in Transfer /\ s \in {"confirming", "confirmed", "reverted"}
      BY <2>1 DEF Judged, Verdict
    <2>3. track' = [track EXCEPT ![c] = NoTrack]
      BY <1>6 DEF UpdateDeposit
    <2>4. CheckedRows[c] = {t} /\ CheckedRows' = [CheckedRows EXCEPT ![c] = {}]
      BY <2>1, <2>3, CheckedFacts
    <2>5. deposit' = [deposit EXCEPT ![t] = [@ EXCEPT !.status = s,
                                                      !.confirmations = track[c].row.confirmations]]
      BY <1>6 DEF UpdateDeposit
    <2>6. deposit[t] \in Row
      BY <1>1, <2>2 DEF Hash
    <2>7. RowStatus' = [h \in Hash |-> IF h = t THEN s ELSE RowStatus[h]]
      BY <1>1, <2>5, <2>6 DEF RowStatus, Row
    <2> HIDE DEF t, s
    <2>8. \A h \in Hash : RowStatus'[h] = RowStatus[h] \/ (h \in CheckedRows[c] /\ RowStatus'[h] = s)
      BY <2>4, <2>7
    <2>9. RowStatus' = [h \in Hash |-> RowStatus'[h]]
      BY <2>7
    <2>10. Promise!Write(CheckedRows[c], s)
      BY <2>8, <2>9 DEF Promise!Write
    <2>11. Promise!EndCheck(c)
      BY <2>2, <2>4, <2>10 DEF Promise!EndCheck
    <2> QED BY <2>11 DEF Promise!Next
  <1> QED BY <1>3, <1>4, <1>5, <1>6

\* Persistence and tracker keep what DepositRow promises of a row, with entries that are
\* delivered again and checks that overlap or stop.
THEOREM DepositKeepsRows == Spec => RowsAsPromised
  <1>1. Init => Promise!Init
    BY DEF Init, RecordsInit, RowStatus, CheckedRows, NoRow, Promise!Init
  <1>2. DepositInv /\ DepositInv' /\ [Next]_vars => [Promise!Next]_Promise!vars
    <2> SUFFICES ASSUME DepositInv, DepositInv', [Next]_vars
                 PROVE  [Promise!Next]_Promise!vars
      OBVIOUS
    <2>1. RowTyping /\ RowTyping' /\ stream \subseteq Message
      BY DEF DepositInv, DepositTyping, PollTyping
    <2>2. CASE UNCHANGED <<deposit, track>>
      BY <2>2 DEF RowStatus, CheckedRows, Promise!vars
    <2>3. CASE Persistence
      <3>1. PICK m \in stream : (Upsert(m) \/ UNCHANGED deposit) /\ UNCHANGED track
        BY <2>3 DEF Persistence, HandleEntry, SkipEntry, records
      <3> QED BY <2>1, <2>2, <3>1, InsertKeepsPromise
    <2>4. ASSUME NEW c \in Track, (\E t \in Transfer : StartCheck(c, t)) \/ GoOn(c) \/ CheckTrouble(c)
          PROVE  [Promise!Next]_Promise!vars
      BY <2>1, <2>4, CheckKeepsPromise DEF StartCheck, GoOn, CheckTrouble
    <2>5. \/ UNCHANGED vars \/ Mining \/ Chain \/ Expiry \/ Subscription
          \/ \E p \in Poll : Polling(p) \/ PollTrouble(p)
          => UNCHANGED <<deposit, track>>
      BY DEF vars, records, Mining, Chain, Expiry, Subscription, Polling, PollTrouble
    <2> QED BY <2>2, <2>3, <2>4, <2>5 DEF Next
  <1> QED BY <1>1, <1>2, AlwaysDepositInv, PTL DEF Spec, RowsAsPromised, Promise!Spec

\* A row that is reverted is touched only by a check that began when it was open: DepositRow
\* promises it.
THEOREM ClosedStays == Spec => Promise!ClosedUnlessInHand
  <1>1. ASSUME [Promise!Next]_Promise!vars, NEW h \in Hash, ~Promise!InHand(h),
               RowStatus[h] \in {"reverted", "swept", "sweep_failed"}
        PROVE  RowStatus'[h] = RowStatus[h]
    <2>1. ASSUME NEW i \in Hash, Promise!Insert(i)
          PROVE  RowStatus'[h] = RowStatus[h]
      BY <1>1, <2>1 DEF Promise!Insert, Promise!Write
    <2>2. ASSUME NEW c \in Track, Promise!StartCheck(c) \/ Promise!EndCheck(c)
          PROVE  RowStatus'[h] = RowStatus[h]
      BY <1>1, <2>2 DEF Promise!StartCheck, Promise!EndCheck, Promise!Write, Promise!InHand
    <2>3. CASE Promise!Settle \/ Promise!TakeAlong
      BY <1>1, <2>3 DEF Promise!Settle, Promise!TakeAlong, Promise!Write, Promise!In
    <2> QED BY <1>1, <2>1, <2>2, <2>3 DEF Promise!Next, Promise!vars
  <1>2. [Promise!Next]_Promise!vars => [Promise!LeavesClosed]_Promise!vars
    BY <1>1 DEF Promise!LeavesClosed
  <1> QED BY <1>2, DepositKeepsRows, PTL
          DEF RowsAsPromised, Promise!Spec, Promise!ClosedUnlessInHand
=============================================================================
