------------------------- MODULE WalletSimpleProofs -------------------------
(***************************************************************************)
(* Proofs about the wallet contract, for every window size, every maximal  *)
(* increase and every set of addresses.                                    *)
(***************************************************************************)
EXTENDS WalletSimple, WellFoundedInduction, FiniteSetTheorems, TLAPS

\* A sent transaction, whatever its kind, is a Transact by some two signers.
LEMMA SendIsTransact ==
    ASSUME NEW sender, NEW other, NEW to, NEW e, NEW s,
           \/ SendMultiSig(sender, other, to, e, s)
           \/ SendMultiSigToken(sender, other, to, e, s)
           \/ SendMultiSigBatch(sender, other, to, e, s)
    PROVE  \E R : /\ Transact(sender, other, e, s, R)
                  /\ safeMode => R \subseteq signers
    <1>1. CASE SendMultiSig(sender, other, to, e, s)
      BY <1>1 DEF SendMultiSig
    <1>2. CASE SendMultiSigToken(sender, other, to, e, s)
      BY <1>2 DEF SendMultiSigToken
    <1>3. CASE SendMultiSigBatch(sender, other, to, e, s)
      BY <1>3 DEF SendMultiSigBatch
    <1> QED BY <1>1, <1>2, <1>3

\* Every step of the wallet is one of five kinds: the three send calls are
\* one kind, given by what they have in common.
LEMMA NextCases ==
    ASSUME [Next]_vars
    PROVE  \/ \E S \in SUBSET Address : InitWallet(S)
           \/ \E sender, other \in Address, e \in 0..MaxTime, s \in SequenceIds :
                 \E R : /\ Transact(sender, other, e, s, R)
                        /\ safeMode => R \subseteq signers
           \/ \E sender \in Address : ActivateSafeMode(sender)
           \/ Tick
           \/ UNCHANGED vars
    <1>1. ASSUME NEW sender \in Address, NEW other \in Address,
                 NEW e \in 0..MaxTime, NEW s \in SequenceIds,
                 \/ \E to \in Address : SendMultiSig(sender, other, to, e, s)
                 \/ \E to \in Address : SendMultiSigToken(sender, other, to, e, s)
                 \/ \E R \in SUBSET Address : SendMultiSigBatch(sender, other, R, e, s)
          PROVE  \E R : /\ Transact(sender, other, e, s, R)
                        /\ safeMode => R \subseteq signers
      BY <1>1, SendIsTransact
    <1> QED BY <1>1 DEF Next

-----------------------------------------------------------------------------
(* What one transaction does to the window and to the log *)

Entry(s, R) == [seq |-> s, outside |-> ~(R \subseteq signers), safe |-> safeMode]

\* A transaction appends its entry to the log ...
LEMMA TransactLog ==
    ASSUME TypeOK,
           NEW sender, NEW other, NEW e, NEW s \in SequenceIds, NEW R,
           Transact(sender, other, e, s, R)
    PROVE  /\ log' = Append(log, Entry(s, R))
           /\ Entry(s, R) \in Transaction
    <1>1. log' = Append(log, Entry(s, R))
      BY DEF Transact, Entry
    <1>2. Entry(s, R) \in Transaction
      BY DEF Entry, Transaction, TypeOK, SequenceIds
    <1> QED BY <1>1, <1>2

\* ... and replaces the lowest id of the window by a higher one that is not in it.
LEMMA TransactWindow ==
    ASSUME NEW sender, NEW other, NEW e, NEW s \in SequenceIds, NEW R,
           Transact(sender, other, e, s, R)
    PROVE  \E i \in Slots :
              /\ \A j \in Slots : recentSequenceIds[i] <= recentSequenceIds[j]
              /\ \A j \in Slots : recentSequenceIds[j] # s
              /\ s > recentSequenceIds[i]
              /\ recentSequenceIds' = [recentSequenceIds EXCEPT ![i] = s]
    BY DEF Transact, VerifyMultiSig, TryInsertSequenceId, IsLowest, Insertable

\* The wallet's storage keeps its shape.
THEOREM TypeCorrect == Spec => []TypeOK
  <1>1. Init => TypeOK
    <2> SUFFICES ASSUME Init PROVE TypeOK
      OBVIOUS
    <2>1. recentSequenceIds \in [Slots -> Nat] /\ now \in 0..MaxTime
      BY WindowAssumption DEF Init
    <2>2. log \in Seq(Transaction)
      BY DEF Init
    <2> QED BY <2>1, <2>2 DEF Init, TypeOK
  <1>2. TypeOK /\ [Next]_vars => TypeOK'
    <2> SUFFICES ASSUME TypeOK, [Next]_vars PROVE TypeOK'
      OBVIOUS
    <2>1. ASSUME NEW S \in SUBSET Address, InitWallet(S) PROVE TypeOK'
      BY <2>1 DEF InitWallet, TypeOK, ThreeSigners
    <2>2. ASSUME NEW sender \in Address, NEW other \in Address, NEW e \in 0..MaxTime,
                 NEW s \in SequenceIds, NEW R, Transact(sender, other, e, s, R)
          PROVE  TypeOK'
      <3>1. PICK i \in Slots : recentSequenceIds' = [recentSequenceIds EXCEPT ![i] = s]
        BY <2>2, TransactWindow
      <3>2. recentSequenceIds' \in [Slots -> Nat]
        BY <3>1 DEF TypeOK, SequenceIds
      <3>3. log' \in Seq(Transaction)
        <4>1. log' = Append(log, Entry(s, R)) /\ Entry(s, R) \in Transaction
          BY <2>2, TransactLog, Zenon
        <4> QED BY <4>1 DEF TypeOK
      <3>4. UNCHANGED <<initialized, signers, safeMode, now>>
        BY <2>2 DEF Transact
      <3>5. IF initialized' THEN ThreeSigners(signers') ELSE signers' = {}
        BY <3>4, Zenon DEF TypeOK
      <3>6. initialized' \in BOOLEAN /\ safeMode' \in BOOLEAN /\ now' \in 0..MaxTime
        BY <3>4 DEF TypeOK
      <3> QED BY <3>2, <3>3, <3>5, <3>6, Zenon DEF TypeOK, ThreeSigners
    <2>3. ASSUME NEW sender \in Address, ActivateSafeMode(sender) PROVE TypeOK'
      BY <2>3 DEF ActivateSafeMode, TypeOK, ThreeSigners
    <2>4. CASE Tick
      BY <2>4, WindowAssumption DEF Tick, TypeOK, ThreeSigners
    <2>5. CASE UNCHANGED vars
      BY <2>5 DEF vars, TypeOK, ThreeSigners
    <2> QED BY <2>1, <2>2, <2>3, <2>4, <2>5, NextCases
  <1> QED BY <1>1, <1>2, PTL DEF Spec

-----------------------------------------------------------------------------
(* Safe mode *)

\* Safe mode is not left, and nobody but the signers is paid once it is on.
SafeInv ==
    /\ \A i \in DOMAIN log : log[i].safe => safeMode
    /\ SafeModeConfinesFunds

\* In safe mode the wallet pays only its signers, now and for ever.  The
\* invariant adds that a logged safe transaction means safe mode is still on.
THEOREM SafeModeSafety == Spec => []SafeModeConfinesFunds
  <1>1. Init => SafeInv
    BY DEF Init, SafeInv, SafeModeConfinesFunds
  <1>2. TypeOK /\ SafeInv /\ [Next]_vars => SafeInv'
    <2> SUFFICES ASSUME TypeOK, SafeInv, [Next]_vars PROVE SafeInv'
      OBVIOUS
    <2> USE DEF SafeInv, SafeModeConfinesFunds
    <2>1. ASSUME NEW S \in SUBSET Address, InitWallet(S) PROVE SafeInv'
      BY <2>1 DEF InitWallet
    <2>2. ASSUME NEW sender \in Address, NEW other \in Address, NEW e \in 0..MaxTime,
                 NEW s \in SequenceIds, NEW R, Transact(sender, other, e, s, R),
                 safeMode => R \subseteq signers
          PROVE  SafeInv'
      <3> DEFINE entry == Entry(s, R)
      <3>1. /\ log' = Append(log, entry)
            /\ entry \in Transaction
        BY <2>2, TransactLog, Zenon
      <3>2. /\ safeMode' = safeMode
            /\ entry.safe = safeMode
            /\ safeMode => ~entry.outside
        BY <2>2 DEF Transact, Entry
      <3>3. /\ log \in Seq(Transaction) /\ Len(log) \in Nat
            /\ DOMAIN log = 1..Len(log) /\ DOMAIN log' = 1..Len(log) + 1
            /\ \A i \in DOMAIN log : log'[i] = log[i]
            /\ log'[Len(log) + 1] = entry
        BY <3>1 DEF TypeOK
      <3> HIDE DEF entry
      <3>4. ASSUME NEW i \in DOMAIN log', log'[i].safe PROVE safeMode
        BY <3>2, <3>3, <3>4
      <3>5. ASSUME NEW i \in DOMAIN log', NEW j \in DOMAIN log', i <= j, log'[i].safe
            PROVE  ~log'[j].outside
        <4>1. CASE j = Len(log) + 1
          BY <3>2, <3>3, <3>4, <3>5, <4>1
        <4>2. CASE j # Len(log) + 1
          BY <3>3, <3>5, <4>2
        <4> QED BY <4>1, <4>2
      <3> QED BY <3>2, <3>4, <3>5
    <2>3. ASSUME NEW sender \in Address, ActivateSafeMode(sender) PROVE SafeInv'
      BY <2>3 DEF ActivateSafeMode
    <2>4. CASE Tick
      BY <2>4 DEF Tick
    <2>5. CASE UNCHANGED vars
      BY <2>5 DEF vars
    <2> QED BY <2>1, <2>2, <2>3, <2>4, <2>5, NextCases
  <1>3. SafeInv => SafeModeConfinesFunds
    BY DEF SafeInv
  <1> QED BY <1>1, <1>2, <1>3, TypeCorrect, PTL DEF Spec

-----------------------------------------------------------------------------
(* Replay protection *)

\* The window forgets ids, but only ones at most as high as all it keeps: an
\* id that was used is in the window or below all of it.
Remembered(window, q) ==
    \/ \E j \in Slots : window[j] = q
    \/ \A j \in Slots : q <= window[j]

ReplayInv ==
    \A k \in DOMAIN log : log[k].seq \in SequenceIds /\ Remembered(recentSequenceIds, log[k].seq)

\* An insertion forgets nothing: the id it evicts is the lowest, and what was
\* below the old lowest is below the new one.
LEMMA InsertRemembers ==
    ASSUME TypeOK, NEW q \in Nat, Remembered(recentSequenceIds, q), NEW i \in Slots, NEW s \in Nat,
           \A j \in Slots : recentSequenceIds[i] <= recentSequenceIds[j],
           s > recentSequenceIds[i],
           recentSequenceIds' = [recentSequenceIds EXCEPT ![i] = s]
    PROVE  Remembered(recentSequenceIds', q)
    <1>1. /\ \A j \in Slots : recentSequenceIds[j] \in Nat
          /\ recentSequenceIds'[i] = s
          /\ \A j \in Slots : j # i => recentSequenceIds'[j] = recentSequenceIds[j]
      BY DEF TypeOK
    <1>2. CASE \E j \in Slots : j # i /\ recentSequenceIds[j] = q
      BY <1>1, <1>2 DEF Remembered
    <1>3. CASE \A j \in Slots : q <= recentSequenceIds[j]
      BY <1>1, <1>3 DEF Remembered
    <1>4. CASE recentSequenceIds[i] = q
      BY <1>1, <1>4 DEF Remembered
    <1> QED BY <1>2, <1>3, <1>4 DEF Remembered

\* The wallet implements PayOnce: no sequence id is executed twice, although
\* only the last WindowSize of them are stored.
THEOREM ReplayProtection == Spec => NoReplay
  <1>1. Init => ReplayInv /\ Abstract!Init
    BY DEF Init, ReplayInv, Abstract!Init, UsedIds
  <1>2. TypeOK /\ ReplayInv /\ [Next]_vars => ReplayInv' /\ [Abstract!Next]_UsedIds
    <2> SUFFICES ASSUME TypeOK, ReplayInv, [Next]_vars
                 PROVE  ReplayInv' /\ [Abstract!Next]_UsedIds
      OBVIOUS
    <2>1. ASSUME NEW sender \in Address, NEW other \in Address, NEW e \in 0..MaxTime,
                 NEW s \in SequenceIds, NEW R, Transact(sender, other, e, s, R)
          PROVE  ReplayInv' /\ Abstract!Pay(s)
      <3> DEFINE entry == Entry(s, R)
      <3>1. /\ log' = Append(log, entry)
            /\ entry \in Transaction
        BY <2>1, TransactLog, Zenon
      <3>2. entry.seq = s
        BY DEF Entry
      <3>3. PICK i \in Slots :
              /\ \A j \in Slots : recentSequenceIds[i] <= recentSequenceIds[j]
              /\ \A j \in Slots : recentSequenceIds[j] # s
              /\ s > recentSequenceIds[i]
              /\ recentSequenceIds' = [recentSequenceIds EXCEPT ![i] = s]
        BY <2>1, TransactWindow
      <3> HIDE DEF entry
      <3>4. /\ log \in Seq(Transaction) /\ Len(log) \in Nat
            /\ DOMAIN log = 1..Len(log) /\ DOMAIN log' = 1..Len(log) + 1
            /\ \A k \in DOMAIN log : log'[k] = log[k]
            /\ log'[Len(log) + 1] = entry
        BY <3>1 DEF TypeOK
      <3>5. s \in Nat /\ \A j \in Slots : recentSequenceIds[j] \in Nat
        BY DEF TypeOK, SequenceIds
      <3>6. Remembered(recentSequenceIds', s)
        BY <3>3 DEF Remembered, TypeOK
      <3>7. ASSUME NEW q \in Nat, Remembered(recentSequenceIds, q) PROVE Remembered(recentSequenceIds', q)
        BY <3>3, <3>5, <3>7, InsertRemembers
      <3>8. ReplayInv'
        <4>1. ASSUME NEW k \in DOMAIN log 
              PROVE  log'[k].seq \in SequenceIds /\ Remembered(recentSequenceIds', log'[k].seq)
          BY <3>4, <3>7 DEF ReplayInv, SequenceIds
        <4>2. log'[Len(log) + 1].seq = s
          BY <3>2, <3>4
        <4> QED BY <3>4, <3>6, <4>1, <4>2 DEF ReplayInv
      <3>9. ~Abstract!AlreadyPaid(s)
        <4>1. SUFFICES ASSUME NEW k \in DOMAIN log, log[k].seq = s PROVE FALSE
          BY DEF Abstract!AlreadyPaid, UsedIds
        <4> QED BY <3>3, <3>5, <4>1 DEF ReplayInv, Remembered
      <3>10. UsedIds' = Append(UsedIds, s)
        BY <3>2, <3>4, <3>5 DEF UsedIds
      <3> QED BY <3>8, <3>9, <3>10 DEF Abstract!Pay
    <2>2. CASE UNCHANGED <<recentSequenceIds, log>>
      BY <2>2 DEF ReplayInv, Remembered, UsedIds
    <2>3. ASSUME NEW S \in SUBSET Address, InitWallet(S)
          PROVE  UNCHANGED <<recentSequenceIds, log>>
      BY <2>3 DEF InitWallet
    <2>4. ASSUME NEW sender \in Address, ActivateSafeMode(sender)
          PROVE  UNCHANGED <<recentSequenceIds, log>>
      BY <2>4 DEF ActivateSafeMode
    <2>5. Tick \/ UNCHANGED vars => UNCHANGED <<recentSequenceIds, log>>
      BY DEF Tick, vars
    <2> QED BY <2>1, <2>2, <2>3, <2>4, <2>5, NextCases DEF Abstract!Next
  <1> QED BY <1>1, <1>2, TypeCorrect, PTL DEF Spec, NoReplay, Abstract!Spec

-----------------------------------------------------------------------------
(* The wallet is never wedged *)

\* A non-empty set of naturals has a least element.
LEMMA LeastNatural ==
    ASSUME NEW S \in SUBSET Nat, S # {}
    PROVE  \E m \in S : \A n \in S : m <= n
    <1> DEFINE Below == OpToRel(<, Nat)
    <1>1. IsWellFoundedOn(Below, Nat)
      BY NatLessThanWellFounded
    <1>2. \A a, b \in Nat : a < b => <<a, b>> \in Below
      BY DEF OpToRel
    <1> HIDE DEF Below
    <1>3. PICK m \in S : \A n \in S : <<n, m>> \notin Below
      BY <1>1, WFMin
    <1>4. ASSUME NEW n \in S PROVE m <= n
      <2>1. ~(n < m)
        BY <1>2, <1>3
      <2> QED BY <2>1
    <1> QED BY <1>4

\* The scan of _tryInsertSequenceId always finds its slot.
LEMMA LowestExists ==
    ASSUME TypeOK
    PROVE  \E i \in Slots : IsLowest(i)
    <1> DEFINE Values == {recentSequenceIds[j] : j \in Slots}
    <1>1. Values \in SUBSET Nat /\ Values # {}
      BY WindowAssumption DEF TypeOK, Slots
    <1>2. PICK m \in Values : \A v \in Values : m <= v
      BY <1>1, LeastNatural
    <1> DEFINE Holders == {j \in Slots : recentSequenceIds[j] = m}
    <1>3. Holders \in SUBSET Nat /\ Holders # {}
      BY <1>2 DEF Slots
    <1>4. PICK i \in Holders : \A j \in Holders : i <= j
      BY <1>3, LeastNatural
    <1>5. ASSUME NEW j \in Slots, j < i PROVE recentSequenceIds[i] < recentSequenceIds[j]
      <2>1. j \notin Holders /\ j \in Nat
        BY <1>4, <1>5 DEF Slots
      <2> QED BY <1>1, <1>2, <2>1
    <1> QED BY <1>2, <1>5 DEF IsLowest

\* The ids above the lowest that may be inserted are at least as many as the
\* slots, and the slot of the lowest id holds none of them: one is free.
LEMMA RoomInWindow ==
    ASSUME TypeOK, NEW i \in Slots
    PROVE  \E s \in recentSequenceIds[i] + 1 .. recentSequenceIds[i] + MaxIncrease :
              \A j \in Slots : recentSequenceIds[j] # s
    <1> DEFINE lowest == recentSequenceIds[i]
               Candidates == lowest + 1 .. lowest + MaxIncrease
               Others == Slots \ {i}
    <1>1. SUFFICES ASSUME \A s \in Candidates : \E j \in Slots : recentSequenceIds[j] = s
                   PROVE  FALSE
      OBVIOUS
    <1>2. lowest \in Nat
      BY DEF TypeOK
    <1>3. \A s \in Candidates : \E j \in Others : recentSequenceIds[j] = s
      BY <1>1, <1>2, WindowAssumption
    <1> DEFINE holder == [s \in Candidates |-> CHOOSE j \in Others : recentSequenceIds[j] = s]
    <1>4. holder \in [Candidates -> Others]
      BY <1>3
    <1>5. IsFiniteSet(Candidates) /\ Cardinality(Candidates) = MaxIncrease
      BY <1>2, FS_Interval, WindowAssumption
    <1>6. IsFiniteSet(Slots) /\ Cardinality(Slots) = WindowSize
      BY FS_Interval, WindowAssumption DEF Slots
    <1>7. IsFiniteSet(Others) /\ Cardinality(Others) = WindowSize - 1
      BY <1>6, FS_RemoveElement
    <1> HIDE DEF Candidates, Others
    <1>8. \A s \in Candidates : recentSequenceIds[holder[s]] = s
      BY <1>3
    <1> HIDE DEF holder
    <1>9. Cardinality(Others) < Cardinality(Candidates)
      BY <1>5, <1>7, WindowAssumption
    <1>10. \E a, b \in Candidates : a # b /\ holder[a] = holder[b]
      BY <1>4, <1>5, <1>7, <1>9, FS_PigeonHole
    <1> QED BY <1>8, <1>10

\* Whatever ids were used, some id can still be inserted.  It rests on the
\* window being no larger than the increase the contract allows.
THEOREM NeverWedged == Spec => []SomeIdIsInsertable
  <1>1. TypeOK => SomeIdIsInsertable
    <2> SUFFICES ASSUME TypeOK PROVE SomeIdIsInsertable
      OBVIOUS
    <2>1. PICK i \in Slots : IsLowest(i)
      BY LowestExists
    <2>2. PICK s \in recentSequenceIds[i] + 1 .. recentSequenceIds[i] + MaxIncrease :
             \A j \in Slots : recentSequenceIds[j] # s
      BY RoomInWindow
    <2>3. Insertable(i, s)
      BY <2>2, WindowAssumption DEF Insertable, TypeOK
    <2> QED BY <2>1, <2>3 DEF SomeIdIsInsertable
  <1> QED BY <1>1, TypeCorrect, PTL
=============================================================================
