---------------------------- MODULE NonceProofs ----------------------------
(***************************************************************************)
(* Proofs about the deployment of projects, its nonces and the contracts   *)
(* it records, for every number of calls, of contracts and of failures.    *)
(***************************************************************************)
EXTENDS ProjectDeploy, WellFoundedInduction, TLAPS

\* what a call keeps
WithNonce == [pc : {"store", "send", "wait", "fail"}, done : Seq(Nat), nonce : 0 .. MaxNonce]
Form ==
    UNION {{NotCalled},
           [pc : {"mark", "lock", "read", "ready", "fail"}, done : Seq(Nat)],
           WithNonce,
           [pc : {"contracts", "fail"}, done : Seq(Nat), next : Nat]}

\* calls between reading and storing the counter
AtCounter(r) == run[r].pc \in {"read", "store"}
Used(r) == run[r].pc \in {"send", "wait"}

NonceOK ==
    /\ nonceLock \in Run \cup {Nobody}
    /\ nonceCache \in Nat \cup {NoNonce}
    /\ nextNonce \in 0 .. MaxNonce + 1
    /\ pool \subseteq 0 .. MaxNonce
    /\ unowned \in BOOLEAN
    /\ run \in [Run -> Form]

\* only the holder of the lock is between reading and storing
LockHeld == \A r \in Run : AtCounter(r) => nonceLock = r

\* a nonce that was handed out is below the counter, and below the one that is
\* being handed out
BelowCounter ==
    /\ \A q \in Run : Used(q) => run[q].nonce < Current
    /\ \A q, r \in Run : Used(q) /\ run[r].pc = "store" => run[q].nonce < run[r].nonce

NonceInv ==
    /\ NonceOK
    /\ ~unowned => LockHeld /\ BelowCounter
    /\ NonceNotShared

\* The mempool moves the account's nonce past what was sent without a hole,
\* never back.
LEMMA SentBounds ==
    ASSUME NEW nonces \in SUBSET (0 .. MaxNonce), nextNonce \in 0 .. MaxNonce + 1
    PROVE  Sent(nonces) \in nextNonce .. MaxNonce + 1
  <1> DEFINE T == {n \in nextNonce .. MaxNonce + 1 : n \notin nonces}
             L == OpToRel(<, Nat)
  <1>1. T \subseteq Nat /\ MaxNonce + 1 \in T
    BY NonceAssumption
  <1>2. PICK n \in T : \A m \in T : ~ (<<m, n>> \in L)
    BY <1>1, NatLessThanWellFounded, WFMin
  <1>3. \A m \in T : ~ (m < n)
    BY <1>1, <1>2 DEF OpToRel
  <1>4. n \in nextNonce .. MaxNonce + 2 /\ n \notin nonces
    BY NonceAssumption
  <1>5. nextNonce .. n - 1 \subseteq nonces
    BY <1>3, NonceAssumption
  <1>6. \E k \in nextNonce .. MaxNonce + 2 : nextNonce .. k - 1 \subseteq nonces /\ k \notin nonces
    BY <1>4, <1>5
  <1> DEFINE s == Sent(nonces)
  <1>7. s \in nextNonce .. MaxNonce + 2 /\ nextNonce .. s - 1 \subseteq nonces
    BY <1>6 DEF Sent
  <1>8. s # MaxNonce + 2
    <2> SUFFICES ASSUME s = MaxNonce + 2 PROVE FALSE
      OBVIOUS
    <2>1. MaxNonce + 1 \in nextNonce .. s - 1
      BY <1>7, NonceAssumption
    <2> QED BY <1>7, <2>1, NonceAssumption
  <1> QED BY <1>7, <1>8, NonceAssumption

\* Sending keeps the types of account and mempool.
LEMMA BroadcastBounds ==
    ASSUME NonceOK, NEW n \in 0 .. MaxNonce, Broadcast(n)
    PROVE  nextNonce' \in nextNonce .. MaxNonce + 1 /\ pool' \subseteq 0 .. MaxNonce
  <1>1. pool \cup {n} \subseteq 0 .. MaxNonce
    BY DEF NonceOK
  <1>2. Sent(pool \cup {n}) \in nextNonce .. MaxNonce + 1
    BY <1>1, SentBounds DEF NonceOK
  <1> QED BY <1>1, <1>2 DEF Broadcast

\* the calls with a nonce have its form
LEMMA NonceForm ==
    ASSUME NonceOK, NEW r \in Run
    PROVE  /\ run[r].pc \in {"store", "send", "wait"} => run[r] \in WithNonce
           /\ run[r] \in Form
  BY DEF NonceOK, Form, WithNonce, NotCalled

-----------------------------------------------------------------------------
(* Steps *)

\* A call that gives up its nonce, or has none, disturbs nothing.
LEMMA IdleKeepsInv ==
    ASSUME NonceInv, NEW r \in Run, NEW new \in Form,
           run' = [run EXCEPT ![r] = new],
           new.pc \notin {"read", "store", "send", "wait"},
           nonceLock' = nonceLock \/ (nonceLock' = Released(r) /\ ~AtCounter(r)),
           UNCHANGED <<nonceCache, nextNonce, pool, unowned>>
    PROVE  NonceInv'
  <1>1. run'[r] = new /\ \A q \in Run : q # r => run'[q] = run[q]
    BY DEF NonceInv, NonceOK
  <1>2. NonceOK'
    BY NonceAssumption DEF NonceInv, NonceOK, Released
  <1>3. \A q \in Run : /\ AtCounter(q)' => AtCounter(q) /\ q # r
                       /\ Used(q)' => Used(q) /\ q # r
    BY <1>1 DEF AtCounter, Used
  <1>4. ASSUME ~unowned
        PROVE  LockHeld'
    BY <1>3, <1>4 DEF NonceInv, LockHeld, Released
  <1>5. ASSUME ~unowned
        PROVE  BelowCounter'
    <2>1. Current' = Current
      BY DEF Current
    <2>2. \A q \in Run : run'[q].pc = "store" => q # r /\ run[q].pc = "store"
      BY <1>1
    <2> QED BY <1>1, <1>3, <1>5, <2>1, <2>2 DEF NonceInv, BelowCounter
  <1>6. NonceNotShared'
    BY <1>1 DEF NonceInv, NonceNotShared
  <1> QED BY <1>2, <1>4, <1>5, <1>6 DEF NonceInv

\* Every step of a call but those at the lock and the counter, and sending.
LEMMA QuietKeepsInv ==
    ASSUME NonceInv, NEW r \in Run,
           \/ Call(r)
           \/ MarkDeploying(r)
           \/ NotSent(r)
           \/ SendNothing(r)
           \/ Deployed(r)
           \/ NotDeployed(r)
           \/ RecordReady(r)
           \/ RecordContract(r)
           \/ Return(r)
           \/ FinishFails(r)
           \/ RecordFailed(r)
           \/ DeployCrashes(r)
    PROVE  NonceInv'
  <1> DEFINE new == run'[r]
  <1>1. run[r] \in Form
    BY NonceForm DEF NonceInv
  <1>2. ASSUME MarkDeploying(r) \/ NotSent(r) \/ SendNothing(r) \/ NotDeployed(r) \/ FinishFails(r)
        PROVE  NonceInv'
    <2>1. PICK pc \in {"lock", "fail"} :
            /\ run' = [run EXCEPT ![r].pc = pc]
            /\ pc = "lock" => run[r].pc = "mark"
      BY <1>2 DEF MarkDeploying, NotSent, SendNothing, NotDeployed, FinishFails, Goes, At
    <2>2. run[r].pc \in {"mark", "lock", "send", "wait", "contracts"}
      BY <1>2 DEF MarkDeploying, NotSent, SendNothing, NotDeployed, FinishFails, At
    <2> DEFINE moved == [run[r] EXCEPT !.pc = pc]
    <2>3. moved \in Form /\ moved.pc = pc
      BY <1>1, <2>1, <2>2 DEF Form, WithNonce, NotCalled
    <2>4. run' = [run EXCEPT ![r] = moved]
      BY <2>1
    <2>5. /\ nonceLock' = nonceLock \/ (nonceLock' = Released(r) /\ ~AtCounter(r))
          /\ UNCHANGED <<nonceCache, nextNonce, pool, unowned>>
      BY <1>2 DEF MarkDeploying, NotSent, SendNothing, NotDeployed, FinishFails, At, AtCounter,
                  nonceVars, deployHistory
    <2> HIDE DEF moved
    <2> QED BY <2>1, <2>3, <2>4, <2>5, IdleKeepsInv
  <1>3. ASSUME NEW m \in Form, run' = [run EXCEPT ![r] = m],
               m.pc \notin {"read", "store", "send", "wait"},
               UNCHANGED <<nonceVars, unowned>>
        PROVE  NonceInv'
    BY <1>3, IdleKeepsInv DEF nonceVars
  <1>4. CASE Call(r)
    <2>1. [pc |-> "mark", done |-> << >>] \in Form
      BY DEF Form
    <2> QED BY <1>3, <1>4, <2>1 DEF Call
  <1>5. CASE Return(r) \/ RecordFailed(r) \/ DeployCrashes(r)
    <2>1. NotCalled \in Form /\ NotCalled.pc = "idle"
      BY DEF Form, NotCalled
    <2> QED BY <1>3, <1>5, <2>1 DEF Return, RecordFailed, DeployCrashes, deployHistory
  <1>6. CASE Deployed(r)
    <2> DEFINE done == Append(run[r].done, run[r].nonce + 1)
               m == [pc |-> IF Len(done) = Steps THEN "ready" ELSE "lock", done |-> done]
    <2>1. run[r] \in WithNonce
      BY <1>6, NonceForm DEF Deployed, At, NonceInv
    <2>2. done \in Seq(Nat)
      BY <2>1 DEF WithNonce
    <2> HIDE DEF done
    <2>3. m \in Form /\ m.pc \in {"ready", "lock"}
      BY <2>2 DEF Form
    <2>4. run' = [run EXCEPT ![r] = m]
      BY <1>6 DEF Deployed, done
    <2> QED BY <1>3, <1>6, <2>3, <2>4 DEF Deployed, deployHistory
  <1>7. CASE RecordReady(r)
    <2> DEFINE m == [pc |-> "contracts", done |-> run[r].done, next |-> 1]
    <2>1. m \in Form
      BY <1>1, <1>7 DEF RecordReady, At, Form, WithNonce, NotCalled
    <2> QED BY <1>3, <1>7, <2>1 DEF RecordReady, deployHistory
  <1>8. CASE RecordContract(r)
    <2> DEFINE m == [run[r] EXCEPT !.next = @ + 1]
    <2>1. run[r] \in [pc : {"contracts"}, done : Seq(Nat), next : Nat]
      BY <1>1, <1>8 DEF RecordContract, At, Form, WithNonce, NotCalled
    <2>2. m \in Form /\ m.pc = "contracts"
      BY <2>1 DEF Form
    <2>3. run' = [run EXCEPT ![r] = m]
      BY <1>8 DEF RecordContract
    <2> QED BY <1>3, <1>8, <2>2, <2>3 DEF RecordContract, deployHistory
  <1> QED BY <1>2, <1>4, <1>5, <1>6, <1>7, <1>8

\* Whoever takes the lock finds nobody at the counter.
LEMMA AcquireKeepsInv ==
    ASSUME NonceInv, NEW r \in Run, AcquireLock(r)
    PROVE  NonceInv'
  <1> DEFINE m == [run[r] EXCEPT !.pc = "read"]
  <1>1. /\ run[r].pc = "lock" /\ nonceLock = Nobody /\ nonceLock' = r
        /\ run' = [run EXCEPT ![r] = m]
        /\ UNCHANGED <<nonceCache, nextNonce, pool, unowned>>
    BY DEF AcquireLock, TakeLock, At, Goes, deployHistory
  <1>2. m \in Form /\ m.pc = "read"
    BY <1>1, NonceForm DEF NonceInv, Form, WithNonce, NotCalled
  <1> HIDE DEF m
  <1>3. run'[r] = m /\ \A q \in Run : q # r => run'[q] = run[q]
    BY <1>1 DEF NonceInv, NonceOK
  <1>4. NonceOK'
    BY <1>1, <1>2 DEF NonceInv, NonceOK
  <1>5. ASSUME ~unowned
        PROVE  LockHeld' /\ BelowCounter'
    <2>1. \A q \in Run : ~AtCounter(q)
      BY <1>1, <1>5, NonceAssumption DEF NonceInv, LockHeld
    <2>2. LockHeld'
      BY <1>1, <1>3, <2>1 DEF LockHeld, AtCounter
    <2>3. BelowCounter'
      BY <1>1, <1>2, <1>3, <1>5 DEF NonceInv, BelowCounter, Used, Current
    <2> QED BY <2>2, <2>3
  <1>6. NonceNotShared'
    BY <1>1, <1>2, <1>3 DEF NonceInv, NonceNotShared
  <1> QED BY <1>1, <1>4, <1>5, <1>6 DEF NonceInv

\* The counter that is read is above every nonce in use.
LEMMA ReadKeepsInv ==
    ASSUME NonceInv, NEW r \in Run, AcquireRead(r)
    PROVE  NonceInv'
  <1> DEFINE m == [pc |-> "store", done |-> run[r].done, nonce |-> Current]
  <1>1. /\ run[r].pc = "read" /\ Current <= MaxNonce
        /\ run' = [run EXCEPT ![r] = m]
        /\ UNCHANGED <<nonceLock, nonceCache, nextNonce, pool, unowned>>
    BY DEF AcquireRead, At, deployHistory, nonceVars
  <1>2. Current \in 0 .. MaxNonce
    BY <1>1, NonceAssumption DEF NonceInv, NonceOK, Current
  <1>3. m \in Form /\ m.pc = "store" /\ m.nonce = Current
    BY <1>1, <1>2, NonceForm DEF NonceInv, Form, WithNonce, NotCalled
  <1> HIDE DEF m
  <1>4. run'[r] = m /\ \A q \in Run : q # r => run'[q] = run[q]
    BY <1>1 DEF NonceInv, NonceOK
  <1>5. NonceOK'
    BY <1>1, <1>3 DEF NonceInv, NonceOK
  <1>6. ASSUME ~unowned
        PROVE  LockHeld' /\ BelowCounter'
    <2>1. LockHeld'
      BY <1>1, <1>4, <1>6 DEF NonceInv, LockHeld, AtCounter
    <2>2. Current' = Current
      BY <1>1 DEF Current
    <2>3. \A q \in Run : Used(q)' => q # r /\ Used(q)
      BY <1>3, <1>4 DEF Used
    <2>4. BelowCounter'
      BY <1>3, <1>4, <1>6, <2>2, <2>3 DEF NonceInv, BelowCounter
    <2> QED BY <2>1, <2>4
  <1>7. NonceNotShared'
    BY <1>1, <1>3, <1>4 DEF NonceInv, NonceNotShared
  <1> QED BY <1>1, <1>5, <1>6, <1>7 DEF NonceInv

\* The counter is moved past the nonce, which is above those in use.
LEMMA CounterKeepsInv ==
    ASSUME NonceInv, NEW r \in Run, AcquireStore(r)
    PROVE  NonceInv'
  <1> DEFINE m == [run[r] EXCEPT !.pc = "send"]
  <1>1. /\ run[r].pc = "store"
        /\ nonceCache' = run[r].nonce + 1
        /\ run' = [run EXCEPT ![r] = m]
        /\ UNCHANGED <<nonceLock, nextNonce, pool, unowned>>
    BY DEF AcquireStore, StoreNonce, At, Goes, deployHistory
  <1>2. run[r] \in WithNonce
    BY <1>1, NonceForm DEF NonceInv
  <1>3. m \in Form /\ m.pc = "send" /\ m.nonce = run[r].nonce
    BY <1>2 DEF Form, WithNonce
  <1>4. run[r].nonce \in 0 .. MaxNonce
    BY <1>2 DEF WithNonce
  <1> HIDE DEF m
  <1>5. run'[r] = m /\ \A q \in Run : q # r => run'[q] = run[q]
    BY <1>1 DEF NonceInv, NonceOK
  <1>6. NonceOK'
    BY <1>1, <1>3, <1>4, NonceAssumption DEF NonceInv, NonceOK
  <1>7. ASSUME ~unowned
        PROVE  /\ \A q \in Run : Used(q) => run[q].nonce < run[r].nonce
               /\ \A q \in Run : run[q].pc = "store" => q = r
    BY <1>1, <1>7 DEF NonceInv, BelowCounter, LockHeld, AtCounter
  <1>8. \A q \in Run : Used(q) => run[q].nonce \in Nat
    BY NonceForm, NonceAssumption DEF NonceInv, WithNonce, Used
  <1>9. ASSUME ~unowned
        PROVE  LockHeld' /\ BelowCounter' /\ NonceNotShared'
    <2>1. LockHeld'
      BY <1>1, <1>3, <1>5, <1>9 DEF NonceInv, LockHeld, AtCounter
    <2>2. Current' = run[r].nonce + 1
      BY <1>1, <1>4, NonceAssumption DEF Current
    <2>3. \A q \in Run : Used(q)' => q = r \/ Used(q)
      BY <1>5 DEF Used
    <2>4. \A q \in Run : Used(q)' => run'[q].nonce < run[r].nonce + 1
      BY <1>3, <1>4, <1>5, <1>7, <1>8, <1>9, <2>3
    <2>5. \A q \in Run : run'[q].pc # "store"
      BY <1>3, <1>5, <1>7, <1>9
    <2>6. BelowCounter'
      BY <2>2, <2>4, <2>5 DEF BelowCounter
    <2>7. NonceNotShared'
      BY <1>3, <1>4, <1>5, <1>7, <1>8, <1>9 DEF NonceInv, NonceNotShared, Used
    <2> QED BY <2>1, <2>6, <2>7
  <1>10. unowned => NonceNotShared'
    BY <1>1 DEF NonceNotShared
  <1> QED BY <1>1, <1>6, <1>9, <1>10 DEF NonceInv

\* Sending moves the account on, and never back.
LEMMA SendKeepsInv ==
    ASSUME NonceInv, NEW r \in Run, Send(r)
    PROVE  NonceInv'
  <1>1. PICK pc \in {"wait", "fail"} : run' = [run EXCEPT ![r].pc = pc]
    BY DEF Send, Goes
  <1> DEFINE m == [run[r] EXCEPT !.pc = pc]
  <1>2. /\ run[r].pc = "send"
        /\ run' = [run EXCEPT ![r] = m]
        /\ nonceLock' = Released(r)
        /\ UNCHANGED <<nonceCache, unowned>>
    BY <1>1 DEF Send, At, deployHistory
  <1>3. run[r] \in WithNonce
    BY <1>2, NonceForm DEF NonceInv
  <1>4. m \in Form /\ m.pc = pc /\ m.nonce = run[r].nonce
    BY <1>3 DEF Form, WithNonce
  <1> HIDE DEF m
  <1>5. nextNonce' \in nextNonce .. MaxNonce + 1 /\ pool' \subseteq 0 .. MaxNonce
    <2>1. run[r].nonce \in 0 .. MaxNonce
      BY <1>3 DEF WithNonce
    <2>2. CASE Takes(run[r].nonce)
      <3>1. Broadcast(run[r].nonce)
        BY <2>2 DEF Send
      <3> QED BY <2>1, <3>1, BroadcastBounds DEF NonceInv
    <2>3. CASE ~Takes(run[r].nonce)
      <3>1. UNCHANGED <<nextNonce, pool>>
        BY <2>3 DEF Send
      <3> QED BY <3>1, NonceAssumption DEF NonceInv, NonceOK
    <2> QED BY <2>2, <2>3
  <1>6. run'[r] = m /\ \A q \in Run : q # r => run'[q] = run[q]
    BY <1>2 DEF NonceInv, NonceOK
  <1>7. NonceOK'
    BY <1>2, <1>4, <1>5, NonceAssumption DEF NonceInv, NonceOK, Released
  <1>8. \A q \in Run : /\ Used(q)' => Used(q) /\ run'[q].nonce = run[q].nonce
                       /\ run'[q].pc \in {"read", "store"} => q # r /\ run'[q] = run[q]
    BY <1>1, <1>2, <1>4, <1>6 DEF Used
  <1>9. ASSUME ~unowned
        PROVE  LockHeld' /\ BelowCounter'
    <2>1. LockHeld'
      BY <1>2, <1>8, <1>9 DEF NonceInv, LockHeld, AtCounter, Released
    <2>2. Current' >= Current /\ Current' \in Nat /\ Current \in Nat
      BY <1>2, <1>5, NonceAssumption DEF NonceInv, NonceOK, Current
    <2>3. \A q \in Run : Used(q) => run[q].nonce \in Nat
      BY NonceForm, NonceAssumption DEF NonceInv, WithNonce, Used
    <2>4. BelowCounter'
      BY <1>8, <1>9, <2>2, <2>3 DEF NonceInv, BelowCounter
    <2> QED BY <2>1, <2>4
  <1>10. NonceNotShared'
    BY <1>2, <1>8 DEF NonceInv, NonceNotShared, Used
  <1> QED BY <1>2, <1>7, <1>9, <1>10 DEF NonceInv

\* What happens around the calls: a lock that ends and a counter that is reset
\* are harmless but for the cases that are excused.
LEMMA SurroundingsKeepInv ==
    ASSUME NonceInv, Surroundings
    PROVE  NonceInv'
  <1>1. UNCHANGED run
    BY DEF Surroundings
  <1>2. \A q \in Run : (AtCounter(q)' <=> AtCounter(q)) /\ (Used(q)' <=> Used(q))
    BY <1>1 DEF AtCounter, Used
  <1>3. \A q \in Run : run[q].pc \in {"store", "send", "wait"} => run[q].nonce \in Nat
    BY NonceForm, NonceAssumption DEF NonceInv, WithNonce
  <1>4. CASE LockEnds /\ unowned' = (unowned \/ \E r \in Run : nonceLock = r /\ ~At(r, "send"))
    <2>1. nonceLock' = Nobody /\ UNCHANGED <<nonceCache, nextNonce, pool>>
      BY <1>4 DEF LockEnds
    <2>2. NonceOK'
      BY <1>1, <1>4, <2>1 DEF NonceInv, NonceOK
    <2>3. ASSUME ~unowned'
          PROVE  ~unowned /\ \A q \in Run : ~AtCounter(q)
      BY <1>4, <2>3 DEF NonceInv, LockHeld, AtCounter, At
    <2>4. ASSUME ~unowned'
          PROVE  LockHeld' /\ BelowCounter'
      BY <1>1, <1>2, <2>1, <2>3, <2>4 DEF NonceInv, LockHeld, BelowCounter, Current
    <2>5. NonceNotShared'
      BY <1>1, <1>4 DEF NonceInv, NonceNotShared
    <2> QED BY <2>2, <2>4, <2>5 DEF NonceInv
  <1>5. CASE OutsideTransaction /\ UNCHANGED unowned
    <2>1. nextNonce' \in nextNonce .. MaxNonce + 1 /\ pool' \subseteq 0 .. MaxNonce
      <3>1. nextNonce \in 0 .. MaxNonce
        BY <1>5, NonceAssumption DEF OutsideTransaction, NonceInv, NonceOK
      <3> QED BY <1>5, <3>1, BroadcastBounds DEF OutsideTransaction, NonceInv
    <2>2. UNCHANGED <<nonceLock, nonceCache, unowned>>
      BY <1>5 DEF OutsideTransaction
    <2>3. NonceOK'
      BY <1>1, <2>1, <2>2, NonceAssumption DEF NonceInv, NonceOK
    <2>4. Current' >= Current /\ Current' \in Nat /\ Current \in Nat
      BY <2>1, <2>2, NonceAssumption DEF NonceInv, NonceOK, Current
    <2>5. ASSUME ~unowned
          PROVE  LockHeld' /\ BelowCounter'
      <3>1. \A q \in Run : Used(q) => run[q].nonce \in Nat
        BY <1>3 DEF Used
      <3> QED BY <1>1, <1>2, <2>2, <2>4, <2>5, <3>1 DEF NonceInv, LockHeld, BelowCounter
    <2>6. NonceNotShared'
      BY <1>1, <2>2 DEF NonceInv, NonceNotShared
    <2> QED BY <2>2, <2>3, <2>5, <2>6 DEF NonceInv
  <1>6. CASE CacheReset /\ unowned' = (unowned \/ \E r \in Run : Unmined(r))
    <2>1. nonceCache' = NoNonce /\ UNCHANGED <<nonceLock, nextNonce, pool>>
      BY <1>6 DEF CacheReset
    <2>2. NonceOK'
      BY <1>1, <1>6, <2>1 DEF NonceInv, NonceOK
    <2>3. ASSUME ~unowned'
          PROVE  LockHeld' /\ BelowCounter'
      <3>1. ~unowned /\ \A q \in Run : ~Unmined(q)
        BY <1>6, <2>3
      <3>2. Current' = nextNonce /\ nextNonce \in Nat
        BY <2>1, NonceAssumption DEF Current, NonceInv, NonceOK
      <3>3. \A q \in Run : Used(q) => run[q].nonce < nextNonce
        BY <1>3, <3>1, <3>2 DEF Unmined, Used
      <3> QED BY <1>1, <1>2, <2>1, <3>1, <3>2, <3>3 DEF NonceInv, LockHeld, BelowCounter
    <2>4. NonceNotShared'
      BY <1>1, <1>6 DEF NonceInv, NonceNotShared
    <2> QED BY <2>2, <2>3, <2>4 DEF NonceInv
  <1> QED BY <1>4, <1>5, <1>6 DEF Surroundings

-----------------------------------------------------------------------------
\* No nonce was handed out at first.
LEMMA NonceStart == DeployInit => NonceInv
  <1> SUFFICES ASSUME DeployInit PROVE NonceInv
    OBVIOUS
  <1>1. \A r \in Run : run[r] = NotCalled /\ run[r].pc = "idle"
    BY DEF DeployInit, NotCalled
  <1>2. NonceOK
    <2>1. NotCalled \in Form
      BY DEF Form
    <2>2. run \in [Run -> Form]
      BY <2>1 DEF DeployInit
    <2>3. /\ nonceLock = Nobody /\ nonceCache = NoNonce
          /\ nextNonce = 0 /\ pool = {} /\ unowned = FALSE
      BY DEF DeployInit, NonceInit
    <2>4. nextNonce \in 0 .. MaxNonce + 1 /\ pool \subseteq 0 .. MaxNonce
      BY <2>3, NonceAssumption
    <2> QED BY <2>2, <2>3, <2>4 DEF NonceOK
  <1> QED BY <1>1, <1>2
          DEF NonceInv, LockHeld, AtCounter, BelowCounter, Used, NonceNotShared

\* Every step of a deployment, and around it, keeps the nonces apart.
LEMMA NonceStep ==
    ASSUME NonceInv, [DeployNext]_deployVars
    PROVE  NonceInv'
  <1>1. CASE DeployNext
    BY <1>1, QuietKeepsInv, AcquireKeepsInv, ReadKeepsInv, CounterKeepsInv, SendKeepsInv,
       SurroundingsKeepInv DEF DeployNext
  <1>2. CASE UNCHANGED deployVars
    BY <1>2 DEF deployVars, nonceVars, NonceInv, NonceOK, LockHeld, AtCounter, BelowCounter,
                Used, Current, NonceNotShared
  <1> QED BY <1>1, <1>2

\* acquireNonce of nonce.service.ts: two calls never send with one nonce, unless a
\* lock ended between reading and writing the counter, or the counter was reset
\* below a nonce handed out.
THEOREM NoncesAreDistinct == DeploySpec => []NonceNotShared
  <1>1. NonceInv => NonceNotShared
    BY DEF NonceInv
  <1> QED BY <1>1, NonceStart, NonceStep, PTL DEF DeploySpec

-----------------------------------------------------------------------------
(* What the calls record *)

\* the fields but those of the nonces
RowsOK ==
    /\ nonceCache = NoNonce \/ nonceCache \in 0 .. MaxNonce + 1
    /\ chainRow \in [status : {"pending", "deploying", "ready", "failed"}, addresses : Seq(Nat)]
    /\ contractRows \in [1 .. Steps - 1 -> Nat]
    /\ overlapped \in BOOLEAN /\ unfinished \in BOOLEAN

\* a call that has deployed everything has an address of each contract
AllDeployed ==
    /\ \A r \in Run : run[r].pc \in {"ready", "contracts"} => Len(run[r].done) = Steps
    /\ \A r \in Run : run[r].pc = "contracts" => run[r].next \in 1 .. Steps
    /\ chainRow.status = "ready" => Len(chainRow.addresses) = Steps

OneCall == ~overlapped => \A q, r \in Run : ~At(q, "idle") /\ ~At(r, "idle") => q = r

\* what a single call records is what it has deployed
RecordsItsOwn ==
    ~overlapped => \A r \in Run : At(r, "contracts") =>
        /\ chainRow.status = "ready" /\ chainRow.addresses = run[r].done
        /\ \A k \in 1 .. Steps - 1 : k < run[r].next => contractRows[k] = run[r].done[k]

\* a single call that finds the project ready made it so
NotReadyBefore ==
    ~overlapped /\ chainRow.status = "ready" => \A r \in Run :
        At(r, "idle") \/ At(r, "contracts") \/ (At(r, "fail") /\ unfinished)

DeployInv ==
    /\ NonceInv
    /\ RowsOK /\ AllDeployed
    /\ OneCall /\ RecordsItsOwn /\ NotReadyBefore /\ ContractsAgree

\* the forms of a call at its steps
LEMMA CallForm ==
    ASSUME NonceOK, NEW r \in Run
    PROVE  /\ run[r].pc # "idle" => run[r].done \in Seq(Nat)
           /\ run[r].pc = "contracts" =>
                run[r] \in [pc : {"contracts", "fail"}, done : Seq(Nat), next : Nat]
  BY DEF NonceOK, Form, WithNonce, NotCalled

\* A call on its way to deploy everything has found no project that is ready.
LEMMA OnItsWay ==
    ASSUME DeployInv, RowsOK', NEW r \in Run, NEW e, run' = [run EXCEPT ![r] = e],
           run[r].pc \notin {"idle", "contracts", "fail"}, e.pc \notin {"idle", "contracts"},
           e.pc = "ready" => Len(e.done) = Steps, NonceInv',
           UNCHANGED <<chainRow, contractRows, overlapped, unfinished>>
    PROVE  DeployInv'
  <1>1. run'[r] = e /\ \A q \in Run : q # r => run'[q] = run[q]
    BY DEF DeployInv, NonceInv, NonceOK
  <1>2. AllDeployed'
    BY <1>1 DEF DeployInv, AllDeployed
  <1>3. OneCall'
    BY <1>1 DEF DeployInv, OneCall, At
  <1>4. RecordsItsOwn'
    BY <1>1 DEF DeployInv, RecordsItsOwn, At
  <1>5. overlapped \/ chainRow.status # "ready"
    BY DEF DeployInv, NotReadyBefore, At
  <1>6. NotReadyBefore' /\ ContractsAgree'
    BY <1>5 DEF NotReadyBefore, ContractsAgree
  <1> QED BY <1>2, <1>3, <1>4, <1>6 DEF DeployInv

\* The steps from the lock to the last contract change the nonces alone.
LEMMA DeployingKeepsInv ==
    ASSUME DeployInv, NonceInv', NEW r \in Run,
           \/ AcquireLock(r)
           \/ NotSent(r)
           \/ AcquireRead(r)
           \/ AcquireStore(r)
           \/ Send(r)
           \/ SendNothing(r)
           \/ Deployed(r)
           \/ NotDeployed(r)
    PROVE  DeployInv'
  <1>1. UNCHANGED <<chainRow, contractRows, overlapped, unfinished>>
    BY DEF AcquireLock, NotSent, AcquireRead, AcquireStore, Send, SendNothing, Deployed,
           NotDeployed, deployHistory
  <1>2. RowsOK'
    <2>1. CASE AcquireStore(r)
      <3>1. run[r] \in WithNonce /\ nonceCache' = run[r].nonce + 1
        BY <2>1, NonceForm DEF AcquireStore, StoreNonce, At, DeployInv, NonceInv
      <3>2. nonceCache' \in 0 .. MaxNonce + 1
        BY <3>1, NonceAssumption DEF WithNonce
      <3> QED BY <1>1, <3>2 DEF DeployInv, RowsOK
    <2>2. CASE UNCHANGED nonceCache
      BY <1>1, <2>2 DEF DeployInv, RowsOK
    <2>3. AcquireStore(r) \/ UNCHANGED nonceCache
      BY DEF AcquireLock, TakeLock, NotSent, AcquireRead, Send, SendNothing, Deployed,
             NotDeployed, nonceVars
    <2> QED BY <2>1, <2>2, <2>3
  <1>3. CASE Deployed(r)
    <2> DEFINE done == Append(run[r].done, run[r].nonce + 1)
               e == [pc |-> IF Len(done) = Steps THEN "ready" ELSE "lock", done |-> done]
    <2>1. run[r].pc = "wait" /\ run' = [run EXCEPT ![r] = e]
      BY <1>3 DEF Deployed, At
    <2> HIDE DEF done
    <2>2. e.pc \notin {"idle", "contracts"} /\ (e.pc = "ready" => Len(e.done) = Steps)
      OBVIOUS
    <2> HIDE DEF e
    <2> QED BY <1>1, <1>2, <2>1, <2>2, OnItsWay
  <1>4. CASE AcquireRead(r)
    <2> DEFINE e == [pc |-> "store", done |-> run[r].done, nonce |-> Current]
    <2>1. run[r].pc = "read" /\ run' = [run EXCEPT ![r] = e] /\ e.pc = "store"
      BY <1>4 DEF AcquireRead, At
    <2> HIDE DEF e
    <2> QED BY <1>1, <1>2, <2>1, OnItsWay
  <1>5. ASSUME ~Deployed(r), ~AcquireRead(r)
        PROVE  DeployInv'
    <2>1. PICK pc \in {"read", "send", "wait", "fail"} : run' = [run EXCEPT ![r].pc = pc]
      BY <1>5 DEF AcquireLock, NotSent, AcquireStore, Send, SendNothing, NotDeployed, Goes
    <2>2. run[r].pc \in {"lock", "store", "send", "wait"}
      BY <1>5 DEF AcquireLock, NotSent, AcquireStore, Send, SendNothing, NotDeployed, At
    <2> DEFINE e == [run[r] EXCEPT !.pc = pc]
    <2>3. e.pc = pc
      BY <2>2, NonceForm DEF DeployInv, NonceInv, Form, WithNonce, NotCalled
    <2>4. run' = [run EXCEPT ![r] = e]
      BY <2>1
    <2> HIDE DEF e
    <2> QED BY <1>1, <1>2, <2>1, <2>2, <2>3, <2>4, OnItsWay
  <1> QED BY <1>3, <1>4, <1>5

\* A call that ends, begins, or takes the project out of ready.
LEMMA CallEndsKeepInv ==
    ASSUME DeployInv, NonceInv', NEW r \in Run,
           \/ Call(r)
           \/ MarkDeploying(r)
           \/ RecordFailed(r)
           \/ DeployCrashes(r)
    PROVE  DeployInv'
  <1>1. PICK e : run' = [run EXCEPT ![r] = e] /\ e.pc \in {"idle", "mark", "lock"}
    <2>1. CASE MarkDeploying(r)
      <3> DEFINE e == [run[r] EXCEPT !.pc = "lock"]
      <3>1. run' = [run EXCEPT ![r] = e]
        BY <2>1 DEF MarkDeploying, Goes
      <3>2. e.pc = "lock"
        BY <2>1, NonceForm DEF MarkDeploying, At, DeployInv, NonceInv, Form, WithNonce, NotCalled
      <3> QED BY <3>1, <3>2
    <2>2. CASE Call(r)
      <3> DEFINE e == [pc |-> "mark", done |-> << >>]
      <3>1. run' = [run EXCEPT ![r] = e] /\ e.pc = "mark"
        BY <2>2 DEF Call
      <3> QED BY <3>1
    <2>3. CASE RecordFailed(r) \/ DeployCrashes(r)
      <3>1. run' = [run EXCEPT ![r] = NotCalled] /\ NotCalled.pc = "idle"
        BY <2>3 DEF RecordFailed, DeployCrashes, NotCalled
      <3> QED BY <3>1
    <2> QED BY <2>1, <2>2, <2>3
  <1>2. run'[r] = e /\ \A q \in Run : q # r => run'[q] = run[q]
    BY <1>1 DEF DeployInv, NonceInv, NonceOK
  <1>3. RowsOK'
    BY DEF Call, MarkDeploying, RecordFailed, DeployCrashes, nonceVars, deployHistory, DeployInv, RowsOK
  <1>4. chainRow' = chainRow \/ chainRow'.status # "ready"
    BY DEF Call, MarkDeploying, RecordFailed, DeployCrashes, DeployInv, RowsOK
  <1>5. AllDeployed'
    BY <1>1, <1>2, <1>4 DEF DeployInv, AllDeployed
  <1>6. /\ overlapped => overlapped'
        /\ contractRows' = contractRows
        /\ unfinished => unfinished'
    <2>1. overlapped \in BOOLEAN /\ unfinished \in BOOLEAN
      BY DEF DeployInv, RowsOK
    <2>2. /\ overlapped' = overlapped \/ overlapped' = (overlapped \/ \E q \in Run : ~At(q, "idle"))
          /\ contractRows' = contractRows
          /\ unfinished' = unfinished \/ unfinished' = (unfinished \/ At(r, "contracts"))
      BY DEF Call, MarkDeploying, RecordFailed, DeployCrashes, deployHistory
    <2> QED BY <2>1, <2>2
  <1>7. ASSUME ~overlapped'
        PROVE  \A q \in Run : q # r => At(q, "idle")
    <2>1. CASE Call(r)
      BY <1>7, <2>1 DEF Call
    <2>2. CASE ~Call(r)
      BY <1>6, <1>7, <2>2 DEF MarkDeploying, RecordFailed, DeployCrashes, At, DeployInv, OneCall
    <2> QED BY <2>1, <2>2
  <1>8. OneCall'
    BY <1>2, <1>7 DEF OneCall, At
  <1>9. RecordsItsOwn'
    BY <1>1, <1>2, <1>7 DEF RecordsItsOwn, At
  <1>10. ASSUME ~overlapped', chainRow'.status = "ready"
         PROVE  DeployCrashes(r) /\ chainRow' = chainRow /\ unfinished'
    <2>1. ~Call(r)
      BY <1>10 DEF Call
    <2>2. ~MarkDeploying(r) /\ ~RecordFailed(r)
      BY <1>10 DEF MarkDeploying, RecordFailed, DeployInv, RowsOK
    <2>3. DeployCrashes(r)
      BY <2>1, <2>2
    <2> QED BY <1>6, <1>10, <2>3 DEF DeployCrashes, DeployInv, NotReadyBefore, At
  <1>11. NotReadyBefore'
    <2>1. DeployCrashes(r) => run'[r] = NotCalled
      BY DEF DeployCrashes, DeployInv, NonceInv, NonceOK
    <2> QED BY <1>2, <1>7, <1>10, <2>1 DEF NotReadyBefore, At, NotCalled
  <1>12. ContractsAgree'
    BY <1>10 DEF ContractsAgree
  <1> QED BY <1>3, <1>5, <1>8, <1>9, <1>11, <1>12 DEF DeployInv

\* A call that has deployed everything records it, contract by contract.
LEMMA RecordingKeepsInv ==
    ASSUME DeployInv, NonceInv', NEW r \in Run,
           \/ RecordReady(r)
           \/ RecordContract(r)
           \/ Return(r)
           \/ FinishFails(r)
    PROVE  DeployInv'
  <1>1. /\ run[r].done \in Seq(Nat) /\ Len(run[r].done) = Steps
        /\ At(r, "ready") \/ At(r, "contracts")
    BY CallForm DEF DeployInv, NonceInv, AllDeployed, RecordReady, RecordContract, Return,
                    FinishFails, At
  <1>2. overlapped' = overlapped /\ nonceCache' = nonceCache
    BY DEF RecordReady, RecordContract, Return, FinishFails, deployHistory, nonceVars
  <1>3. ASSUME ~overlapped
        PROVE  \A q \in Run : q # r => At(q, "idle")
    BY <1>1, <1>3 DEF DeployInv, OneCall, At
  <1>4. CASE RecordReady(r)
    <2> DEFINE e == [pc |-> "contracts", done |-> run[r].done, next |-> 1]
    <2>1. /\ run' = [run EXCEPT ![r] = e]
          /\ chainRow' = [status |-> "ready", addresses |-> run[r].done]
          /\ UNCHANGED <<contractRows, unfinished>>
      BY <1>4 DEF RecordReady, deployHistory
    <2>2. run'[r] = e /\ \A q \in Run : q # r => run'[q] = run[q]
      BY <2>1 DEF DeployInv, NonceInv, NonceOK
    <2>3. RowsOK'
      BY <1>1, <1>2, <2>1 DEF DeployInv, RowsOK
    <2>4. AllDeployed'
      BY <1>1, <2>1, <2>2, DeployAssumption DEF DeployInv, AllDeployed
    <2>5. OneCall'
      BY <1>2, <1>3, <2>2 DEF OneCall, At
    <2>6. RecordsItsOwn'
      BY <1>2, <1>3, <2>1, <2>2 DEF RecordsItsOwn, At
    <2>7. NotReadyBefore' /\ ContractsAgree'
      BY <1>2, <1>3, <2>2 DEF NotReadyBefore, ContractsAgree, At
    <2> QED BY <2>3, <2>4, <2>5, <2>6, <2>7 DEF DeployInv
  <1>5. CASE RecordContract(r)
    <2> DEFINE k == run[r].next
               e == [run[r] EXCEPT !.next = @ + 1]
    <2>1. /\ At(r, "contracts") /\ k \in 1 .. Steps - 1
          /\ run' = [run EXCEPT ![r] = e]
          /\ contractRows' = [contractRows EXCEPT ![k] = run[r].done[k]]
          /\ UNCHANGED <<chainRow, unfinished>>
      BY <1>5, DeployAssumption DEF RecordContract, deployHistory, At, DeployInv, AllDeployed
    <2>2. e.pc = "contracts" /\ e.done = run[r].done /\ e.next = k + 1
      BY <2>1, CallForm DEF At, DeployInv, NonceInv
    <2> HIDE DEF e
    <2>3. run'[r] = e /\ \A q \in Run : q # r => run'[q] = run[q]
      BY <2>1 DEF DeployInv, NonceInv, NonceOK
    <2>4. run[r].done[k] \in Nat
      BY <1>1, <2>1, DeployAssumption
    <2>5. RowsOK'
      BY <1>2, <2>1, <2>4 DEF DeployInv, RowsOK
    <2>6. AllDeployed'
      BY <1>1, <2>1, <2>2, <2>3, DeployAssumption DEF DeployInv, AllDeployed, At
    <2>7. OneCall'
      BY <1>2, <1>3, <2>3 DEF OneCall, At
    <2>8. ASSUME ~overlapped, NEW j \in 1 .. Steps - 1, j < k + 1
          PROVE  contractRows'[j] = run[r].done[j]
      BY <2>1, <2>8, DeployAssumption DEF DeployInv, RowsOK, RecordsItsOwn
    <2>9. RecordsItsOwn'
      BY <1>2, <1>3, <2>1, <2>2, <2>3, <2>8 DEF DeployInv, RecordsItsOwn, At
    <2>10. NotReadyBefore' /\ ContractsAgree'
      BY <1>2, <1>3, <2>2, <2>3 DEF NotReadyBefore, ContractsAgree, At
    <2> QED BY <2>5, <2>6, <2>7, <2>9, <2>10 DEF DeployInv
  <1>6. CASE Return(r)
    <2>1. /\ At(r, "contracts") /\ run[r].next = Steps
          /\ run' = [run EXCEPT ![r] = NotCalled] /\ unfinished' = FALSE
          /\ UNCHANGED <<chainRow, contractRows>>
      BY <1>6 DEF Return
    <2>2. run'[r] = NotCalled /\ \A q \in Run : q # r => run'[q] = run[q]
      BY <2>1 DEF DeployInv, NonceInv, NonceOK
    <2>3. RowsOK'
      BY <1>2, <2>1 DEF DeployInv, RowsOK
    <2>4. AllDeployed'
      BY <2>1, <2>2 DEF DeployInv, AllDeployed, NotCalled
    <2>5. OneCall' /\ RecordsItsOwn' /\ NotReadyBefore'
      BY <1>2, <1>3, <2>2 DEF OneCall, RecordsItsOwn, NotReadyBefore, At, NotCalled
    <2>6. ContractsAgree'
      BY <1>2, <2>1, DeployAssumption DEF DeployInv, RecordsItsOwn, ContractsAgree
    <2> QED BY <2>3, <2>4, <2>5, <2>6 DEF DeployInv
  <1>7. CASE FinishFails(r)
    <2> DEFINE e == [run[r] EXCEPT !.pc = "fail"]
    <2>1. /\ run' = [run EXCEPT ![r] = e] /\ unfinished' = TRUE
          /\ UNCHANGED <<chainRow, contractRows>>
      BY <1>7 DEF FinishFails, Goes
    <2>2. e.pc = "fail"
      BY <1>7, CallForm DEF FinishFails, At, DeployInv, NonceInv
    <2> HIDE DEF e
    <2>3. run'[r] = e /\ \A q \in Run : q # r => run'[q] = run[q]
      BY <2>1 DEF DeployInv, NonceInv, NonceOK
    <2>4. RowsOK'
      BY <1>2, <2>1 DEF DeployInv, RowsOK
    <2>5. AllDeployed'
      BY <2>1, <2>2, <2>3 DEF DeployInv, AllDeployed
    <2>6. OneCall' /\ RecordsItsOwn' /\ NotReadyBefore' /\ ContractsAgree'
      BY <1>2, <1>3, <2>1, <2>2, <2>3
         DEF OneCall, RecordsItsOwn, NotReadyBefore, ContractsAgree, At
    <2> QED BY <2>4, <2>5, <2>6 DEF DeployInv
  <1> QED BY <1>4, <1>5, <1>6, <1>7

\* Every step keeps what is recorded about a project whole.
LEMMA DeployStep ==
    ASSUME DeployInv, [DeployNext]_deployVars
    PROVE  DeployInv'
  <1>1. NonceInv'
    BY NonceStep DEF DeployInv
  <1>2. CASE Surroundings \/ UNCHANGED deployVars
    <2>1. /\ UNCHANGED <<chainRow, contractRows, run, overlapped, unfinished>>
          /\ nonceCache' = nonceCache \/ nonceCache' = NoNonce
      BY <1>2 DEF Surroundings, LockEnds, OutsideTransaction, CacheReset, deployVars, nonceVars
    <2> QED BY <1>1, <2>1 DEF DeployInv, RowsOK, AllDeployed, OneCall, RecordsItsOwn,
                              NotReadyBefore, ContractsAgree, At
  <1> QED BY <1>1, <1>2, DeployingKeepsInv, CallEndsKeepInv, RecordingKeepsInv DEF DeployNext

\* Nothing is recorded at first.
LEMMA DeployStart == DeployInit => DeployInv
  <1> SUFFICES ASSUME DeployInit PROVE DeployInv
    OBVIOUS
  <1>1. NonceInv
    BY NonceStart
  <1>2. /\ chainRow = [status |-> "pending", addresses |-> << >>]
        /\ contractRows = [k \in 1 .. Steps - 1 |-> 0]
        /\ nonceCache = NoNonce /\ overlapped = FALSE /\ unfinished = FALSE
        /\ \A r \in Run : run[r].pc = "idle"
    BY DEF DeployInit, NonceInit, NotCalled
  <1>3. RowsOK
    <2>1. chainRow \in [status : {"pending", "deploying", "ready", "failed"}, addresses : Seq(Nat)]
      BY <1>2
    <2>2. contractRows \in [1 .. Steps - 1 -> Nat]
      BY <1>2
    <2> QED BY <1>2, <2>1, <2>2 DEF RowsOK
  <1> QED BY <1>1, <1>2, <1>3
          DEF DeployInv, AllDeployed, OneCall, RecordsItsOwn, NotReadyBefore, ContractsAgree, At

\* The rows and the counter of a deployment keep their types, and a project that
\* is ready has an address of each of its contracts.
THEOREM DeployTypes == DeploySpec => []DeployTypeOK
  <1>1. DeployInv => DeployTypeOK
    BY DEF DeployInv, NonceInv, NonceOK, RowsOK, AllDeployed, DeployTypeOK
  <1> QED BY <1>1, DeployStart, DeployStep, PTL DEF DeploySpec

\* deployProjectChain of project-deploy.service.ts: a project that is ready has the
\* same contracts in both tables once no call is under way, if no calls overlapped
\* and the last to record contracts came to its end.
THEOREM ContractsAreAgreed == DeploySpec => []ContractsAgree
  <1>1. DeployInv => ContractsAgree
    BY DEF DeployInv
  <1> QED BY <1>1, DeployStart, DeployStep, PTL DEF DeploySpec

\* The contracts of a project that is ready are not deployed and recorded again,
\* but by a call that began before or that failed after it was ready.
THEOREM ReadyStays == DeploySpec => ReadyIsKept
  <1>1. DeployInv /\ [DeployNext]_deployVars
        => [chainRow.status = "ready" /\ ~overlapped /\ ~unfinished'
            => chainRow' = chainRow]_chainRow
    <2> SUFFICES ASSUME DeployInv, DeployNext, chainRow.status = "ready", ~overlapped, ~unfinished'
                 PROVE  chainRow' = chainRow
      BY DEF deployVars
    <2>1. ASSUME NEW r \in Run
          PROVE  ~MarkDeploying(r) /\ ~RecordReady(r) /\ ~RecordFailed(r)
      BY DEF MarkDeploying, RecordReady, RecordFailed, DeployInv, NotReadyBefore, At, deployHistory
    <2> QED BY <2>1 DEF DeployNext, Call, AcquireLock, NotSent, AcquireRead, AcquireStore, Send,
                        SendNothing, Deployed, NotDeployed, RecordContract, Return, FinishFails,
                        DeployCrashes, Surroundings
  <1> QED BY <1>1, DeployStart, DeployStep, PTL DEF DeploySpec, ReadyIsKept
=============================================================================
