----------------------- MODULE ProducerConsumer_proofs -----------------------
(***************************************************************************)
(* Proofs about ProducerConsumer for any number of producers, consumers,   *)
(* buffer units and items.                                                 *)
(***************************************************************************)
EXTENDS ProducerConsumer, ProofLemmas

(***************************************************************************)
(* The inductive invariant.                                                *)
(***************************************************************************)
\* TypeOK without the upper bounds of the semaphores, which follow from the
\* accounting below.
TypeInv ==
    /\ item_num \in 0 .. MAX_ITEM_NUM /\ consume_num \in 0 .. item_num
    /\ enqueue \in 0 .. BUFFER_SIZE - 1 /\ dequeue \in 0 .. BUFFER_SIZE - 1
    /\ END_FLAG \in {0, 1}
    /\ sem_mutex \in Nat /\ stock \in Nat /\ emptyslot \in Nat
    /\ data \in [0 .. BUFFER_SIZE - 1 -> 0 .. MAX_ITEM_NUM]
    /\ taken \in Seq(0 .. MAX_ITEM_NUM)
    /\ pc \in [Threads -> ProducerLabels \cup ConsumerLabels]
    /\ \A p \in Producers : pc[p] \in ProducerLabels
    /\ \A c \in Consumers : pc[c] \in ConsumerLabels
    /\ seen \in [Consumers -> 0 .. MAX_ITEM_NUM]
    /\ posts \in Nat
    /\ pmain \in {"join", "post", "done"} /\ cmain \in {"join", "done"}
    /\ console \in {"wait_pro", "wait_cons", "destroyed"}

\* MutualExclusion with the semaphore's range, which the step of Unlock needs.
MutexInv == sem_mutex \in {0, 1} /\ MutualExclusion

\* Both positions follow the counters, and item j is in unit j % BUFFER_SIZE
\* from the moment it is made until it is taken.
Ring == /\ enqueue = item_num % BUFFER_SIZE
        /\ dequeue = consume_num % BUFFER_SIZE
        /\ \A j \in consume_num + 1 .. item_num : data[j % BUFFER_SIZE] = j

IInv == TypeInv /\ MutexInv /\ SlotsConserved /\ StockConserved /\ Ring /\ TakenInOrder

\* Every step keeps the types.
LEMMA TypeStep == TypeInv /\ [Next]_vars => TypeInv'
<1> SUFFICES ASSUME TypeInv, [Next]_vars  PROVE TypeInv'
  OBVIOUS
<1> USE Inputs DEF TypeInv, Threads, At, Goto, Wait, Post, ctl, sems, mains, ProducerLabels, ConsumerLabels
<1>1. ASSUME NEW p \in Producers, PCheck(p)  PROVE TypeInv'
  BY <1>1 DEF PCheck
<1>2. ASSUME NEW p \in Producers, PWaitSlot(p)  PROVE TypeInv'
  BY <1>2 DEF PWaitSlot
<1>3. ASSUME NEW p \in Producers, WaitMutex(p)  PROVE TypeInv'
  BY <1>3 DEF WaitMutex
<1>4. ASSUME NEW p \in Producers, PProduce(p)  PROVE TypeInv'
  <2>1. enqueue' \in 0 .. BUFFER_SIZE - 1
    <3>1. enqueue + 1 \in Nat
      OBVIOUS
    <3> QED  BY <1>4, <3>1, ModRange DEF PProduce
  <2>2. item_num' \in 0 .. MAX_ITEM_NUM /\ consume_num' \in 0 .. item_num'
    BY <1>4 DEF PProduce
  <2>3. data' \in [0 .. BUFFER_SIZE - 1 -> 0 .. MAX_ITEM_NUM]
    BY <1>4, <2>2 DEF PProduce
  <2> QED  BY <1>4, <2>1, <2>2, <2>3 DEF PProduce
<1>5. ASSUME NEW p \in Producers, PSetFlag(p)  PROVE TypeInv'
  BY <1>5 DEF PSetFlag
<1>6. ASSUME NEW p \in Producers, PTooLate(p)  PROVE TypeInv'
  BY <1>6 DEF PTooLate
<1>7. ASSUME NEW p \in Producers, PostStock(p)  PROVE TypeInv'
  BY <1>7 DEF PostStock
<1>8. ASSUME NEW p \in Producers, PostSlot(p)  PROVE TypeInv'
  BY <1>8 DEF PostSlot
<1>9. ASSUME NEW p \in Producers, Unlock(p)  PROVE TypeInv'
  BY <1>9 DEF Unlock
<1>10. ASSUME NEW c \in Consumers, CReadConsumed(c)  PROVE TypeInv'
  BY <1>10 DEF CReadConsumed
<1>11. ASSUME NEW c \in Consumers, CCompare(c)  PROVE TypeInv'
  BY <1>11 DEF CCompare
<1>12. ASSUME NEW c \in Consumers, CReadFlag(c)  PROVE TypeInv'
  BY <1>12 DEF CReadFlag
<1>13. ASSUME NEW c \in Consumers, CWaitStock(c)  PROVE TypeInv'
  BY <1>13 DEF CWaitStock
<1>14. ASSUME NEW c \in Consumers, WaitMutex(c)  PROVE TypeInv'
  BY <1>14 DEF WaitMutex
<1>15. ASSUME NEW c \in Consumers, CTake(c)  PROVE TypeInv'
  <2>1. dequeue' \in 0 .. BUFFER_SIZE - 1
    <3>1. dequeue + 1 \in Nat
      OBVIOUS
    <3> QED  BY <1>15, <3>1, ModRange DEF CTake
  <2>2. consume_num' \in 0 .. item_num'
    BY <1>15 DEF CTake
  <2>3. taken' \in Seq(0 .. MAX_ITEM_NUM)
    BY <1>15, <2>1 DEF CTake
  <2> QED  BY <1>15, <2>1, <2>2, <2>3 DEF CTake
<1>16. ASSUME NEW c \in Consumers, CNothing(c)  PROVE TypeInv'
  BY <1>16 DEF CNothing
<1>17. ASSUME NEW c \in Consumers, PostStock(c)  PROVE TypeInv'
  BY <1>17 DEF PostStock
<1>18. ASSUME NEW c \in Consumers, PostSlot(c)  PROVE TypeInv'
  BY <1>18 DEF PostSlot
<1>19. ASSUME NEW c \in Consumers, Unlock(c)  PROVE TypeInv'
  BY <1>19 DEF Unlock
<1>20. CASE PJoin
  BY <1>20 DEF PJoin
<1>21. CASE PWakeUp
  BY <1>21 DEF PWakeUp, WakeUps
<1>22. CASE PReturn
  BY <1>22 DEF PReturn
<1>23. CASE CJoin
  BY <1>23 DEF CJoin
<1>24. CASE WaitPro
  BY <1>24 DEF WaitPro
<1>25. CASE WaitCons
  BY <1>25 DEF WaitCons
<1>26. CASE UNCHANGED vars
  BY <1>26 DEF vars, ctl, sems, mains
<1> QED
  BY <1>1, <1>2, <1>3, <1>4, <1>5, <1>6, <1>7, <1>8, <1>9, <1>10, <1>11, <1>12, <1>13, <1>14, <1>15, <1>16, <1>17, <1>18, <1>19, <1>20, <1>21, <1>22, <1>23, <1>24, <1>25, <1>26
     DEF Next, producer, consumer, Mains

\* Every step keeps mutual exclusion: a thread enters only by taking the
\* semaphore from 1 to 0 and only the thread inside posts it.
LEMMA MutexStep == TypeInv /\ MutexInv /\ [Next]_vars => MutexInv'
<1> SUFFICES ASSUME TypeInv /\ MutexInv, [Next]_vars  PROVE MutexInv'
  OBVIOUS
<1> USE Inputs DEF TypeInv, MutexInv, MutualExclusion, Threads, At, Goto, Wait, Post, ctl, sems, mains
<1>1. ASSUME NEW p \in Producers, PCheck(p)  PROVE MutexInv'
  BY <1>1 DEF PCheck, InMutex
<1>2. ASSUME NEW p \in Producers, PWaitSlot(p)  PROVE MutexInv'
  BY <1>2 DEF PWaitSlot, InMutex
<1>3. ASSUME NEW p \in Producers, WaitMutex(p)  PROVE MutexInv'
  BY <1>3 DEF WaitMutex, InMutex
<1>4. ASSUME NEW p \in Producers, PProduce(p)  PROVE MutexInv'
  BY <1>4 DEF PProduce, InMutex
<1>5. ASSUME NEW p \in Producers, PSetFlag(p)  PROVE MutexInv'
  BY <1>5 DEF PSetFlag, InMutex
<1>6. ASSUME NEW p \in Producers, PTooLate(p)  PROVE MutexInv'
  BY <1>6 DEF PTooLate, InMutex
<1>7. ASSUME NEW p \in Producers, PostStock(p)  PROVE MutexInv'
  BY <1>7 DEF PostStock, InMutex
<1>8. ASSUME NEW p \in Producers, PostSlot(p)  PROVE MutexInv'
  BY <1>8 DEF PostSlot, InMutex
<1>9. ASSUME NEW p \in Producers, Unlock(p)  PROVE MutexInv'
  BY <1>9 DEF Unlock, InMutex
<1>10. ASSUME NEW c \in Consumers, CReadConsumed(c)  PROVE MutexInv'
  BY <1>10 DEF CReadConsumed, InMutex
<1>11. ASSUME NEW c \in Consumers, CCompare(c)  PROVE MutexInv'
  BY <1>11 DEF CCompare, InMutex
<1>12. ASSUME NEW c \in Consumers, CReadFlag(c)  PROVE MutexInv'
  BY <1>12 DEF CReadFlag, InMutex
<1>13. ASSUME NEW c \in Consumers, CWaitStock(c)  PROVE MutexInv'
  BY <1>13 DEF CWaitStock, InMutex
<1>14. ASSUME NEW c \in Consumers, WaitMutex(c)  PROVE MutexInv'
  BY <1>14 DEF WaitMutex, InMutex
<1>15. ASSUME NEW c \in Consumers, CTake(c)  PROVE MutexInv'
  BY <1>15 DEF CTake, InMutex
<1>16. ASSUME NEW c \in Consumers, CNothing(c)  PROVE MutexInv'
  BY <1>16 DEF CNothing, InMutex
<1>17. ASSUME NEW c \in Consumers, PostStock(c)  PROVE MutexInv'
  BY <1>17 DEF PostStock, InMutex
<1>18. ASSUME NEW c \in Consumers, PostSlot(c)  PROVE MutexInv'
  BY <1>18 DEF PostSlot, InMutex
<1>19. ASSUME NEW c \in Consumers, Unlock(c)  PROVE MutexInv'
  BY <1>19 DEF Unlock, InMutex
<1>20. CASE PJoin
  BY <1>20 DEF PJoin, InMutex
<1>21. CASE PWakeUp
  BY <1>21 DEF PWakeUp, InMutex
<1>22. CASE PReturn
  BY <1>22 DEF PReturn, InMutex
<1>23. CASE CJoin
  BY <1>23 DEF CJoin, InMutex
<1>24. CASE WaitPro
  BY <1>24 DEF WaitPro, InMutex
<1>25. CASE WaitCons
  BY <1>25 DEF WaitCons, InMutex
<1>26. CASE UNCHANGED vars
  BY <1>26 DEF vars, InMutex
<1> QED
  BY <1>1, <1>2, <1>3, <1>4, <1>5, <1>6, <1>7, <1>8, <1>9, <1>10, <1>11, <1>12, <1>13, <1>14, <1>15, <1>16, <1>17, <1>18, <1>19, <1>20, <1>21, <1>22, <1>23, <1>24, <1>25, <1>26
     DEF Next, producer, consumer, Mains


(***************************************************************************)
(* Accounting of the two counting semaphores.                              *)
(***************************************************************************)
\* The sets of claims are finite.
LEMMA ClaimsFinite == IsFiniteSet(SlotClaims) /\ IsFiniteSet(StockClaims)
<1>1. IsFiniteSet(Threads)
  BY Inputs, FS_Union DEF Threads
<1>2. SlotClaims \subseteq Threads /\ StockClaims \subseteq Threads
  BY DEF SlotClaims, StockClaims, Threads
<1> QED  BY <1>1, <1>2, FS_Subset

\* A claim more is one more, a claim less one less.
LEMMA ClaimCount ==
  ASSUME NEW S, IsFiniteSet(S), NEW t
  PROVE  /\ Cardinality(S) \in Nat
         /\ t \notin S => Cardinality(S \cup {t}) = Cardinality(S) + 1
         /\ t \in S => Cardinality(S \ {t}) = Cardinality(S) - 1
BY FS_CardinalityType, FS_AddElement, FS_RemoveElement

\* Every step keeps the account of emptyslot.
LEMMA SlotsStep == TypeInv /\ SlotsConserved /\ [Next]_vars => SlotsConserved'
<1> SUFFICES ASSUME TypeInv, SlotsConserved, [Next]_vars  PROVE SlotsConserved'
  OBVIOUS
<1> USE Inputs DEF TypeInv, Threads, At, Goto, Wait, Post, ctl, sems, mains, SlotClaims
<1>0. IsFiniteSet(SlotClaims) /\ Cardinality(SlotClaims) \in Nat
  BY ClaimsFinite, ClaimCount
<1>1. ASSUME NEW p \in Producers, PCheck(p)  PROVE SlotsConserved'
  <2>1. SlotClaims' = SlotClaims
    BY <1>1 DEF PCheck
  <2> QED  BY <1>1, <2>1 DEF PCheck, SlotsConserved
<1>2. ASSUME NEW p \in Producers, PWaitSlot(p)  PROVE SlotsConserved'
  <2>1. p \notin SlotClaims /\ SlotClaims' = SlotClaims \cup {p}
    BY <1>2 DEF PWaitSlot
  <2>2. Cardinality(SlotClaims') = Cardinality(SlotClaims) + 1
    BY <1>0, <2>1, ClaimCount
  <2> QED  BY <1>0, <1>2, <2>2 DEF PWaitSlot, SlotsConserved
<1>3. ASSUME NEW p \in Producers, WaitMutex(p)  PROVE SlotsConserved'
  <2>1. SlotClaims' = SlotClaims
    BY <1>3 DEF WaitMutex
  <2> QED  BY <1>3, <2>1 DEF WaitMutex, SlotsConserved
<1>4. ASSUME NEW p \in Producers, PProduce(p)  PROVE SlotsConserved'
  <2>1. p \in SlotClaims /\ SlotClaims' = SlotClaims \ {p}
    BY <1>4 DEF PProduce
  <2>2. Cardinality(SlotClaims') = Cardinality(SlotClaims) - 1
    BY <1>0, <2>1, ClaimCount
  <2> QED  BY <1>0, <1>4, <2>2 DEF PProduce, SlotsConserved
<1>5. ASSUME NEW p \in Producers, PSetFlag(p)  PROVE SlotsConserved'
  <2>1. SlotClaims' = SlotClaims
    BY <1>5 DEF PSetFlag
  <2> QED  BY <1>5, <2>1 DEF PSetFlag, SlotsConserved
<1>6. ASSUME NEW p \in Producers, PTooLate(p)  PROVE SlotsConserved'
  <2>1. SlotClaims' = SlotClaims
    BY <1>6 DEF PTooLate
  <2> QED  BY <1>6, <2>1 DEF PTooLate, SlotsConserved
<1>7. ASSUME NEW p \in Producers, PostStock(p)  PROVE SlotsConserved'
  <2>1. SlotClaims' = SlotClaims
    BY <1>7 DEF PostStock
  <2> QED  BY <1>7, <2>1 DEF PostStock, SlotsConserved
<1>8. ASSUME NEW p \in Producers, PostSlot(p)  PROVE SlotsConserved'
  <2>1. p \in SlotClaims /\ SlotClaims' = SlotClaims \ {p}
    BY <1>8 DEF PostSlot
  <2>2. Cardinality(SlotClaims') = Cardinality(SlotClaims) - 1
    BY <1>0, <2>1, ClaimCount
  <2> QED  BY <1>0, <1>8, <2>2 DEF PostSlot, SlotsConserved
<1>9. ASSUME NEW p \in Producers, Unlock(p)  PROVE SlotsConserved'
  <2>1. SlotClaims' = SlotClaims
    BY <1>9 DEF Unlock
  <2> QED  BY <1>9, <2>1 DEF Unlock, SlotsConserved
<1>10. ASSUME NEW c \in Consumers, CReadConsumed(c)  PROVE SlotsConserved'
  <2>1. SlotClaims' = SlotClaims
    BY <1>10 DEF CReadConsumed
  <2> QED  BY <1>10, <2>1 DEF CReadConsumed, SlotsConserved
<1>11. ASSUME NEW c \in Consumers, CCompare(c)  PROVE SlotsConserved'
  <2>1. SlotClaims' = SlotClaims
    BY <1>11 DEF CCompare
  <2> QED  BY <1>11, <2>1 DEF CCompare, SlotsConserved
<1>12. ASSUME NEW c \in Consumers, CReadFlag(c)  PROVE SlotsConserved'
  <2>1. SlotClaims' = SlotClaims
    BY <1>12 DEF CReadFlag
  <2> QED  BY <1>12, <2>1 DEF CReadFlag, SlotsConserved
<1>13. ASSUME NEW c \in Consumers, CWaitStock(c)  PROVE SlotsConserved'
  <2>1. SlotClaims' = SlotClaims
    BY <1>13 DEF CWaitStock
  <2> QED  BY <1>13, <2>1 DEF CWaitStock, SlotsConserved
<1>14. ASSUME NEW c \in Consumers, WaitMutex(c)  PROVE SlotsConserved'
  <2>1. SlotClaims' = SlotClaims
    BY <1>14 DEF WaitMutex
  <2> QED  BY <1>14, <2>1 DEF WaitMutex, SlotsConserved
<1>15. ASSUME NEW c \in Consumers, CTake(c)  PROVE SlotsConserved'
  <2>1. c \notin SlotClaims /\ SlotClaims' = SlotClaims \cup {c}
    BY <1>15 DEF CTake
  <2>2. Cardinality(SlotClaims') = Cardinality(SlotClaims) + 1
    BY <1>0, <2>1, ClaimCount
  <2> QED  BY <1>0, <1>15, <2>2 DEF CTake, SlotsConserved
<1>16. ASSUME NEW c \in Consumers, CNothing(c)  PROVE SlotsConserved'
  <2>1. SlotClaims' = SlotClaims
    BY <1>16 DEF CNothing
  <2> QED  BY <1>16, <2>1 DEF CNothing, SlotsConserved
<1>17. ASSUME NEW c \in Consumers, PostStock(c)  PROVE SlotsConserved'
  <2>1. SlotClaims' = SlotClaims
    BY <1>17 DEF PostStock
  <2> QED  BY <1>17, <2>1 DEF PostStock, SlotsConserved
<1>18. ASSUME NEW c \in Consumers, PostSlot(c)  PROVE SlotsConserved'
  <2>1. c \in SlotClaims /\ SlotClaims' = SlotClaims \ {c}
    BY <1>18 DEF PostSlot
  <2>2. Cardinality(SlotClaims') = Cardinality(SlotClaims) - 1
    BY <1>0, <2>1, ClaimCount
  <2> QED  BY <1>0, <1>18, <2>2 DEF PostSlot, SlotsConserved
<1>19. ASSUME NEW c \in Consumers, Unlock(c)  PROVE SlotsConserved'
  <2>1. SlotClaims' = SlotClaims
    BY <1>19 DEF Unlock
  <2> QED  BY <1>19, <2>1 DEF Unlock, SlotsConserved
<1>20. CASE Mains
  <2>1. SlotClaims' = SlotClaims
    BY <1>20 DEF Mains, PJoin, PWakeUp, PReturn, CJoin, WaitPro, WaitCons
  <2> QED  BY <1>0, <1>20, <2>1 DEF Mains, PJoin, PWakeUp, PReturn, CJoin, WaitPro, WaitCons, SlotsConserved
<1>21. CASE UNCHANGED vars
  BY <1>21 DEF vars, SlotsConserved
<1> QED
  BY <1>1, <1>2, <1>3, <1>4, <1>5, <1>6, <1>7, <1>8, <1>9, <1>10, <1>11, <1>12, <1>13, <1>14, <1>15, <1>16, <1>17, <1>18, <1>19, <1>20, <1>21
     DEF Next, producer, consumer

\* Every step keeps the account of stock.
LEMMA StockStep == TypeInv /\ StockConserved /\ [Next]_vars => StockConserved'
<1> SUFFICES ASSUME TypeInv, StockConserved, [Next]_vars  PROVE StockConserved'
  OBVIOUS
<1> USE Inputs DEF TypeInv, Threads, At, Goto, Wait, Post, ctl, sems, mains, StockClaims
<1>z. item_num \in Nat /\ consume_num \in Nat /\ stock \in Nat /\ posts \in Nat
  OBVIOUS
<1>0. IsFiniteSet(StockClaims) /\ Cardinality(StockClaims) \in Nat
  BY ClaimsFinite, ClaimCount
<1>1. ASSUME NEW p \in Producers, PCheck(p)  PROVE StockConserved'
  <2>1. StockClaims' = StockClaims
    BY <1>1 DEF PCheck
  <2> QED  BY <1>1, <2>1 DEF PCheck, StockConserved
<1>2. ASSUME NEW p \in Producers, PWaitSlot(p)  PROVE StockConserved'
  <2>1. StockClaims' = StockClaims
    BY <1>2 DEF PWaitSlot
  <2> QED  BY <1>2, <2>1 DEF PWaitSlot, StockConserved
<1>3. ASSUME NEW p \in Producers, WaitMutex(p)  PROVE StockConserved'
  <2>1. StockClaims' = StockClaims
    BY <1>3 DEF WaitMutex
  <2> QED  BY <1>3, <2>1 DEF WaitMutex, StockConserved
<1>4. ASSUME NEW p \in Producers, PProduce(p)  PROVE StockConserved'
  <2>1. p \notin StockClaims /\ StockClaims' = StockClaims \cup {p}
    BY <1>4 DEF PProduce
  <2>2. Cardinality(StockClaims') = Cardinality(StockClaims) + 1
    BY <1>0, <2>1, ClaimCount
  <2>3. item_num' = item_num + 1 /\ UNCHANGED <<consume_num, stock, posts>>
    BY <1>4 DEF PProduce
  <2> HIDE DEF StockClaims, TypeInv
  <2> QED  BY <1>0, <1>z, <2>2, <2>3 DEF StockConserved
<1>5. ASSUME NEW p \in Producers, PSetFlag(p)  PROVE StockConserved'
  <2>1. StockClaims' = StockClaims
    BY <1>5 DEF PSetFlag
  <2> QED  BY <1>5, <2>1 DEF PSetFlag, StockConserved
<1>6. ASSUME NEW p \in Producers, PTooLate(p)  PROVE StockConserved'
  <2>1. StockClaims' = StockClaims
    BY <1>6 DEF PTooLate
  <2> QED  BY <1>6, <2>1 DEF PTooLate, StockConserved
<1>7. ASSUME NEW p \in Producers, PostStock(p)  PROVE StockConserved'
  <2>1. p \in StockClaims /\ StockClaims' = StockClaims \ {p}
    BY <1>7 DEF PostStock
  <2>2. Cardinality(StockClaims') = Cardinality(StockClaims) - 1
    BY <1>0, <2>1, ClaimCount
  <2> QED  BY <1>0, <1>7, <2>2 DEF PostStock, StockConserved
<1>8. ASSUME NEW p \in Producers, PostSlot(p)  PROVE StockConserved'
  <2>1. StockClaims' = StockClaims
    BY <1>8 DEF PostSlot
  <2> QED  BY <1>8, <2>1 DEF PostSlot, StockConserved
<1>9. ASSUME NEW p \in Producers, Unlock(p)  PROVE StockConserved'
  <2>1. StockClaims' = StockClaims
    BY <1>9 DEF Unlock
  <2> QED  BY <1>9, <2>1 DEF Unlock, StockConserved
<1>10. ASSUME NEW c \in Consumers, CReadConsumed(c)  PROVE StockConserved'
  <2>1. StockClaims' = StockClaims
    BY <1>10 DEF CReadConsumed
  <2> QED  BY <1>10, <2>1 DEF CReadConsumed, StockConserved
<1>11. ASSUME NEW c \in Consumers, CCompare(c)  PROVE StockConserved'
  <2>1. StockClaims' = StockClaims
    BY <1>11 DEF CCompare
  <2> QED  BY <1>11, <2>1 DEF CCompare, StockConserved
<1>12. ASSUME NEW c \in Consumers, CReadFlag(c)  PROVE StockConserved'
  <2>1. StockClaims' = StockClaims
    BY <1>12 DEF CReadFlag
  <2> QED  BY <1>12, <2>1 DEF CReadFlag, StockConserved
<1>13. ASSUME NEW c \in Consumers, CWaitStock(c)  PROVE StockConserved'
  <2>1. c \notin StockClaims /\ StockClaims' = StockClaims \cup {c}
    BY <1>13 DEF CWaitStock
  <2>2. Cardinality(StockClaims') = Cardinality(StockClaims) + 1
    BY <1>0, <2>1, ClaimCount
  <2> QED  BY <1>0, <1>13, <2>2 DEF CWaitStock, StockConserved
<1>14. ASSUME NEW c \in Consumers, WaitMutex(c)  PROVE StockConserved'
  <2>1. StockClaims' = StockClaims
    BY <1>14 DEF WaitMutex
  <2> QED  BY <1>14, <2>1 DEF WaitMutex, StockConserved
<1>15. ASSUME NEW c \in Consumers, CTake(c)  PROVE StockConserved'
  <2>1. c \in StockClaims /\ StockClaims' = StockClaims \ {c}
    BY <1>15 DEF CTake
  <2>2. Cardinality(StockClaims') = Cardinality(StockClaims) - 1
    BY <1>0, <2>1, ClaimCount
  <2>3. consume_num' = consume_num + 1 /\ UNCHANGED <<item_num, stock, posts>>
    BY <1>15 DEF CTake
  <2> HIDE DEF StockClaims, TypeInv
  <2> QED  BY <1>0, <1>z, <2>2, <2>3 DEF StockConserved
<1>16. ASSUME NEW c \in Consumers, CNothing(c)  PROVE StockConserved'
  <2>1. StockClaims' = StockClaims
    BY <1>16 DEF CNothing
  <2> QED  BY <1>16, <2>1 DEF CNothing, StockConserved
<1>17. ASSUME NEW c \in Consumers, PostStock(c)  PROVE StockConserved'
  <2>1. c \in StockClaims /\ StockClaims' = StockClaims \ {c}
    BY <1>17 DEF PostStock
  <2>2. Cardinality(StockClaims') = Cardinality(StockClaims) - 1
    BY <1>0, <2>1, ClaimCount
  <2> QED  BY <1>0, <1>17, <2>2 DEF PostStock, StockConserved
<1>18. ASSUME NEW c \in Consumers, PostSlot(c)  PROVE StockConserved'
  <2>1. StockClaims' = StockClaims
    BY <1>18 DEF PostSlot
  <2> QED  BY <1>18, <2>1 DEF PostSlot, StockConserved
<1>19. ASSUME NEW c \in Consumers, Unlock(c)  PROVE StockConserved'
  <2>1. StockClaims' = StockClaims
    BY <1>19 DEF Unlock
  <2> QED  BY <1>19, <2>1 DEF Unlock, StockConserved
<1>20. CASE Mains
  <2>1. StockClaims' = StockClaims
    BY <1>20 DEF Mains, PJoin, PWakeUp, PReturn, CJoin, WaitPro, WaitCons
  <2>2. /\ UNCHANGED <<item_num, consume_num>>
        /\ \/ stock' = stock + 1 /\ posts' = posts + 1
           \/ UNCHANGED <<stock, posts>>
    BY <1>20 DEF Mains, PJoin, PWakeUp, PReturn, CJoin, WaitPro, WaitCons
  <2> HIDE DEF StockClaims, TypeInv
  <2> QED  BY <1>0, <1>z, <2>1, <2>2 DEF StockConserved
<1>21. CASE UNCHANGED vars
  BY <1>21 DEF vars, StockConserved
<1> QED
  BY <1>1, <1>2, <1>3, <1>4, <1>5, <1>6, <1>7, <1>8, <1>9, <1>10, <1>11, <1>12, <1>13, <1>14, <1>15, <1>16, <1>17, <1>18, <1>19, <1>20, <1>21
     DEF Next, producer, consumer


(***************************************************************************)
(* The circular buffer.                                                    *)
(***************************************************************************)
\* A producer inside the mutex that may still produce has a free unit.
LEMMA RoomToProduce ==
  ASSUME TypeInv, SlotsConserved, NEW p \in Producers, pc[p] = "locked"
  PROVE  item_num - consume_num < BUFFER_SIZE
<1>1. p \in SlotClaims
  BY DEF SlotClaims
<1>2. Cardinality(SlotClaims) \in Nat \ {0}
  BY <1>1, ClaimsFinite, FS_EmptySet, FS_CardinalityType
<1>3. item_num \in Nat /\ consume_num \in Nat /\ emptyslot \in Nat
  BY Inputs DEF TypeInv
<1> QED  BY <1>2, <1>3, Inputs DEF SlotsConserved

\* Producing stores the new item in a unit that holds no item still in stock.
LEMMA RingProduce ==
  ASSUME TypeInv, SlotsConserved, Ring, TakenInOrder, NEW p \in Producers, PProduce(p)
  PROVE  Ring' /\ TakenInOrder'
<1> USE Inputs
<1>1. /\ item_num \in Nat /\ consume_num \in Nat /\ item_num + 1 \in Nat
      /\ data \in [0 .. BUFFER_SIZE - 1 -> 0 .. MAX_ITEM_NUM]
  BY DEF TypeInv
<1>2. /\ item_num' = item_num + 1
      /\ UNCHANGED <<consume_num, dequeue, taken>>
      /\ data' = [data EXCEPT ![enqueue'] = item_num + 1]
  BY DEF PProduce
<1>3. enqueue' = (item_num + 1) % BUFFER_SIZE
  BY <1>1, ModPlus DEF PProduce, Ring
<1>4. (item_num + 1) % BUFFER_SIZE \in 0 .. BUFFER_SIZE - 1
  BY <1>1, ModRange
<1>5. item_num - consume_num < BUFFER_SIZE
  BY RoomToProduce DEF PProduce, At
<1>6. ASSUME NEW j \in consume_num + 1 .. item_num + 1
      PROVE  data'[j % BUFFER_SIZE] = j
  <2>1. CASE j = item_num + 1
    BY <1>1, <1>2, <1>3, <1>4, <2>1
  <2>2. CASE j # item_num + 1
    <3>1. j \in consume_num + 1 .. item_num /\ j \in Nat /\ j < item_num + 1
      BY <1>1, <2>2
    <3>2. item_num + 1 - j < BUFFER_SIZE
      BY <1>1, <1>5, <3>1
    <3>3. j % BUFFER_SIZE # (item_num + 1) % BUFFER_SIZE
      <4> DEFINE m == item_num + 1
      <4>1. m \in Nat /\ j < m /\ m - j < BUFFER_SIZE
        BY <1>1, <3>1, <3>2
      <4> HIDE DEF m
      <4>2. j % BUFFER_SIZE # m % BUFFER_SIZE
        BY <3>1, <4>1, ModDistinct
      <4> QED  BY <4>2 DEF m
    <3>4. j % BUFFER_SIZE \in 0 .. BUFFER_SIZE - 1
      BY <3>1, ModRange
    <3>5. data[j % BUFFER_SIZE] = j
      BY <3>1 DEF Ring
    <3> QED  BY <1>1, <1>2, <1>3, <3>3, <3>4, <3>5
  <2> QED  BY <2>1, <2>2
<1> QED  BY <1>2, <1>3, <1>6 DEF Ring, TakenInOrder

\* Taking reads the oldest item in stock and prints the next number.
LEMMA RingTake ==
  ASSUME TypeInv, Ring, TakenInOrder, NEW c \in Consumers, CTake(c)
  PROVE  Ring' /\ TakenInOrder'
<1> USE Inputs
<1>1. item_num \in Nat /\ consume_num \in Nat /\ taken \in Seq(0 .. MAX_ITEM_NUM)
  BY DEF TypeInv
<1>2. /\ consume_num < item_num
      /\ consume_num' = consume_num + 1
      /\ UNCHANGED <<item_num, enqueue, data>>
      /\ taken' = Append(taken, data[dequeue'])
  BY DEF CTake
<1>3. dequeue' = (consume_num + 1) % BUFFER_SIZE
  BY <1>1, ModPlus DEF CTake, Ring
<1>4. data[dequeue'] = consume_num + 1
  BY <1>1, <1>2, <1>3 DEF Ring
<1>5. taken' = Append(taken, consume_num + 1)
  BY <1>2, <1>4
<1>6. Len(taken) = consume_num /\ \A i \in 1 .. consume_num : taken[i] = i
  BY DEF TakenInOrder
<1>7. TakenInOrder'
  BY <1>1, <1>2, <1>5, <1>6 DEF TakenInOrder
<1>8. ASSUME NEW j \in consume_num' + 1 .. item_num'
      PROVE  data'[j % BUFFER_SIZE] = j
  BY <1>1, <1>2 DEF Ring
<1>9. enqueue' = item_num' % BUFFER_SIZE /\ dequeue' = consume_num' % BUFFER_SIZE
  BY <1>2, <1>3 DEF Ring
<1> QED  BY <1>7, <1>8, <1>9 DEF Ring

\* No other step touches the counters, the buffer or the output.
Steady == UNCHANGED <<item_num, consume_num, enqueue, dequeue, data, taken>>

\* A step of the system produces, takes, or is steady.
LEMMA StepKinds ==
  ASSUME [Next]_vars
  PROVE  \/ \E p \in Producers : PProduce(p)
         \/ \E c \in Consumers : CTake(c)
         \/ Steady
BY DEF Next, producer, consumer, Mains, vars, ctl, Steady, PCheck, PWaitSlot, WaitMutex,
       PSetFlag, PTooLate, PostStock, PostSlot, Unlock, CReadConsumed, CCompare,
       CReadFlag, CWaitStock, CNothing, PJoin, PWakeUp, PReturn, CJoin, WaitPro, WaitCons

\* Every step keeps the buffer in order and the output in sequence.
LEMMA RingStep ==
  TypeInv /\ SlotsConserved /\ Ring /\ TakenInOrder /\ [Next]_vars => Ring' /\ TakenInOrder'
<1> SUFFICES ASSUME TypeInv, SlotsConserved, Ring, TakenInOrder, [Next]_vars
             PROVE  Ring' /\ TakenInOrder'
  OBVIOUS
<1>1. Steady => Ring' /\ TakenInOrder'
  BY DEF Steady, Ring, TakenInOrder
<1> QED  BY <1>1, StepKinds, RingProduce, RingTake

(***************************************************************************)
(* The theorems.                                                           *)
(***************************************************************************)
\* The inductive invariant holds in every initial state.
LEMMA InitIInv == Init => IInv
<1> SUFFICES ASSUME Init  PROVE IInv
  OBVIOUS
<1> USE Inputs DEF Init
<1>1. TypeInv
  BY DEF TypeInv, Threads, ProducerLabels, ConsumerLabels
<1>2. MutexInv
  BY DEF MutexInv, MutualExclusion, InMutex, Threads
<1>3. SlotClaims = {} /\ StockClaims = {}
  BY DEF SlotClaims, StockClaims, Threads
<1>4. SlotsConserved /\ StockConserved
  BY <1>3, FS_EmptySet DEF SlotsConserved, StockConserved
<1>5. 0 % BUFFER_SIZE = 0
  BY ModUnique
<1>6. Ring /\ TakenInOrder
  BY <1>5 DEF Ring, TakenInOrder
<1> QED  BY <1>1, <1>2, <1>4, <1>6 DEF IInv

\* The inductive invariant is kept by every step.
LEMMA NextIInv == IInv /\ [Next]_vars => IInv'
BY TypeStep, MutexStep, SlotsStep, StockStep, RingStep DEF IInv

\* The inductive invariant holds throughout.
THEOREM Inductive == Safe => []IInv
BY InitIInv, NextIInv, PTL DEF Safe

\* Counters, positions and semaphores keep their ranges (struct ctln_pc_st),
\* for any number of threads, units and items.
THEOREM TypeCorrect == Safe => []TypeOK
<1>1. IInv => TypeOK
  <2> SUFFICES ASSUME IInv  PROVE TypeOK
    OBVIOUS
  <2>1. Cardinality(SlotClaims) \in Nat
    BY ClaimsFinite, FS_CardinalityType
  <2>2. item_num \in Nat /\ consume_num \in 0 .. item_num /\ emptyslot \in Nat
    BY Inputs DEF IInv, TypeInv
  <2>3. emptyslot \in 0 .. BUFFER_SIZE
    BY <2>1, <2>2, Inputs DEF IInv, SlotsConserved
  <2> QED  BY <2>3 DEF IInv, TypeInv, MutexInv, TypeOK
<1> QED  BY <1>1, Inductive, PTL

\* At most one thread of the two processes is between sem_wait and sem_post of
\* sem_mutex (producer-6.c:29-44, consumer-6.c:29-39).
THEOREM Exclusion == Safe => []MutualExclusion
<1>1. IInv => MutualExclusion
  BY DEF IInv, MutexInv
<1> QED  BY <1>1, Inductive, PTL

\* emptyslot and stock account for every unit and every wake-up, give-backs
\* included.
THEOREM Accounting == Safe => [](SlotsConserved /\ StockConserved)
<1>1. IInv => SlotsConserved /\ StockConserved
  BY DEF IInv
<1> QED  BY <1>1, Inductive, PTL

\* The inductive invariant bounds the stock and places it behind dequeue.
LEMMA IInvStock == IInv => StockIntact
<1> SUFFICES ASSUME IInv  PROVE StockIntact
  OBVIOUS
<1> USE Inputs
<1>1. /\ item_num \in Nat /\ consume_num \in 0 .. item_num /\ consume_num \in Nat
      /\ emptyslot \in Nat
  BY DEF IInv, TypeInv
<1>2. Cardinality(SlotClaims) \in Nat
  BY ClaimsFinite, FS_CardinalityType
<1>3. item_num - consume_num <= BUFFER_SIZE
  BY <1>1, <1>2 DEF IInv, SlotsConserved
<1>4. ASSUME NEW i \in 1 .. item_num - consume_num
      PROVE  data[Unit(i)] = consume_num + i
  <2>1. i \in Nat /\ consume_num + i \in consume_num + 1 .. item_num
    BY <1>1
  <2>2. Unit(i) = (consume_num + i) % BUFFER_SIZE
    BY <1>1, <2>1, ModPlus DEF Unit, IInv, Ring
  <2> QED  BY <2>1, <2>2 DEF IInv, Ring
<1> QED  BY <1>3, <1>4 DEF StockIntact

\* No producer overwrites an item that is still in stock (producer-6.c:33-35).
THEOREM NoOverwrite == Safe => []StockIntact
BY IInvStock, Inductive, PTL

\* The consumers print 1, 2, 3, ... each item once (consumer-6.c:30-33).
THEOREM ExactlyOnceInOrder == Safe => []TakenInOrder
<1>1. IInv => TakenInOrder
  BY DEF IInv
<1> QED  BY <1>1, Inductive, PTL

(***************************************************************************)
(* Refinement: the program implements the bounded queue.                   *)
(***************************************************************************)
\* The abstract queue of a state, as Queue's instance maps it.
QueueBar == [i \in 1 .. item_num - consume_num |-> data[Unit(i)]]

\* The abstract queue holds the numbers in stock.
Contents == /\ item_num \in Nat /\ consume_num \in Nat /\ consume_num <= item_num
            /\ QueueBar = [i \in 1 .. item_num - consume_num |-> consume_num + i]

\* This is so in every state of the inductive invariant.
LEMMA QueueContents == IInv => Contents
<1> SUFFICES ASSUME IInv  PROVE Contents
  OBVIOUS
<1>1. item_num \in Nat /\ consume_num \in Nat /\ consume_num <= item_num
  BY Inputs DEF IInv, TypeInv
<1>2. QueueBar = [i \in 1 .. item_num - consume_num |-> consume_num + i]
  BY IInvStock DEF QueueBar, StockIntact
<1> QED  BY <1>1, <1>2 DEF Contents

\* Producing appends the new item to a queue that has room.
LEMMA ProducePuts ==
  ASSUME IInv, Contents, Contents', NEW p \in Producers, PProduce(p)
  PROVE  Queue!Put
<1>1. /\ item_num < MAX_ITEM_NUM /\ item_num' = item_num + 1
      /\ UNCHANGED <<consume_num, taken>>
  BY DEF PProduce
<1>2. item_num - consume_num < BUFFER_SIZE
  BY RoomToProduce DEF PProduce, At, IInv
<1>3. Len(QueueBar) < BUFFER_SIZE
  BY <1>2 DEF Contents
<1>4. QueueBar' = Append(QueueBar, item_num + 1)
  BY <1>1 DEF Contents
<1> QED  BY <1>1, <1>3, <1>4 DEF Queue!Put, QueueBar

\* A queue of n > 0 consecutive items starts with the oldest one.
LEMMA OldestFirst ==
  ASSUME NEW m \in Nat, NEW n \in Nat, n > 0, NEW q, q = [i \in 1 .. n |-> m + i]
  PROVE  q # <<>> /\ Head(q) = m + 1
<1>1. q \in Seq(Nat) /\ Len(q) = n /\ q[1] = m + 1
  OBVIOUS
<1>2. q # <<>>
  BY <1>1
<1> QED  BY <1>1, <1>2

\* Taking removes the oldest item and outputs it.
LEMMA TakeGets ==
  ASSUME IInv, Contents, Contents', NEW c \in Consumers, CTake(c)
  PROVE  Queue!Get
<1>1. /\ consume_num < item_num /\ consume_num' = consume_num + 1
      /\ UNCHANGED <<item_num, data>>
      /\ taken' = Append(taken, data[dequeue'])
  BY DEF CTake
<1>2. QueueBar # <<>> /\ Head(QueueBar) = consume_num + 1
  <2>1. item_num - consume_num \in Nat /\ item_num - consume_num > 0
    BY <1>1 DEF Contents
  <2> QED  BY <2>1, OldestFirst DEF Contents
<1>3. QueueBar' = Tail(QueueBar)
  BY <1>1 DEF Contents
<1>4. data[dequeue'] = Head(QueueBar)
  <2>1. dequeue' = Unit(1)
    BY DEF CTake, Unit
  <2>2. 1 \in 1 .. item_num - consume_num
    BY <1>1 DEF Contents
  <2> QED  BY <2>1, <2>2 DEF QueueBar
<1> QED  BY <1>1, <1>2, <1>3, <1>4 DEF Queue!Get, QueueBar

\* The program implements the bounded FIFO queue.
THEOREM Implements == Safe => QueueSpec
<1>1. Init => Queue!Init
  BY DEF Init, Queue!Init
<1>2. IInv /\ IInv' /\ [Next]_vars /\ Contents' => [Queue!Next]_Queue!vars
  <2> SUFFICES ASSUME IInv, [Next]_vars, Contents'  PROVE [Queue!Next]_Queue!vars
    OBVIOUS
  <2>1. Contents
    BY QueueContents
  <2>2. ASSUME Steady  PROVE UNCHANGED Queue!vars
    BY <2>2 DEF Steady, Queue!vars, Unit
  <2> QED  BY <2>1, <2>2, StepKinds, ProducePuts, TakeGets DEF Queue!Next
<1> QED  BY <1>1, <1>2, Inductive, QueueContents, PTL DEF Safe, QueueSpec, Queue!Spec
=============================================================================
