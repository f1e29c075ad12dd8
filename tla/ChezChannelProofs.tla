------------------------- MODULE ChezChannelProofs -------------------------
(***************************************************************************)
(* Proofs about ChezChannel, for any set of threads, script, timeout and   *)
(* set of null messages.                                                   *)
(***************************************************************************)
EXTENDS ChezChannel, SequenceTheorems, TLAPS

Inside == {"putTest", "getTest", "tryTest", "timedTest"}
Sending == {"putLock", "putTest", "putWait", "putSignal"}

\* The mutex is held by the thread whose program counter is between acquire
\* and release, and by no other.
MutexInv == \A t \in Thread : pc[t] \in Inside <=> owner = t

\* A thread inside channelPut has the message it was called with, and only a
\* get that has taken a message has one otherwise.
HandInv ==
    \A t \in Thread :
        /\ pc[t] \in Sending => hand[t] \in Message
        /\ pc[t] \notin Sending \union {"takeSignal"} => hand[t] = Nothing

\* The inductive invariant.
IInv == TypeOK /\ MutexInv /\ HandInv /\ BoxesAgree /\ ExactlyOnce

\* The initial state of blodwen-make-channel satisfies the invariant.
LEMMA InitIInv == Init => IInv
<1> SUFFICES ASSUME Init PROVE IInv
    OBVIOUS
<1>1. TypeOK
    BY TimeoutAssumption DEF Init, TypeOK, PC
<1>2. MutexInv /\ HandInv
    BY ThreadAssumption DEF Init, MutexInv, HandInv, Inside, Sending
<1>3. BoxesAgree /\ ExactlyOnce
    BY ConcatEmptySeq, TypeOK DEF Init, BoxesAgree, ExactlyOnce, Slot
<1> QED
    BY <1>1, <1>2, <1>3 DEF IInv

-----------------------------------------------------------------------------
\* What Append and \o do to a sequence of messages.
LEMMA SeqFacts ==
    ASSUME NEW S, NEW s \in Seq(S), NEW e \in S
    PROVE  /\ s \o <<>> = s
           /\ Append(s, e) = s \o <<e>>
           /\ Append(s, e) \in Seq(S)
    BY ConcatEmptySeq, AppendIsConcat, AppendProperties

\* The steps that touch neither the boxes nor the histories keep what is said
\* about them.
LEMMA BoxesKept ==
    ASSUME BoxesAgree, ExactlyOnce, UNCHANGED <<boxes, histories>>
    PROVE  BoxesAgree' /\ ExactlyOnce'
    BY DEF BoxesAgree, ExactlyOnce, Slot, boxes, histories

\* The message of a call of t is a message.
LEMMA CallMessage ==
    ASSUME TypeOK, NEW t \in Thread, calls[t] < Quota[t]
    PROVE  <<t, calls[t] + 1>> \in Message
<1>1. calls[t] + 1 \in 1..Quota[t]
    BY ScriptAssumption DEF TypeOK
<1>2. <<t, calls[t] + 1>> \in {t} \X (1..Quota[t])
    BY <1>1
<1> QED
    BY <1>2 DEF Message

\* Signalling moves at most two program counters, neither of them into or out
\* of the mutex, and the thread that is woken keeps its kind of call.
LEMMA SignalFacts ==
    ASSUME IInv, NEW t \in Thread, NEW cv \in {"putWait", "getWait"},
           pc[t] \in {"putSignal", "takeSignal"},
           SignalAndGoto(t, cv, "idle"), owner' = owner,
           hand' = [hand EXCEPT ![t] = Nothing]
    PROVE  pc' \in [Thread -> PC] /\ MutexInv' /\ HandInv'
<1>1. CASE pc' = [pc EXCEPT ![t] = "idle"]
    BY <1>1 DEF IInv, TypeOK, PC, MutexInv, HandInv, Inside, Sending
<1>2. ASSUME NEW w \in WaitingOn(cv), pc' = [pc EXCEPT ![t] = "idle", ![w] = Woken(cv)]
      PROVE  pc' \in [Thread -> PC] /\ MutexInv' /\ HandInv'
  <2>1. w \in Thread /\ pc[w] = cv /\ w # t
    BY <1>2 DEF WaitingOn
  <2>2. Woken(cv) \in {"putLock", "getLock"} /\ (Woken(cv) = "putLock" => cv = "putWait")
    BY DEF Woken
  <2>3. pc' \in [Thread -> PC]
    BY <1>2, <2>1, <2>2 DEF IInv, TypeOK, PC
  <2>4. pc'[w] = Woken(cv) /\ pc'[t] = "idle"
    BY <1>2, <2>1 DEF IInv, TypeOK
  <2>5. \A u \in Thread \ {t, w} : pc'[u] = pc[u]
    BY <1>2, <2>1 DEF IInv, TypeOK
  <2>6. MutexInv'
    BY <2>1, <2>2, <2>4, <2>5 DEF IInv, TypeOK, MutexInv, Inside
  <2>7. HandInv'
    <3> DEFINE P(u) == /\ pc[u] \in Sending => hand[u] \in Message
                       /\ pc[u] \notin Sending \union {"takeSignal"} => hand[u] = Nothing
    <3>1. hand'[t] = Nothing /\ \A u \in Thread \ {t} : hand'[u] = hand[u]
      BY DEF IInv, TypeOK
    <3>2. P(t)'
      BY <2>4, <3>1 DEF Sending
    <3>3. P(w)'
      <4>1. CASE cv = "putWait"
        BY <2>1, <2>4, <3>1, <4>1 DEF Sending, IInv, HandInv, Woken
      <4>2. CASE cv = "getWait"
        BY <2>1, <2>4, <3>1, <4>2 DEF Sending, IInv, HandInv, Woken
      <4> QED
        BY <4>1, <4>2
    <3>4. \A u \in Thread \ {t, w} : P(u)'
      BY <2>5, <3>1 DEF IInv, HandInv
    <3> QED
      BY <3>2, <3>3, <3>4 DEF HandInv
  <2> QED
    BY <2>3, <2>6, <2>7
<1> QED
    BY <1>1, <1>2 DEF SignalAndGoto, Goto

\* The critical section of all three kinds of get.
LEMMA TakeFacts ==
    ASSUME IInv, NEW t \in Thread, pc[t] \in Inside, TakeValue(t),
           valBox # Empty
    PROVE  IInv'
<1>1. ~readBox /\ valBox \in Message
    BY DEF IInv, TypeOK, BoxesAgree
<1>2. TypeOK'
    BY <1>1, SeqFacts DEF IInv, TypeOK, TakeValue, Goto, Release, PC
<1>3. MutexInv'
    BY ThreadAssumption DEF IInv, TypeOK, TakeValue, Goto, Release, MutexInv, Inside
<1>4. HandInv'
    BY DEF IInv, TypeOK, TakeValue, Goto, HandInv, Sending, Inside
<1>5. BoxesAgree'
    BY DEF TakeValue, BoxesAgree
<1>6. ExactlyOnce'
  <2>1. sent = received \o <<valBox>>
    BY <1>1 DEF IInv, ExactlyOnce, Slot
  <2>2. received' = received \o <<valBox>>
    BY <1>1, SeqFacts DEF TakeValue, IInv, TypeOK
  <2>3. received' \o <<>> = received'
    BY <1>2, ConcatEmptySeq DEF TypeOK
  <2>4. sent' = sent /\ Slot' = <<>>
    BY DEF TakeValue, Slot
  <2> QED
    BY <2>1, <2>2, <2>3, <2>4 DEF ExactlyOnce
<1> QED
    BY <1>2, <1>3, <1>4, <1>5, <1>6 DEF IInv

-----------------------------------------------------------------------------
\* Every operation of the run time preserves the invariant.
LEMMA NextIInv == IInv /\ [Next]_vars => IInv'
<1> SUFFICES ASSUME IInv, [Next]_vars PROVE IInv'
    OBVIOUS
<1>1. ASSUME NEW t \in Thread, NEW op \in Operation, Call(t, op) PROVE IInv'
  <2>1. BoxesAgree' /\ ExactlyOnce'
    BY <1>1, BoxesKept DEF Call, IInv
  <2>2. First(op) \in {"putLock", "getLock", "try", "timed"}
        /\ (First(op) = "putLock" <=> op = "put")
    BY DEF First, Operation
  <2>3. <<t, calls[t] + 1>> \in Message
    BY <1>1, CallMessage DEF Call, IInv
  <2>4. TypeOK'
    BY <1>1, <2>2, <2>3, TimeoutAssumption DEF Call, IInv, TypeOK, PC, Goto, boxes, histories
  <2>5. MutexInv'
    BY <1>1, <2>2 DEF Call, IInv, TypeOK, Goto, MutexInv, Inside
  <2>6. HandInv'
    BY <1>1, <2>2, <2>3 DEF Call, IInv, TypeOK, Goto, HandInv, Sending
  <2> QED
    BY <2>1, <2>4, <2>5, <2>6 DEF IInv
<1>2. ASSUME NEW t \in Thread, PutLock(t) PROVE IInv'
  <2>1. BoxesAgree' /\ ExactlyOnce'
    BY <1>2, BoxesKept DEF PutLock, IInv
  <2>2. TypeOK'
    BY <1>2 DEF PutLock, IInv, TypeOK, PC, Goto, Acquire, Release, boxes, histories
  <2>3. MutexInv' /\ HandInv'
    BY <1>2, ThreadAssumption DEF PutLock, IInv, TypeOK, MutexInv, HandInv, Inside, Sending, Goto, Acquire, Release, boxes, histories
  <2> QED
    BY <2>1, <2>2, <2>3 DEF IInv
<1>3. ASSUME NEW t \in Thread, PutWait(t) PROVE IInv'
  <2>1. BoxesAgree' /\ ExactlyOnce'
    BY <1>3, BoxesKept DEF PutWait, IInv
  <2>2. TypeOK'
    BY <1>3 DEF PutWait, IInv, TypeOK, PC, Goto, Acquire, Release, boxes, histories
  <2>3. MutexInv' /\ HandInv'
    BY <1>3, ThreadAssumption DEF PutWait, IInv, TypeOK, MutexInv, HandInv, Inside, Sending, Goto, Acquire, Release, boxes, histories
  <2> QED
    BY <2>1, <2>2, <2>3 DEF IInv
<1>4. ASSUME NEW t \in Thread, PutStore(t) PROVE IInv'
  <2>1. hand[t] \in Message
    BY <1>4 DEF PutStore, IInv, HandInv, Sending
  <2>2. TypeOK'
    BY <1>4, <2>1, SeqFacts DEF PutStore, IInv, TypeOK, PC, Goto, Release
  <2>3. MutexInv' /\ HandInv'
    BY <1>4, ThreadAssumption DEF PutStore, IInv, TypeOK, MutexInv, HandInv, Inside, Sending, Goto, Release
  <2>4. BoxesAgree'
    BY <1>4, <2>1, MessageAssumption DEF PutStore, BoxesAgree
  <2>5. ExactlyOnce'
    <3>1. sent = received \o <<>> /\ received' = received /\ Slot' = <<hand[t]>>
      BY <1>4 DEF PutStore, IInv, ExactlyOnce, Slot
    <3>2. sent' = received \o <<hand[t]>>
      BY <1>4, <2>1, <3>1, SeqFacts DEF PutStore, IInv, TypeOK
    <3> QED
      BY <3>1, <3>2 DEF ExactlyOnce
  <2> QED
    BY <2>2, <2>3, <2>4, <2>5 DEF IInv
<1>5. ASSUME NEW t \in Thread, PutSignal(t) PROVE IInv'
  <2>1. BoxesAgree' /\ ExactlyOnce'
    BY <1>5, BoxesKept DEF PutSignal, IInv
  <2>2. pc' \in [Thread -> PC] /\ MutexInv' /\ HandInv'
    BY <1>5, SignalFacts DEF PutSignal
  <2>3. TypeOK'
    BY <1>5, <2>2 DEF PutSignal, IInv, TypeOK, boxes, histories
  <2> QED
    BY <2>1, <2>2, <2>3 DEF IInv
<1>6. ASSUME NEW t \in Thread, GetLock(t) PROVE IInv'
  <2>1. BoxesAgree' /\ ExactlyOnce'
    BY <1>6, BoxesKept DEF GetLock, IInv
  <2>2. TypeOK'
    BY <1>6 DEF GetLock, IInv, TypeOK, PC, Goto, Acquire, Release, boxes, histories
  <2>3. MutexInv' /\ HandInv'
    BY <1>6, ThreadAssumption DEF GetLock, IInv, TypeOK, MutexInv, HandInv, Inside, Sending, Goto, Acquire, Release, boxes, histories
  <2> QED
    BY <2>1, <2>2, <2>3 DEF IInv
<1>7. ASSUME NEW t \in Thread, GetWait(t) PROVE IInv'
  <2>1. BoxesAgree' /\ ExactlyOnce'
    BY <1>7, BoxesKept DEF GetWait, IInv
  <2>2. TypeOK'
    BY <1>7 DEF GetWait, IInv, TypeOK, PC, Goto, Acquire, Release, boxes, histories
  <2>3. MutexInv' /\ HandInv'
    BY <1>7, ThreadAssumption DEF GetWait, IInv, TypeOK, MutexInv, HandInv, Inside, Sending, Goto, Acquire, Release, boxes, histories
  <2> QED
    BY <2>1, <2>2, <2>3 DEF IInv
<1>8. ASSUME NEW t \in Thread, GetTake(t) PROVE IInv'
  <2>1. valBox # Empty
    BY <1>8 DEF GetTake, IsNull, IInv, BoxesAgree
  <2> QED
    BY <1>8, <2>1, TakeFacts DEF GetTake, Inside
<1>9. ASSUME NEW t \in Thread, TakeSignal(t) PROVE IInv'
  <2>1. BoxesAgree' /\ ExactlyOnce'
    BY <1>9, BoxesKept DEF TakeSignal, IInv
  <2>2. pc' \in [Thread -> PC] /\ MutexInv' /\ HandInv'
    BY <1>9, SignalFacts DEF TakeSignal
  <2>3. TypeOK'
    BY <1>9, <2>2 DEF TakeSignal, IInv, TypeOK, boxes, histories
  <2> QED
    BY <2>1, <2>2, <2>3 DEF IInv
<1>10. ASSUME NEW t \in Thread, TryLock(t) PROVE IInv'
  <2>1. BoxesAgree' /\ ExactlyOnce'
    BY <1>10, BoxesKept DEF TryLock, IInv
  <2>2. TypeOK'
    BY <1>10 DEF TryLock, IInv, TypeOK, PC, Goto, Acquire, Release, boxes, histories
  <2>3. MutexInv' /\ HandInv'
    BY <1>10, ThreadAssumption DEF TryLock, IInv, TypeOK, MutexInv, HandInv, Inside, Sending, Goto, Acquire, Release, boxes, histories
  <2> QED
    BY <2>1, <2>2, <2>3 DEF IInv
<1>11. ASSUME NEW t \in Thread, TryNothing(t) PROVE IInv'
  <2>1. BoxesAgree' /\ ExactlyOnce'
    BY <1>11, BoxesKept DEF TryNothing, IInv
  <2>2. TypeOK'
    BY <1>11 DEF TryNothing, IInv, TypeOK, PC, Goto, Acquire, Release, boxes, histories
  <2>3. MutexInv' /\ HandInv'
    BY <1>11, ThreadAssumption DEF TryNothing, IInv, TypeOK, MutexInv, HandInv, Inside, Sending, Goto, Acquire, Release, boxes, histories
  <2> QED
    BY <2>1, <2>2, <2>3 DEF IInv
<1>12. ASSUME NEW t \in Thread, TryTake(t) PROVE IInv'
  <2>1. valBox # Empty
    BY <1>12 DEF TryTake, IsNull, IInv, BoxesAgree
  <2> QED
    BY <1>12, <2>1, TakeFacts DEF TryTake, Inside
<1>13. ASSUME NEW t \in Thread, TimedLock(t) PROVE IInv'
  <2>1. BoxesAgree' /\ ExactlyOnce'
    BY <1>13, BoxesKept DEF TimedLock, IInv
  <2>2. TypeOK'
    <3>1. pc' \in [Thread -> PC] /\ owner' \in Thread \union {NoThread}
      BY <1>13 DEF TimedLock, SleepAndLoop, IInv, TypeOK, PC, Goto, Acquire
    <3>2. elapsed' \in [Thread -> 0..Timeout]
      <4> DEFINE next == IF elapsed[t] < Timeout THEN elapsed[t] + 1 ELSE elapsed[t]
      <4>1. elapsed[t] \in 0..Timeout
        BY DEF IInv, TypeOK
      <4>2. next \in 0..Timeout
        BY <4>1, TimeoutAssumption
      <4>3. elapsed' = elapsed \/ elapsed' = [elapsed EXCEPT ![t] = next]
        BY <1>13 DEF TimedLock, SleepAndLoop
      <4> QED
        BY <4>2, <4>3 DEF IInv, TypeOK
    <3> QED
      BY <1>13, <3>1, <3>2 DEF TimedLock, IInv, TypeOK, boxes, histories
  <2>3. MutexInv' /\ HandInv'
    BY <1>13, ThreadAssumption DEF TimedLock, IInv, TypeOK, MutexInv, HandInv, Inside, Sending, Goto, Acquire, Release, boxes, histories, SleepAndLoop
  <2> QED
    BY <2>1, <2>2, <2>3 DEF IInv
<1>14. ASSUME NEW t \in Thread, TimedNothing(t) PROVE IInv'
  <2>1. BoxesAgree' /\ ExactlyOnce'
    BY <1>14, BoxesKept DEF TimedNothing, IInv
  <2>2. TypeOK'
    BY <1>14 DEF TimedNothing, IInv, TypeOK, PC, Goto, Acquire, Release, boxes, histories
  <2>3. MutexInv' /\ HandInv'
    BY <1>14, ThreadAssumption DEF TimedNothing, IInv, TypeOK, MutexInv, HandInv, Inside, Sending, Goto, Acquire, Release, boxes, histories
  <2> QED
    BY <2>1, <2>2, <2>3 DEF IInv
<1>15. ASSUME NEW t \in Thread, TimedSleep(t) PROVE IInv'
  <2>1. BoxesAgree' /\ ExactlyOnce'
    BY <1>15, BoxesKept DEF TimedSleep, IInv
  <2>2. TypeOK'
    BY <1>15, TimeoutAssumption DEF TimedSleep, IInv, TypeOK, PC, Goto, Acquire, Release, boxes, histories, SleepAndLoop
  <2>3. MutexInv' /\ HandInv'
    BY <1>15, ThreadAssumption DEF TimedSleep, IInv, TypeOK, MutexInv, HandInv, Inside, Sending, Goto, Acquire, Release, boxes, histories, SleepAndLoop
  <2> QED
    BY <2>1, <2>2, <2>3 DEF IInv
<1>16. ASSUME NEW t \in Thread, TimedTake(t) PROVE IInv'
  <2>1. valBox # Empty
    BY <1>16 DEF TimedTake, IsNull, IInv, BoxesAgree
  <2> QED
    BY <1>16, <2>1, TakeFacts DEF TimedTake, Inside
<1>17. ASSUME NEW t \in Thread, Wakeup(t) PROVE IInv'
  <2>1. BoxesAgree' /\ ExactlyOnce'
    BY <1>17, BoxesKept DEF Wakeup, IInv
  <2>2. TypeOK'
    BY <1>17 DEF Wakeup, IInv, TypeOK, PC, Goto, Acquire, Release, boxes, histories, Woken
  <2>3. MutexInv' /\ HandInv'
    BY <1>17, ThreadAssumption DEF Wakeup, IInv, TypeOK, MutexInv, HandInv, Inside, Sending, Goto, Acquire, Release, boxes, histories, Woken
  <2> QED
    BY <2>1, <2>2, <2>3 DEF IInv
<1>18. CASE UNCHANGED vars
    BY <1>18 DEF IInv, TypeOK, MutexInv, HandInv, BoxesAgree, ExactlyOnce, Slot, vars
<1> QED
    BY <1>1, <1>2, <1>3, <1>4, <1>5, <1>6, <1>7, <1>8, <1>9, <1>10, <1>11, <1>12,
       <1>13, <1>14, <1>15, <1>16, <1>17, <1>18
    DEF Next, Step, Put, Get, Try, Timed, Stop

\* The invariant holds in every reachable state.
LEMMA IInvAlways == Spec => []IInv
    BY InitIInv, NextIInv, PTL DEF Spec

\* Whatever the threads do, the variables keep their types.
THEOREM TypeCorrect == Spec => []TypeOK
    BY IInvAlways, PTL DEF IInv

\* Messages are delivered exactly once and in the order they were put, for any
\* number of threads mixing the four operations, spurious wakeups included.
THEOREM Delivery == Spec => []ExactlyOnce
    BY IInvAlways, PTL DEF IInv

\* The flag and the value box always agree, whether or not some messages are
\* represented by the empty list.
THEOREM Agreement == Spec => []BoxesAgree
    BY IInvAlways, PTL DEF IInv

-----------------------------------------------------------------------------
Looking == {"tryTest", "timedTest"}
Looked ==
    \A t \in Thread :
        /\ pc[t] \in Looking
        /\ pc'[t] # pc[t]
        => (pc'[t] = "takeSignal" <=> ~readBox /\ valBox \notin NullMsgs)

\* A step of a thread that is not about to look at val-box.
LEMMA LooksAway ==
    ASSUME IInv, NEW u \in Thread, NEW l, pc[u] \notin Looking,
           \/ pc' = [pc EXCEPT ![u] = l]
           \/ \E cv \in {"putWait", "getWait"} : SignalAndGoto(u, cv, l)
    PROVE  Looked
<1>1. CASE pc' = [pc EXCEPT ![u] = l]
    BY <1>1 DEF IInv, TypeOK, Looked
<1>2. ASSUME NEW cv \in {"putWait", "getWait"}, NEW w \in WaitingOn(cv),
             pc' = [pc EXCEPT ![u] = l, ![w] = Woken(cv)]
      PROVE  Looked
    BY <1>2 DEF IInv, TypeOK, Looked, Looking, WaitingOn
<1> QED
    BY <1>1, <1>2 DEF SignalAndGoto, Goto

\* What the thread that looks finds.
LEMMA LookFinds ==
    ASSUME IInv, NEW u \in Thread, NEW l, pc' = [pc EXCEPT ![u] = l],
           l = "takeSignal" <=> ~IsNull(valBox)
    PROVE  Looked
<1>1. IsNull(valBox) <=> readBox \/ valBox \in NullMsgs
    BY DEF IsNull, IInv, BoxesAgree
<1> QED
    BY <1>1 DEF IInv, TypeOK, Looked

\* A polling get goes on to take exactly when the boxes have a message that is
\* not null at run time.
LEMMA NextLooked == IInv /\ [Next]_vars => Looked
<1> SUFFICES ASSUME IInv, [Next]_vars PROVE Looked
    OBVIOUS
<1>1. ASSUME NEW u \in Thread, NEW op \in Operation, Call(u, op) PROVE Looked
    BY <1>1, LooksAway DEF Call, Goto, Looking
<1>2. ASSUME NEW u \in Thread, PutLock(u) \/ PutWait(u) \/ PutStore(u) \/ GetLock(u) \/ GetWait(u)
      PROVE  Looked
    BY <1>2, LooksAway DEF PutLock, PutWait, PutStore, GetLock, GetWait, Goto, Looking
<1>3. ASSUME NEW u \in Thread, PutSignal(u) \/ TakeSignal(u) PROVE Looked
    BY <1>3, LooksAway DEF PutSignal, TakeSignal, Looking
<1>4. ASSUME NEW u \in Thread, GetTake(u) \/ TryLock(u) \/ TimedLock(u) \/ Wakeup(u) PROVE Looked
    BY <1>4, LooksAway
    DEF GetTake, TakeValue, TryLock, TimedLock, SleepAndLoop, Wakeup, Goto, Looking
<1>5. ASSUME NEW u \in Thread, TryNothing(u) \/ TimedNothing(u) \/ TimedSleep(u) PROVE Looked
    BY <1>5, LookFinds DEF TryNothing, TimedNothing, TimedSleep, SleepAndLoop, Goto
<1>6. ASSUME NEW u \in Thread, TryTake(u) \/ TimedTake(u) PROVE Looked
    BY <1>6, LookFinds DEF TryTake, TimedTake, TakeValue, Goto
<1>7. CASE UNCHANGED vars
    BY <1>7 DEF vars, Looked
<1> QED
    BY <1>1, <1>2, <1>3, <1>4, <1>5, <1>6, <1>7
    DEF Next, Step, Put, Get, Try, Timed, Stop

\* A Maybe get finds a message exactly when a blocking get would, whatever else
\* happens, unless the message is compiled to the empty list.
THEOREM MaybeGets == Spec => MaybeGetTakes
    BY IInvAlways, NextLooked, PTL DEF Spec, MaybeGetTakes, Looked, Looking
-----------------------------------------------------------------------------
\* A step that leaves read-box alone and moves one thread, neither away from
\* the program points that promise a wakeup nor to sleep.
LEMMA WakeupKept ==
    ASSUME IInv, NoLostWakeup, NEW t \in Thread, NEW l,
           readBox' = readBox, pc' = [pc EXCEPT ![t] = l],
           l \notin {"getWait", "putWait"},
           pc[t] \notin {"putSignal", "getTest", "takeSignal", "putTest"},
           pc[t] = "getLock" => l = "getTest",
           pc[t] = "putLock" => l = "putTest"
    PROVE  NoLostWakeup'
<1>1. \A u \in Thread : pc'[u] = IF u = t THEN l ELSE pc[u]
    BY DEF IInv, TypeOK
<1>2. \A cv \in {"getWait", "putWait"} : WaitingOn(cv)' \subseteq WaitingOn(cv)
    BY <1>1 DEF WaitingOn
<1>3. Getters({"putSignal", "getLock", "getTest"}) \subseteq Getters({"putSignal", "getLock", "getTest"})'
    BY <1>1 DEF Getters
<1>4. Getters({"takeSignal", "putLock", "putTest"}) \subseteq Getters({"takeSignal", "putLock", "putTest"})'
    BY <1>1 DEF Getters
<1> QED
    BY <1>2, <1>3, <1>4 DEF NoLostWakeup

\* A thread that signals wakes a sleeper of the kind it signals, if there is one.
LEMMA WakeupSignalled ==
    ASSUME IInv, NoLostWakeup, NEW t \in Thread, readBox' = readBox,
           \/ pc[t] = "putSignal" /\ SignalAndGoto(t, "getWait", "idle")
           \/ pc[t] = "takeSignal" /\ SignalAndGoto(t, "putWait", "idle")
    PROVE  NoLostWakeup'
<1>1. ASSUME NEW cv \in {"getWait", "putWait"}, WaitingOn(cv) = {},
             pc' = [pc EXCEPT ![t] = "idle"],
             pc[t] = IF cv = "getWait" THEN "putSignal" ELSE "takeSignal"
      PROVE  NoLostWakeup'
    BY <1>1 DEF IInv, TypeOK, NoLostWakeup, WaitingOn, Getters
<1>2. ASSUME NEW cv \in {"getWait", "putWait"}, NEW w \in WaitingOn(cv),
             pc' = [pc EXCEPT ![t] = "idle", ![w] = Woken(cv)],
             pc[t] = IF cv = "getWait" THEN "putSignal" ELSE "takeSignal"
      PROVE  NoLostWakeup'
  <2>1. w \in Thread /\ pc[w] = cv /\ w # t
    BY <1>2 DEF WaitingOn
  <2>2. \A u \in Thread : pc'[u] = IF u = w THEN Woken(cv) ELSE IF u = t THEN "idle" ELSE pc[u]
    BY <1>2, <2>1 DEF IInv, TypeOK
  <2>3. CASE cv = "getWait"
    <3>1. w \in Getters({"putSignal", "getLock", "getTest"})'
      BY <2>1, <2>2, <2>3 DEF Getters, Woken
    <3>2. WaitingOn("putWait")' = WaitingOn("putWait")
      BY <2>1, <2>2, <2>3 DEF WaitingOn, Woken
    <3>3. Getters({"takeSignal", "putLock", "putTest"}) \subseteq Getters({"takeSignal", "putLock", "putTest"})'
      BY <1>2, <2>1, <2>2, <2>3 DEF Getters
    <3> QED
      BY <3>1, <3>2, <3>3 DEF NoLostWakeup
  <2>4. CASE cv = "putWait"
    <3>1. w \in Getters({"takeSignal", "putLock", "putTest"})'
      BY <2>1, <2>2, <2>4 DEF Getters, Woken
    <3>2. WaitingOn("getWait")' = WaitingOn("getWait")
      BY <2>1, <2>2, <2>4 DEF WaitingOn, Woken
    <3>3. Getters({"putSignal", "getLock", "getTest"}) \subseteq Getters({"putSignal", "getLock", "getTest"})'
      BY <1>2, <2>1, <2>2, <2>4 DEF Getters
    <3> QED
      BY <3>1, <3>2, <3>3 DEF NoLostWakeup
  <2> QED
    BY <2>3, <2>4
<1> QED
    BY <1>1, <1>2 DEF SignalAndGoto, Goto

\* A thread that has filled or emptied the slot is about to signal; a thread
\* that goes to sleep has seen that there is nothing to wake it for.
LEMMA NextWakeup == IInv /\ NoLostWakeup /\ [Next]_vars => NoLostWakeup'
<1> SUFFICES ASSUME IInv, NoLostWakeup, [Next]_vars PROVE NoLostWakeup'
    OBVIOUS
<1>1. ASSUME NEW t \in Thread, NEW op \in Operation, Call(t, op) PROVE NoLostWakeup'
  <2>1. First(op) \in {"putLock", "getLock", "try", "timed"}
    BY DEF First, Operation
  <2> QED
    BY <1>1, <2>1, WakeupKept DEF Call, Goto, boxes
<1>2. ASSUME NEW t \in Thread, PutLock(t) PROVE NoLostWakeup'
    BY <1>2, WakeupKept DEF PutLock, Goto, boxes
<1>3. ASSUME NEW t \in Thread, PutWait(t) PROVE NoLostWakeup'
    BY <1>3 DEF PutWait, IInv, TypeOK, NoLostWakeup, WaitingOn, Getters, Goto, boxes
<1>4. ASSUME NEW t \in Thread, PutStore(t) PROVE NoLostWakeup'
    BY <1>4 DEF PutStore, IInv, TypeOK, NoLostWakeup, WaitingOn, Getters, Goto, boxes
<1>5. ASSUME NEW t \in Thread, PutSignal(t) PROVE NoLostWakeup'
    BY <1>5, WakeupSignalled DEF PutSignal, boxes
<1>6. ASSUME NEW t \in Thread, GetLock(t) PROVE NoLostWakeup'
    BY <1>6, WakeupKept DEF GetLock, Goto, boxes
<1>7. ASSUME NEW t \in Thread, GetWait(t) PROVE NoLostWakeup'
    BY <1>7 DEF GetWait, IInv, TypeOK, NoLostWakeup, WaitingOn, Getters, Goto, boxes
<1>8. ASSUME NEW t \in Thread, GetTake(t) PROVE NoLostWakeup'
    BY <1>8 DEF GetTake, TakeValue, IInv, TypeOK, NoLostWakeup, WaitingOn, Getters, Goto, boxes
<1>9. ASSUME NEW t \in Thread, TakeSignal(t) PROVE NoLostWakeup'
    BY <1>9, WakeupSignalled DEF TakeSignal, boxes
<1>10. ASSUME NEW t \in Thread, TryLock(t) PROVE NoLostWakeup'
    BY <1>10, WakeupKept DEF TryLock, Goto, boxes
<1>11. ASSUME NEW t \in Thread, TryNothing(t) PROVE NoLostWakeup'
    BY <1>11, WakeupKept DEF TryNothing, Goto, boxes
<1>12. ASSUME NEW t \in Thread, TryTake(t) PROVE NoLostWakeup'
    BY <1>12 DEF TryTake, TakeValue, IInv, TypeOK, NoLostWakeup, WaitingOn, Getters, Goto, boxes
<1>13. ASSUME NEW t \in Thread, TimedLock(t) PROVE NoLostWakeup'
    BY <1>13, WakeupKept DEF TimedLock, Goto, boxes, SleepAndLoop
<1>14. ASSUME NEW t \in Thread, TimedNothing(t) PROVE NoLostWakeup'
    BY <1>14, WakeupKept DEF TimedNothing, Goto, boxes
<1>15. ASSUME NEW t \in Thread, TimedSleep(t) PROVE NoLostWakeup'
    BY <1>15, WakeupKept DEF TimedSleep, Goto, boxes, SleepAndLoop
<1>16. ASSUME NEW t \in Thread, TimedTake(t) PROVE NoLostWakeup'
    BY <1>16 DEF TimedTake, TakeValue, IInv, TypeOK, NoLostWakeup, WaitingOn, Getters, Goto, boxes
<1>17. ASSUME NEW t \in Thread, Wakeup(t) PROVE NoLostWakeup'
  <2>1. CASE pc[t] = "putWait"
    <3>1. pc' = [pc EXCEPT ![t] = "putLock"] /\ readBox' = readBox
      BY <1>17, <2>1 DEF Wakeup, Woken, Goto, boxes
    <3>2. /\ pc[t] \notin {"putSignal", "getTest", "takeSignal", "putTest", "getLock", "putLock"}
          /\ "putLock" \notin {"getWait", "putWait"}
      BY <2>1
    <3> QED
      BY <3>1, <3>2, WakeupKept, Zenon
  <2>2. CASE pc[t] = "getWait"
    <3>1. pc' = [pc EXCEPT ![t] = "getLock"] /\ readBox' = readBox
      BY <1>17, <2>2 DEF Wakeup, Woken, Goto, boxes
    <3> QED
      BY <2>2, <3>1, WakeupKept
  <2> QED
    BY <1>17, <2>1, <2>2 DEF Wakeup
<1>18. CASE UNCHANGED vars
    BY <1>18 DEF NoLostWakeup, WaitingOn, Getters, vars
<1> QED
    BY <1>1, <1>2, <1>3, <1>4, <1>5, <1>6, <1>7, <1>8, <1>9, <1>10, <1>11, <1>12, <1>13, <1>14, <1>15, <1>16, <1>17, <1>18
    DEF Next, Step, Put, Get, Try, Timed, Stop

\* No sleeper is ever forgotten, although signals are sent after the mutex has
\* been released and each wakes one thread only.
THEOREM Wakeups == Spec => []NoLostWakeup
<1>1. Init => NoLostWakeup
    BY DEF Init, NoLostWakeup, WaitingOn
<1> QED
    BY <1>1, IInvAlways, NextWakeup, PTL DEF Spec
-----------------------------------------------------------------------------
\* A channel that nobody has called yet is an empty abstract channel.
LEMMA InitAbstract == Init => Abstract!Init
    BY DEF Init, Abstract!Init, Slot, AbstractPhase, Nothing, Abstract!Nothing

\* A step that moves the program counter of t alone sets its abstract phase.
LEMMA PhaseOfMove ==
    ASSUME IInv, NEW t \in Thread, NEW l \in PC, pc' = [pc EXCEPT ![t] = l],
           NEW p, AbstractPhase(t)' = p
    PROVE  [u \in Thread |-> AbstractPhase(u)]'
             = [[u \in Thread |-> AbstractPhase(u)] EXCEPT ![t] = p]
<1>1. \A u \in Thread \ {t} : pc'[u] = pc[u]
    BY DEF IInv, TypeOK
<1>2. \A u \in Thread \ {t} : AbstractPhase(u)' = AbstractPhase(u)
    BY <1>1 DEF AbstractPhase
<1> QED
    BY <1>2

\* A signal moves two program counters, and a woken thread keeps its phase.
LEMMA PhaseOfSignal ==
    ASSUME IInv, NEW t \in Thread, NEW cv \in {"putWait", "getWait"},
           SignalAndGoto(t, cv, "idle"), pc[t] # cv
    PROVE  [u \in Thread |-> AbstractPhase(u)]'
             = [[u \in Thread |-> AbstractPhase(u)] EXCEPT ![t] = "idle"]
<1>1. CASE pc' = [pc EXCEPT ![t] = "idle"]
  <2>1. pc'[t] = "idle"
    BY <1>1 DEF IInv, TypeOK
  <2>2. AbstractPhase(t)' = "idle"
    BY <2>1 DEF AbstractPhase
  <2> QED
    BY <1>1, <2>2, PhaseOfMove DEF PC
<1>2. ASSUME NEW w \in WaitingOn(cv), pc' = [pc EXCEPT ![t] = "idle", ![w] = Woken(cv)]
      PROVE  [u \in Thread |-> AbstractPhase(u)]'
               = [[u \in Thread |-> AbstractPhase(u)] EXCEPT ![t] = "idle"]
  <2>1. w \in Thread /\ pc[w] = cv /\ w # t
    BY <1>2 DEF WaitingOn
  <2>2. \A u \in Thread : pc'[u] = IF u = w THEN Woken(cv) ELSE IF u = t THEN "idle" ELSE pc[u]
    BY <1>2, <2>1 DEF IInv, TypeOK
  <2>3. AbstractPhase(w)' = AbstractPhase(w)
    BY <2>1, <2>2 DEF AbstractPhase, Woken
  <2>4. AbstractPhase(t)' = "idle"
    BY <2>1, <2>2 DEF AbstractPhase
  <2>5. \A u \in Thread \ {t, w} : AbstractPhase(u)' = AbstractPhase(u)
    BY <2>2 DEF AbstractPhase
  <2> QED
    BY <2>1, <2>3, <2>4, <2>5
<1> QED
    BY <1>1, <1>2 DEF SignalAndGoto, Goto

\* The abstract phases, as one value.
Phases == [u \in Thread |-> AbstractPhase(u)]

\* A step that moves t alone, within one abstract phase, and changes neither
\* slot nor hands nor histories is invisible.
LEMMA Invisible ==
    ASSUME IInv, NEW t \in Thread, NEW l \in PC,
           pc' = pc \/ pc' = [pc EXCEPT ![t] = l],
           NEW p, AbstractPhase(t) = p, pc' # pc => AbstractPhase(t)' = p,
           UNCHANGED <<readBox, valBox, hand, sent, received>>
    PROVE  UNCHANGED Abstract!vars
<1>1. Phases' = Phases
  <2>1. CASE pc' = pc
    BY <2>1 DEF Phases, AbstractPhase
  <2>2. CASE pc' # pc
    <3>1. Phases' = [Phases EXCEPT ![t] = p]
      BY <2>2, PhaseOfMove DEF Phases
    <3> QED
      BY <3>1 DEF Phases
  <2> QED
    BY <2>1, <2>2
<1> QED
    BY <1>1 DEF Abstract!vars, Phases, Slot

\* A step by which t gives up with nothing is a return of the abstract call.
LEMMA GivesUp ==
    ASSUME IInv, NEW t \in Thread, pc[t] \in {"try", "tryTest", "timed", "timedTest"},
           pc' = [pc EXCEPT ![t] = "idle"],
           UNCHANGED <<readBox, valBox, hand, sent, received>>
    PROVE  Abstract!Return(t)
<1>1. AbstractPhase(t) = "trying"
    BY DEF AbstractPhase
<1>2. pc'[t] = "idle"
    BY DEF IInv, TypeOK
<1>3. AbstractPhase(t)' = "idle"
    BY <1>2 DEF AbstractPhase
<1>4. Phases' = [Phases EXCEPT ![t] = "idle"]
    BY <1>3, PhaseOfMove DEF Phases, PC
<1>5. hand[t] = Nothing /\ hand' = [hand EXCEPT ![t] = Nothing]
    BY DEF IInv, TypeOK, HandInv, Sending
<1> QED
    BY <1>1, <1>4, <1>5 DEF Abstract!Return, Phases, Slot, Nothing, Abstract!Nothing

\* The critical section of a get is the abstract get taking effect.
LEMMA TakesAbstractly ==
    ASSUME IInv, NEW t \in Thread, pc[t] \in {"getTest", "tryTest", "timedTest"},
           ~readBox, TakeValue(t)
    PROVE  Abstract!Take(t)
<1>1. AbstractPhase(t) \in {"getting", "trying"}
    BY DEF AbstractPhase
<1>2. pc'[t] = "takeSignal"
    BY DEF IInv, TypeOK, TakeValue, Goto
<1>3. AbstractPhase(t)' = "got"
    BY <1>2 DEF AbstractPhase
<1>4. Phases' = [Phases EXCEPT ![t] = "got"]
    BY <1>3, PhaseOfMove DEF Phases, PC, TakeValue, Goto
<1>5. Slot = <<valBox>> /\ Slot' = <<>>
    BY DEF Slot, TakeValue
<1> QED
    BY <1>1, <1>4, <1>5 DEF Abstract!Take, Phases, TakeValue

\* Every step of the run time is a step of the abstract channel, or none.
LEMMA NextAbstract == IInv /\ [Next]_vars => [Abstract!Next]_(Abstract!vars)
<1> SUFFICES ASSUME IInv, [Next]_vars PROVE [Abstract!Next]_(Abstract!vars)
    OBVIOUS
<1> USE DEF Phases
<1>1. ASSUME NEW t \in Thread, NEW op \in Operation, Call(t, op)
      PROVE  Abstract!Next
  <2>1. AbstractPhase(t) = "idle" /\ hand[t] = Nothing
    BY <1>1 DEF Call, AbstractPhase, IInv, HandInv, Sending
  <2>2. pc'[t] = First(op) /\ pc' = [pc EXCEPT ![t] = First(op)] /\ First(op) \in PC
    BY <1>1 DEF Call, Goto, IInv, TypeOK, First, Operation, PC
  <2>3. CASE op = "put"
    <3>1. AbstractPhase(t)' = "putting"
      BY <2>2, <2>3 DEF First, AbstractPhase
    <3>2. Phases' = [Phases EXCEPT ![t] = "putting"]
      BY <2>2, <3>1, PhaseOfMove
    <3>3. <<t, calls[t] + 1>> \in Message
      BY <1>1, CallMessage DEF Call, IInv
    <3>4. Abstract!CallPut(t, <<t, calls[t] + 1>>)
      BY <1>1, <2>1, <2>3, <3>2 DEF Call, Abstract!CallPut, Slot, boxes, histories
    <3> QED
      BY <3>3, <3>4 DEF Abstract!Next
  <2>4. CASE op # "put"
    <3> DEFINE how == IF op = "get" THEN "getting" ELSE "trying"
    <3>1. AbstractPhase(t)' = how
      BY <2>2, <2>4 DEF First, AbstractPhase, Operation
    <3>2. Phases' = [Phases EXCEPT ![t] = how]
      BY <2>2, <3>1, PhaseOfMove
    <3>3. hand' = hand
      BY <1>1, <2>1, <2>4 DEF Call, IInv, TypeOK
    <3>4. Abstract!CallGet(t, how)
      BY <1>1, <2>1, <3>2, <3>3 DEF Call, Abstract!CallGet, Slot, boxes, histories
    <3> QED
      BY <3>4 DEF Abstract!Next
  <2> QED
    BY <2>3, <2>4
<1>2. ASSUME NEW t \in Thread, PutLock(t) PROVE UNCHANGED Abstract!vars
  <2>1. AbstractPhase(t) = "putting"
    BY <1>2 DEF PutLock, AbstractPhase
  <2>2. pc' = [pc EXCEPT ![t] = "putTest"] /\ "putTest" \in PC
    BY <1>2 DEF PutLock, Goto, PC
  <2>3. AbstractPhase(t)' = "putting"
    BY <2>2 DEF AbstractPhase, IInv, TypeOK
  <2> QED
    BY <1>2, <2>1, <2>2, <2>3, Invisible DEF PutLock, boxes, histories
<1>3. ASSUME NEW t \in Thread, PutWait(t) PROVE UNCHANGED Abstract!vars
  <2>1. AbstractPhase(t) = "putting"
    BY <1>3 DEF PutWait, AbstractPhase
  <2>2. pc' = [pc EXCEPT ![t] = "putWait"] /\ "putWait" \in PC
    BY <1>3 DEF PutWait, Goto, PC
  <2>3. AbstractPhase(t)' = "putting"
    BY <2>2 DEF AbstractPhase, IInv, TypeOK
  <2> QED
    BY <1>3, <2>1, <2>2, <2>3, Invisible DEF PutWait, boxes, histories
<1>4. ASSUME NEW t \in Thread, PutStore(t) PROVE Abstract!Store(t)
  <2>1. AbstractPhase(t) = "putting"
    BY <1>4 DEF PutStore, AbstractPhase
  <2>2. pc' = [pc EXCEPT ![t] = "putSignal"] /\ "putSignal" \in PC
    BY <1>4 DEF PutStore, Goto, PC
  <2>3. AbstractPhase(t)' = "put"
    BY <2>2 DEF AbstractPhase, IInv, TypeOK
  <2>4. Phases' = [Phases EXCEPT ![t] = "put"]
    BY <2>2, <2>3, PhaseOfMove
  <2>5. Slot = <<>> /\ Slot' = <<hand[t]>>
    BY <1>4 DEF PutStore, Slot
  <2> QED
    BY <1>4, <2>1, <2>4, <2>5 DEF PutStore, Abstract!Store
<1>5. ASSUME NEW t \in Thread, PutSignal(t) PROVE Abstract!Return(t)
  <2>1. AbstractPhase(t) = "put"
    BY <1>5 DEF PutSignal, AbstractPhase
  <2>2. Phases' = [Phases EXCEPT ![t] = "idle"]
    BY <1>5, PhaseOfSignal DEF PutSignal
  <2> QED
    BY <1>5, <2>1, <2>2 DEF PutSignal, Abstract!Return, Slot, boxes, histories, Nothing, Abstract!Nothing
<1>6. ASSUME NEW t \in Thread, GetLock(t) PROVE UNCHANGED Abstract!vars
  <2>1. AbstractPhase(t) = "getting"
    BY <1>6 DEF GetLock, AbstractPhase
  <2>2. pc' = [pc EXCEPT ![t] = "getTest"] /\ "getTest" \in PC
    BY <1>6 DEF GetLock, Goto, PC
  <2>3. AbstractPhase(t)' = "getting"
    BY <2>2 DEF AbstractPhase, IInv, TypeOK
  <2> QED
    BY <1>6, <2>1, <2>2, <2>3, Invisible DEF GetLock, boxes, histories
<1>7. ASSUME NEW t \in Thread, GetWait(t) PROVE UNCHANGED Abstract!vars
  <2>1. AbstractPhase(t) = "getting"
    BY <1>7 DEF GetWait, AbstractPhase
  <2>2. pc' = [pc EXCEPT ![t] = "getWait"] /\ "getWait" \in PC
    BY <1>7 DEF GetWait, Goto, PC
  <2>3. AbstractPhase(t)' = "getting"
    BY <2>2 DEF AbstractPhase, IInv, TypeOK
  <2> QED
    BY <1>7, <2>1, <2>2, <2>3, Invisible DEF GetWait, boxes, histories
<1>8. ASSUME NEW t \in Thread, GetTake(t) PROVE Abstract!Take(t)
    BY <1>8, TakesAbstractly DEF GetTake, IsNull, IInv, BoxesAgree
<1>9. ASSUME NEW t \in Thread, TakeSignal(t) PROVE Abstract!Return(t)
  <2>1. AbstractPhase(t) = "got"
    BY <1>9 DEF TakeSignal, AbstractPhase
  <2>2. Phases' = [Phases EXCEPT ![t] = "idle"]
    BY <1>9, PhaseOfSignal DEF TakeSignal
  <2> QED
    BY <1>9, <2>1, <2>2 DEF TakeSignal, Abstract!Return, Slot, boxes, histories, Nothing, Abstract!Nothing
<1>10. ASSUME NEW t \in Thread, TryLock(t) PROVE Abstract!Return(t) \/ UNCHANGED Abstract!vars
  <2>1. CASE Goto(t, "tryTest")
    <3>1. AbstractPhase(t) = "trying"
      BY <1>10 DEF TryLock, AbstractPhase
    <3>2. pc' = [pc EXCEPT ![t] = "tryTest"] /\ "tryTest" \in PC
      BY <2>1 DEF Goto, PC
    <3>3. AbstractPhase(t)' = "trying"
      BY <3>2 DEF AbstractPhase, IInv, TypeOK
    <3> QED
      BY <1>10, <3>1, <3>2, <3>3, Invisible DEF TryLock, boxes, histories
  <2>2. CASE Goto(t, "idle")
    BY <1>10, <2>2, GivesUp DEF TryLock, Goto, boxes, histories
  <2> QED
    BY <1>10, <2>1, <2>2 DEF TryLock
<1>11. ASSUME NEW t \in Thread, TryNothing(t) PROVE Abstract!Return(t)
    BY <1>11, GivesUp DEF TryNothing, Goto, boxes, histories
<1>12. ASSUME NEW t \in Thread, TryTake(t) PROVE Abstract!Take(t)
    BY <1>12, TakesAbstractly DEF TryTake, IsNull, IInv, BoxesAgree
<1>13. ASSUME NEW t \in Thread, TimedLock(t) PROVE UNCHANGED Abstract!vars
  <2>1. AbstractPhase(t) = "trying"
    BY <1>13 DEF TimedLock, AbstractPhase
  <2>2. PICK l \in {"timed", "timedTest"} : pc' = [pc EXCEPT ![t] = l]
    BY <1>13 DEF TimedLock, SleepAndLoop, Goto
  <2>3. AbstractPhase(t)' = "trying"
    BY <2>2 DEF AbstractPhase, IInv, TypeOK
  <2> QED
    BY <1>13, <2>1, <2>2, <2>3, Invisible DEF TimedLock, boxes, histories, PC
<1>14. ASSUME NEW t \in Thread, TimedNothing(t) PROVE Abstract!Return(t)
    BY <1>14, GivesUp DEF TimedNothing, Goto, boxes, histories
<1>15. ASSUME NEW t \in Thread, TimedSleep(t) PROVE UNCHANGED Abstract!vars
  <2>1. AbstractPhase(t) = "trying"
    BY <1>15 DEF TimedSleep, AbstractPhase
  <2>2. pc' = [pc EXCEPT ![t] = "timed"] /\ "timed" \in PC
    BY <1>15 DEF TimedSleep, Goto, PC, SleepAndLoop
  <2>3. AbstractPhase(t)' = "trying"
    BY <2>2 DEF AbstractPhase, IInv, TypeOK
  <2> QED
    BY <1>15, <2>1, <2>2, <2>3, Invisible DEF TimedSleep, boxes, histories
<1>16. ASSUME NEW t \in Thread, TimedTake(t) PROVE Abstract!Take(t)
    BY <1>16, TakesAbstractly DEF TimedTake, IsNull, IInv, BoxesAgree
<1>17. ASSUME NEW t \in Thread, Wakeup(t) PROVE UNCHANGED Abstract!vars
  <2> DEFINE ph == IF pc[t] = "putWait" THEN "putting" ELSE "getting"
  <2>1. AbstractPhase(t) = ph
    BY <1>17 DEF Wakeup, AbstractPhase
  <2>2. pc' = [pc EXCEPT ![t] = Woken(pc[t])] /\ Woken(pc[t]) \in PC
    BY <1>17 DEF Wakeup, Goto, Woken, PC
  <2>3. AbstractPhase(t)' = ph
    BY <1>17, <2>2 DEF AbstractPhase, IInv, TypeOK, Woken, Wakeup
  <2> QED
    BY <1>17, <2>1, <2>2, <2>3, Invisible DEF Wakeup, boxes, histories
<1>18. CASE UNCHANGED vars
    BY <1>18 DEF vars, Abstract!vars, AbstractPhase, Slot
<1> QED
    BY <1>1, <1>2, <1>3, <1>4, <1>5, <1>6, <1>7, <1>8, <1>9, <1>10, <1>11, <1>12, <1>13, <1>14, <1>15, <1>16, <1>17, <1>18
    DEF Next, Step, Put, Get, Try, Timed, Stop, Abstract!Next

\* The Chez channel implements the channel of System.Concurrency, for every
\* script of calls: each call takes effect at one instant.
THEOREM Refinement == Spec => ImplementsChannel
    BY InitAbstract, IInvAlways, NextAbstract, PTL DEF Spec, ImplementsChannel, Abstract!Spec
=============================================================================
