---------------------------- MODULE ChezChannel ----------------------------
(***************************************************************************)
(* The channel of the Chez Scheme run time (support/chez/support.ss): a    *)
(* mutex, a box that holds the message, a box that says whether it has     *)
(* been read, and a condition variable for each of the two boxes.          *)
(*                                                                         *)
(* A thread's program counter names the next thing it does: ...Lock wants  *)
(* the mutex, ...Test holds it, ...Wait sleeps on a condition variable     *)
(* with the mutex released, ...Signal has released the mutex and not yet   *)
(* signalled.  What runs between taking the mutex and releasing it is one  *)
(* step, because the boxes are only touched with the mutex held.           *)
(***************************************************************************)
EXTENDS Integers, Sequences

CONSTANTS
    Thread,     \* threads that share the channel
    Does,       \* Does[t]: the operations t calls
    Quota,      \* Quota[t]: how many calls t makes in its life
    NullMsgs,   \* messages whose run-time representation is '() (Nil, Nothing)
    Timeout,    \* 10 us steps after which a timed get gives up
    Spurious    \* TRUE: condition-wait may return without a signal

NoThread == <<"nobody">>
Empty == <<"empty">>        \* '() stored in val-box when there is no message
Nothing == <<"nothing">>    \* a local variable not in use

Operation == {"put", "get", "try", "timed"}

ASSUME ThreadAssumption == NoThread \notin Thread
ASSUME ScriptAssumption ==
    /\ Does \in [Thread -> SUBSET Operation]
    /\ Quota \in [Thread -> Nat]
ASSUME TimeoutAssumption == Timeout \in Nat
ASSUME SpuriousAssumption == Spurious \in BOOLEAN

\* The k-th call of thread t, when it is a put, sends <<t, k>>.
Message == UNION {{t} \X (1..Quota[t]) : t \in Thread}

ASSUME MessageAssumption ==
    /\ NullMsgs \subseteq Message
    /\ Empty \notin Message
    /\ Nothing \notin Message

VARIABLES
    owner,      \* who holds read-mut
    readBox,    \* read-box: TRUE when the message has been read
    valBox,     \* val-box
    pc,         \* each thread's program counter
    hand,       \* the val of a put, the the-val of a get
    elapsed,    \* elapsed of a timed get, in 10 us steps, up to Timeout
    calls,      \* calls[t]: how many calls t has started
    sent,       \* history: every message stored
    received    \* history: every message taken

vars == <<owner, readBox, valBox, pc, hand, elapsed, calls, sent, received>>
histories == <<sent, received>>
boxes == <<readBox, valBox>>

PC == {"idle", "putLock", "putTest", "putWait", "putSignal",
       "getLock", "getTest", "getWait", "takeSignal",
       "try", "tryTest", "timed", "timedTest"}

-----------------------------------------------------------------------------
\* blodwen-make-channel, before any thread has called the channel.
Init ==
    /\ owner = NoThread
    /\ readBox = TRUE
    /\ valBox = Empty
    /\ pc = [t \in Thread |-> "idle"]
    /\ hand = [t \in Thread |-> Nothing]
    /\ elapsed = [t \in Thread |-> 0]
    /\ calls = [t \in Thread |-> 0]
    /\ sent = <<>>
    /\ received = <<>>

Goto(t, l) == pc' = [pc EXCEPT ![t] = l]

\* null? on the contents of val-box
IsNull(v) == v = Empty \/ v \in NullMsgs

Acquire(t) == owner = NoThread /\ owner' = t
Release(t) == owner = t /\ owner' = NoThread

WaitingOn(cv) == {t \in Thread : pc[t] = cv}
Woken(cv) == IF cv = "putWait" THEN "putLock" ELSE "getLock"

\* condition-signal by t, which goes on to l: one sleeper, if there is one,
\* goes back to contend for the mutex.
SignalAndGoto(t, cv, l) ==
    \/ /\ WaitingOn(cv) = {}
       /\ Goto(t, l)
    \/ \E w \in WaitingOn(cv) :
          pc' = [pc EXCEPT ![t] = l, ![w] = Woken(cv)]

-----------------------------------------------------------------------------
\* A thread calls one of the operations in its script.
First(op) ==
    CASE op = "put" -> "putLock"
      [] op = "get" -> "getLock"
      [] op = "try" -> "try"
      [] op = "timed" -> "timed"

Call(t, op) ==
    /\ pc[t] = "idle"
    /\ calls[t] < Quota[t]
    /\ op \in Does[t]
    /\ calls' = [calls EXCEPT ![t] = @ + 1]
    /\ Goto(t, First(op))
    /\ hand' = [hand EXCEPT ![t] =
                   IF op = "put" THEN <<t, calls[t] + 1>> ELSE Nothing]
    /\ elapsed' = [elapsed EXCEPT ![t] = 0]
    /\ UNCHANGED <<owner, boxes, histories>>

\* with-mutex of blodwen-channel-put, and the end of condition-wait in
\* channel-put-while-helper
PutLock(t) ==
    /\ pc[t] = "putLock"
    /\ Acquire(t)
    /\ Goto(t, "putTest")
    /\ UNCHANGED <<boxes, hand, elapsed, calls, histories>>

\* channel-put-while-helper: the last message has not been read
PutWait(t) ==
    /\ pc[t] = "putTest"
    /\ ~readBox
    /\ Release(t)
    /\ Goto(t, "putWait")
    /\ UNCHANGED <<boxes, hand, elapsed, calls, histories>>

\* Mutant: the flag is not looked at again after condition-wait returns.
PutStoreUntested(t) ==
    /\ pc[t] = "putTest"
    /\ valBox' = hand[t]
    /\ readBox' = FALSE
    /\ Release(t)
    /\ Goto(t, "putSignal")
    /\ sent' = Append(sent, hand[t])
    /\ UNCHANGED <<hand, elapsed, calls, received>>

\* the last message has been read: store this one and leave with-mutex
PutStore(t) ==
    /\ pc[t] = "putTest"
    /\ readBox
    /\ valBox' = hand[t]
    /\ readBox' = FALSE
    /\ Release(t)
    /\ Goto(t, "putSignal")
    /\ sent' = Append(sent, hand[t])
    /\ UNCHANGED <<hand, elapsed, calls, received>>

\* Mutant: the put returns and nobody is signalled.
PutSignalForgotten(t) ==
    /\ pc[t] = "putSignal"
    /\ Goto(t, "idle")
    /\ hand' = [hand EXCEPT ![t] = Nothing]
    /\ UNCHANGED <<owner, boxes, elapsed, calls, histories>>

\* condition-signal on val-cv, outside the mutex; the put returns
PutSignal(t) ==
    /\ pc[t] = "putSignal"
    /\ SignalAndGoto(t, "getWait", "idle")
    /\ hand' = [hand EXCEPT ![t] = Nothing]
    /\ UNCHANGED <<owner, boxes, elapsed, calls, histories>>
-----------------------------------------------------------------------------
\* mutex-acquire of blodwen-channel-get, and the end of condition-wait in
\* channel-get-while-helper
GetLock(t) ==
    /\ pc[t] = "getLock"
    /\ Acquire(t)
    /\ Goto(t, "getTest")
    /\ UNCHANGED <<boxes, hand, elapsed, calls, histories>>

GetWait(t) ==
    /\ pc[t] = "getTest"
    /\ readBox
    /\ Release(t)
    /\ Goto(t, "getWait")
    /\ UNCHANGED <<boxes, hand, elapsed, calls, histories>>

\* Mutant: the message is taken and read-box left alone.
TakeValueUnread(t) ==
    /\ hand' = [hand EXCEPT ![t] = valBox]
    /\ valBox' = Empty
    /\ Release(t)
    /\ Goto(t, "takeSignal")
    /\ received' = Append(received, valBox)
    /\ UNCHANGED <<readBox, elapsed, calls, sent>>

\* Empty the boxes and release the mutex, in all three kinds of get.
TakeValue(t) ==
    /\ hand' = [hand EXCEPT ![t] = valBox]
    /\ valBox' = Empty
    /\ readBox' = TRUE
    /\ Release(t)
    /\ Goto(t, "takeSignal")
    /\ received' = Append(received, valBox)
    /\ UNCHANGED <<elapsed, calls, sent>>

GetTake(t) ==
    /\ pc[t] = "getTest"
    /\ ~readBox
    /\ TakeValue(t)

\* condition-signal on read-cv, outside the mutex; the get returns hand[t]
TakeSignal(t) ==
    /\ pc[t] = "takeSignal"
    /\ SignalAndGoto(t, "putWait", "idle")
    /\ hand' = [hand EXCEPT ![t] = Nothing]
    /\ UNCHANGED <<owner, boxes, elapsed, calls, histories>>
-----------------------------------------------------------------------------
\* blodwen-channel-get-non-blocking: (mutex-acquire read-mut #f)
TryLock(t) ==
    /\ pc[t] = "try"
    /\ \/ Acquire(t) /\ Goto(t, "tryTest")
       \/ owner # NoThread /\ Goto(t, "idle") /\ UNCHANGED owner
    /\ UNCHANGED <<boxes, hand, elapsed, calls, histories>>

\* Mutant: the look at val-box is left out.
TryNothingAlways(t) ==
    /\ pc[t] = "tryTest"
    /\ Release(t)
    /\ Goto(t, "idle")
    /\ UNCHANGED <<boxes, hand, elapsed, calls, histories>>

TryNothing(t) ==
    /\ pc[t] = "tryTest"
    /\ IsNull(valBox)
    /\ Release(t)
    /\ Goto(t, "idle")
    /\ UNCHANGED <<boxes, hand, elapsed, calls, histories>>

TryTake(t) ==
    /\ pc[t] = "tryTest"
    /\ ~IsNull(valBox)
    /\ TakeValue(t)
-----------------------------------------------------------------------------
\* The sleep and (loop (+ elapsed sleep-ns)) of blodwen-channel-get-with-timeout
SleepAndLoop(t) ==
    /\ elapsed' = [elapsed EXCEPT ![t] = IF @ < Timeout THEN @ + 1 ELSE @]
    /\ Goto(t, "timed")

\* the mutex is tried once a round; a failure skips the test of the deadline
TimedLock(t) ==
    /\ pc[t] = "timed"
    /\ \/ Acquire(t) /\ Goto(t, "timedTest") /\ UNCHANGED elapsed
       \/ owner # NoThread /\ SleepAndLoop(t) /\ UNCHANGED owner
    /\ UNCHANGED <<boxes, hand, calls, histories>>

TimedNothing(t) ==
    /\ pc[t] = "timedTest"
    /\ IsNull(valBox)
    /\ elapsed[t] >= Timeout
    /\ Release(t)
    /\ Goto(t, "idle")
    /\ UNCHANGED <<boxes, hand, elapsed, calls, histories>>

TimedSleep(t) ==
    /\ pc[t] = "timedTest"
    /\ IsNull(valBox)
    /\ elapsed[t] < Timeout
    /\ Release(t)
    /\ SleepAndLoop(t)
    /\ UNCHANGED <<boxes, hand, calls, histories>>

TimedTake(t) ==
    /\ pc[t] = "timedTest"
    /\ ~IsNull(valBox)
    /\ TakeValue(t)
-----------------------------------------------------------------------------
\* pthread_cond_wait, under Chez's condition-wait, may return unsignalled.
Wakeup(t) ==
    /\ Spurious
    /\ pc[t] \in {"putWait", "getWait"}
    /\ Goto(t, Woken(pc[t]))
    /\ UNCHANGED <<owner, boxes, hand, elapsed, calls, histories>>

Put(t) == PutLock(t) \/ PutWait(t) \/ PutStore(t) \/ PutSignal(t)
Get(t) == GetLock(t) \/ GetWait(t) \/ GetTake(t) \/ TakeSignal(t)
Try(t) == TryLock(t) \/ TryNothing(t) \/ TryTake(t)
Timed(t) == TimedLock(t) \/ TimedNothing(t) \/ TimedSleep(t) \/ TimedTake(t)

\* Everything a thread does by itself once it is scheduled.
Step(t) == (\E op \in Operation : Call(t, op)) \/ Put(t) \/ Get(t) \/ Try(t) \/ Timed(t)

Finished == \A t \in Thread : pc[t] = "idle" /\ calls[t] = Quota[t]
Stop == Finished /\ UNCHANGED vars

Next == (\E t \in Thread : Step(t) \/ Wakeup(t)) \/ Stop

Spec == Init /\ [][Next]_vars

\* Every thread that can take a step is scheduled in the end, and the condition
\* variables do not return without a signal for ever; nothing more is asked of
\* them or of the mutex.
FairSpec ==
    /\ Spec
    /\ \A t \in Thread : WF_vars(Step(t))
    /\ <>[][\A t \in Thread : ~Wakeup(t)]_vars

-----------------------------------------------------------------------------
\* The types of the variables.
TypeOK ==
    /\ owner \in Thread \union {NoThread}
    /\ readBox \in BOOLEAN
    /\ valBox \in Message \union {Empty}
    /\ pc \in [Thread -> PC]
    /\ hand \in [Thread -> Message \union {Nothing}]
    /\ elapsed \in [Thread -> 0..Timeout]
    /\ calls \in [Thread -> Nat]
    /\ sent \in Seq(Message)
    /\ received \in Seq(Message)

Slot == IF readBox THEN <<>> ELSE <<valBox>>

\* Through every interleaving of the four operations no message is lost,
\* duplicated, overtaken or made up: what has been taken, followed by what is
\* in the channel, is what has been put.
ExactlyOnce == sent = received \o Slot

\* The two boxes that blocking and Maybe-returning gets consult for "is there
\* a message?" (read-box and null? on val-box) never disagree between the
\* critical sections that update them.
BoxesAgree == readBox <=> valBox = Empty

Getters(ls) == {t \in Thread : pc[t] \in ls}

\* The signals are sent after the mutex is released and only one sleeper is
\* woken, so a sleeper could be forgotten.  It is not: while a sleeper has
\* what it waits for, some thread is about to signal or a woken one is on its
\* way to the boxes.
NoLostWakeup ==
    /\ (~readBox /\ WaitingOn("getWait") # {})
          => Getters({"putSignal", "getLock", "getTest"}) # {}
    /\ (readBox /\ WaitingOn("putWait") # {})
          => Getters({"takeSignal", "putLock", "putTest"}) # {}

\* The Chez channel is a channel: under this mapping each of its steps is a
\* step of Channel or changes nothing there.
AbstractPhase(t) ==
    CASE pc[t] = "idle" -> "idle"
      [] pc[t] \in {"putLock", "putTest", "putWait"} -> "putting"
      [] pc[t] = "putSignal" -> "put"
      [] pc[t] \in {"getLock", "getTest", "getWait"} -> "getting"
      [] pc[t] \in {"try", "tryTest", "timed", "timedTest"} -> "trying"
      [] pc[t] = "takeSignal" -> "got"

Abstract == INSTANCE Channel WITH
    slot <- Slot, phase <- [t \in Thread |-> AbstractPhase(t)]

ImplementsChannel == Abstract!Spec

\* A Maybe get that has the mutex finds a message exactly when a blocking get
\* would, though it looks at the other box; but not one that is compiled to '().
MaybeGetTakes ==
    [][\A t \in Thread :
          /\ pc[t] \in {"tryTest", "timedTest"}
          /\ pc'[t] # pc[t]
          => (pc'[t] = "takeSignal" <=> ~readBox /\ valBox \notin NullMsgs)]_vars

\* Every call of a script whose blocking gets never outnumber the messages
\* left for them returns, whatever the timed gets do.
Termination == <>Finished
=============================================================================
