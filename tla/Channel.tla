------------------------------ MODULE Channel ------------------------------
(***************************************************************************)
(* What System.Concurrency promises of a Channel, whatever back end runs   *)
(* the program: a place for at most one message.  Each call takes effect   *)
(* at one instant between its start and its return; a put needs the place  *)
(* empty, a get takes the oldest message, and a Maybe-returning get may    *)
(* also give up.                                                           *)
(***************************************************************************)
EXTENDS Integers, Sequences

CONSTANTS Thread,   \* the threads that share the channel
          Message   \* the messages they may send

VARIABLES slot,     \* <<>>, or <<m>> when m has been put and not yet taken
          phase,    \* what each thread's call to the channel has done so far
          hand,     \* the message each thread is sending or has taken
          sent,     \* every message put, in order
          received  \* every message taken, in order

vars == <<slot, phase, hand, sent, received>>

Nothing == <<"nothing">>

Phase == {"idle", "putting", "put", "getting", "trying", "got"}

Init ==
    /\ slot = <<>>
    /\ phase = [t \in Thread |-> "idle"]
    /\ hand = [t \in Thread |-> Nothing]
    /\ sent = <<>>
    /\ received = <<>>

\* A thread calls channelPut with message m.
CallPut(t, m) ==
    /\ phase[t] = "idle"
    /\ phase' = [phase EXCEPT ![t] = "putting"]
    /\ hand' = [hand EXCEPT ![t] = m]
    /\ UNCHANGED <<slot, sent, received>>

\* A thread calls channelGet ("getting"), or one of the variants that
\* return a Maybe ("trying").
CallGet(t, how) ==
    /\ phase[t] = "idle"
    /\ phase' = [phase EXCEPT ![t] = how]
    /\ UNCHANGED <<slot, hand, sent, received>>

\* The put takes effect.
Store(t) ==
    /\ phase[t] = "putting"
    /\ slot = <<>>
    /\ slot' = <<hand[t]>>
    /\ sent' = Append(sent, hand[t])
    /\ phase' = [phase EXCEPT ![t] = "put"]
    /\ UNCHANGED <<hand, received>>

\* The get takes effect.
Take(t) ==
    /\ phase[t] \in {"getting", "trying"}
    /\ slot # <<>>
    /\ hand' = [hand EXCEPT ![t] = slot[1]]
    /\ received' = Append(received, slot[1])
    /\ slot' = <<>>
    /\ phase' = [phase EXCEPT ![t] = "got"]
    /\ UNCHANGED sent

\* A call returns; only a Maybe-returning get may return with no effect.
Return(t) ==
    /\ phase[t] \in {"put", "got", "trying"}
    /\ phase' = [phase EXCEPT ![t] = "idle"]
    /\ hand' = [hand EXCEPT ![t] = Nothing]
    /\ UNCHANGED <<slot, sent, received>>

Next ==
    \E t \in Thread :
        \/ \E m \in Message : CallPut(t, m)
        \/ \E how \in {"getting", "trying"} : CallGet(t, how)
        \/ Store(t)
        \/ Take(t)
        \/ Return(t)

Spec == Init /\ [][Next]_vars
=============================================================================
