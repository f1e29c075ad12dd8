------------------------------ MODULE Signals ------------------------------
(***************************************************************************)
(* The collection of signals (support/c/idris_signal.c, used through       *)
(* libs/base/System/Signal.idr): a handler that may run between any two    *)
(* steps sets a bit of an atomic word, and handle_next_collected_signal    *)
(* loads the word, picks the lowest bit and clears it with an atomic and.  *)
(***************************************************************************)
EXTENDS Integers, FiniteSets

CONSTANTS
    Signum,         \* signal numbers in use
    Handler,        \* threads that call handle_next_collected_signal
    MaxUnanswered   \* bound: deliveries of a signal that the history counts

ASSUME SignumAssumption == Signum \subseteq 0..31     \* N_SIGNALS
ASSUME UnansweredAssumption == MaxUnanswered \in Nat \ {0}

VARIABLES
    disposition,    \* what the process does with each signal
    signals,        \* the bits that are set
    phase,
    snapshot,       \* signals_snapshot of each thread
    unanswered,     \* history: deliveries that were collected less returns
    owed            \* history: signals collected since they were last returned

signalVars == <<disposition, signals, phase, snapshot, unanswered, owed>>

Lowest(bits) == CHOOSE s \in bits : \A u \in bits : s <= u

SignalInit ==
    /\ disposition = [s \in Signum |-> "default"]
    /\ signals = {}
    /\ phase = [t \in Handler |-> "idle"]
    /\ snapshot = [t \in Handler |-> {}]
    /\ unanswered = [s \in Signum |-> 0]
    /\ owed = {}

\* collect_signal, ignore_signal and default_signal: sigaction
Sigaction(s, action) ==
    /\ disposition' = [disposition EXCEPT ![s] = action]
    /\ UNCHANGED <<signals, phase, snapshot, unanswered, owed>>

\* _collect_signal.  A signal that is ignored does nothing, and the default
\* action ends the process.  Signals may go on coming for ever; beyond
\* MaxUnanswered the history does not count them.
Deliver(s) ==
    /\ disposition[s] = "collect"
    /\ signals' = signals \cup {s}
    /\ unanswered' = [unanswered EXCEPT ![s] = IF @ < MaxUnanswered THEN @ + 1 ELSE @]
    /\ owed' = owed \cup {s}
    /\ UNCHANGED <<disposition, phase, snapshot>>

\* handle_next_collected_signal: -1 when no bit is set
Load(t) ==
    /\ phase[t] = "idle" /\ signals # {}
    /\ snapshot' = [snapshot EXCEPT ![t] = signals]
    /\ phase' = [phase EXCEPT ![t] = "clear"]
    /\ UNCHANGED <<disposition, signals, unanswered, owed>>

Return(t, s) ==
    /\ unanswered' = [unanswered EXCEPT ![s] = @ - 1]
    /\ owed' = owed \ {s}
    /\ phase' = [phase EXCEPT ![t] = "idle"]
    /\ UNCHANGED <<disposition, snapshot>>

\* MUTANT the word is stored instead of being cleared with an atomic and
ClearByStore(t) ==
    /\ phase[t] = "clear"
    /\ signals' = snapshot[t] \ {Lowest(snapshot[t])}
    /\ Return(t, Lowest(snapshot[t]))

\* MUTANT the bit is not cleared
ClearNot(t) ==
    /\ phase[t] = "clear"
    /\ signals' = signals
    /\ Return(t, Lowest(snapshot[t]))

Clear(t) ==
    /\ phase[t] = "clear"
    /\ signals' = signals \ {Lowest(snapshot[t])}
    /\ Return(t, Lowest(snapshot[t]))

SignalNext ==
    \/ \E s \in Signum : Deliver(s)
    \/ \E s \in Signum, action \in {"default", "ignore", "collect"} : Sigaction(s, action)
    \/ \E t \in Handler : Load(t) \/ Clear(t)

SignalSpec == SignalInit /\ [][SignalNext]_signalVars

\* The program calls handleNextCollectedSignal in its main loop.
FairSignalSpec == SignalSpec /\ \A t \in Handler : WF_signalVars(Load(t) \/ Clear(t))

(***************************************************************************)
(* Properties                                                              *)
(***************************************************************************)
SignalTypeOK ==
    /\ disposition \in [Signum -> {"default", "ignore", "collect"}]
    /\ signals \subseteq Signum
    /\ phase \in [Handler -> {"idle", "clear"}]
    /\ snapshot \in [Handler -> SUBSET Signum]
    /\ unanswered \in [Signum -> Int]
    /\ owed \subseteq Signum

\* A signal is returned no more often than it was collected: one that was
\* returned is marked as handled.
HandledOnce == \A s \in Signum : unanswered[s] >= 0

\* A signal collected while another is being handled keeps its bit, whatever
\* step it interrupts.
NotForgotten == owed \subseteq signals

\* No signal below s is delivered any more from some time on.
LowerStop(s) == <>[][\A u \in Signum : u < s => ~ Deliver(u)]_signalVars

\* A collected signal is returned by a later call, if the lower signals stop
\* coming at some time: each call returns the lowest bit, and a lower signal
\* delivered for ever between the calls keeps a higher one waiting for ever.
EverySignalHandled ==
    \A s \in Signum : LowerStop(s) => (s \in owed ~> s \notin owed)
=============================================================================
