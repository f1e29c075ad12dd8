------------------------------- MODULE Popen2 -------------------------------
(***************************************************************************)
(* Processes with two pipes: idris2_popen2 and idris2_popen2WaitByPid of   *)
(* support/c/idris_file.c, as System.File.Process uses them.               *)
(*                                                                         *)
(* Every child has a thread of the program that starts it, writes to it,   *)
(* closes its input and waits for it, and one that reads its output to the *)
(* end, which is how the documentation tells programs to do it.  A child   *)
(* reads its input to the end, writes what it has to say and exits.  The   *)
(* tables of file descriptors, the pipes and the stdio buffers, which a    *)
(* fork copies, are explicit.  Counts stand for bytes.                     *)
(***************************************************************************)
EXTENDS Naturals, FiniteSetsExt

CONSTANTS Child,
          MaxFd,     \* the highest descriptor
          Cap,       \* bytes a pipe holds
          MaxSend,   \* [Child -> bytes written to the child]
          MaxSay,    \* [Child -> bytes the child writes]
          MaxPrint,  \* bytes printed to stdout
          StdOpen    \* which of 0 and 1 may be open when the program starts

ASSUME SizesAssumption ==
  /\ {MaxFd, Cap} \subseteq Nat
  /\ MaxPrint \in 0 .. Cap
  /\ MaxSend \in [Child -> 0 .. Cap]
  /\ MaxSay \in [Child -> Nat]
  /\ StdOpen \subseteq SUBSET {0, 1}

\* A child is neither the program nor a stream of it.
ASSUME ChildAssumption == Child \cap {"parent", "stdout"} = {}

Process == Child \cup {"parent"}
Fd      == 0 .. MaxFd
EndsOf(k) == {k} \X {"in", "out"} \X {"r", "w"}
End     == UNION {EndsOf(k) : k \in Child}
Std     == << <<"stdin">>, <<"stdout">>, <<"stderr">> >>
Stream  == Child \cup {"stdout"}

VARIABLES fds,      \* [Process -> its table of descriptors]
          pfd,      \* [Child -> pipes[0..3] of its popen2]
          pc,       \* [Child -> where the thread of the child is]
          rd,       \* [Child -> what its reader knows: "no", "open", "eof"]
          st,       \* [Child -> the state of the process]
          content,  \* [Child \X {"in", "out"} -> bytes in the pipe]
          buf,      \* [Process -> [Stream -> bytes in the stdio buffer]]
          put,      \* [Stream -> bytes the program wrote to the stream]
          got,      \* [Stream -> bytes that came out at the other end]
          heard,    \* [Child -> bytes read from its output]
          said,     \* [Child -> bytes it wrote]
          overlap,  \* did one popen2 begin inside another?
          late      \* was there a print between a flush and its fork?

vars == <<fds, pfd, pc, rd, st, content, buf, put, got, heard, said,
          overlap, late>>

----------------------------------------------------------------------------
(* Tables of descriptors. *)

\* A table gives what each descriptor is open on.
Closed  == <<"closed">>
Nothing == [f \in Fd |-> Closed]

Free(t) == {f \in Fd : t[f] = Closed}
Close(t, f) == [t EXCEPT ![f] = Closed]
Dup2(t, from, to) == IF t[from] = Closed THEN t ELSE [t EXCEPT ![to] = t[from]]

\* pipe takes the two lowest free descriptors, the end to read from first.
LowPair(t) == LET r == Min(Free(t)) IN <<r, Min(Free(t) \ {r})>>
OpenPipe(t, k, d) == [t EXCEPT ![LowPair(t)[1]] = <<k, d, "r">>,
                               ![LowPair(t)[2]] = <<k, d, "w">>]

OpenIn(t, e) == \E f \in Fd : t[f] = e
Holds(p, e)  == OpenIn(fds[p], e)
Holders(e)   == {p \in Process : Holds(p, e)}

HasStd == Holds("parent", Std[1]) /\ Holds("parent", Std[2])

\* Mutant: the ends of the first pipe are closed last.
WireLate(t, p) ==
  LET t1 == Dup2(Close(t, 0), p[2], 0)
      t2 == Close(Close(t1, p[2]), p[3])
      t3 == Dup2(Close(t2, 1), p[1], 1)
  IN  Close(t3, p[1])

\* The child puts the pipes in place of its standard streams.
Wire(t, p) ==
  LET t1 == Dup2(Close(t, 1), p[1], 1)
      t2 == Close(Close(t1, p[0]), p[1])
      t3 == Dup2(Close(t2, 0), p[2], 0)
  IN  Close(Close(t3, p[2]), p[3])

Wired(k) == fds[k][0] = <<k, "in", "r">> /\ fds[k][1] = <<k, "out", "w">>

Init ==
  /\ \E open \in StdOpen :
       fds = [p \in Process |->
                IF p = "parent"
                THEN [f \in Fd |-> IF f \in open \cup {2} THEN Std[f + 1]
                                    ELSE Closed]
                ELSE Nothing]
  /\ pfd = [k \in Child |-> [i \in 0 .. 3 |-> 0]]
  /\ pc = [k \in Child |-> "idle"]
  /\ rd = [k \in Child |-> "no"]
  /\ st = [k \in Child |-> "none"]
  /\ content = [c \in Child \X {"in", "out"} |-> 0]
  /\ buf = [p \in Process |-> [s \in Stream |-> 0]]
  /\ put = [s \in Stream |-> 0]
  /\ got = [s \in Stream |-> 0]
  /\ heard = [k \in Child |-> 0]
  /\ said = [k \in Child |-> 0]
  /\ overlap = FALSE
  /\ late = FALSE

----------------------------------------------------------------------------
(* popen2, step by step: another thread may be inside it too. *)

Inside(k) == pc[k] \in {"one", "two", "flushed", "forked"}

OutPipe(k) ==
  /\ pc[k] = "idle"
  /\ overlap' = (overlap \/ \E j \in Child : Inside(j))
  /\ \/ LET t == fds["parent"] IN
        /\ Cardinality(Free(t)) >= 2
        /\ pfd' = [pfd EXCEPT ![k][0] = LowPair(t)[1], ![k][1] = LowPair(t)[2]]
        /\ fds' = [fds EXCEPT !["parent"] = OpenPipe(t, k, "out")]
        /\ pc' = [pc EXCEPT ![k] = "one"]
     \/ pc' = [pc EXCEPT ![k] = "null"] /\ UNCHANGED <<pfd, fds>>
  /\ UNCHANGED <<rd, st, content, buf, put, got, heard, said, late>>

\* Mutant: the first pipe is left open when there is no second.
InPipeLeaves(k) ==
  /\ pc[k] = "one"
  /\ pc' = [pc EXCEPT ![k] = "null"]
  /\ UNCHANGED <<fds, pfd, rd, st, content, buf, put, got, heard, said,
                 overlap, late>>

InPipe(k) ==
  /\ pc[k] = "one"
  /\ LET t == fds["parent"] IN
     \/ /\ Cardinality(Free(t)) >= 2
        /\ pfd' = [pfd EXCEPT ![k][2] = LowPair(t)[1], ![k][3] = LowPair(t)[2]]
        /\ fds' = [fds EXCEPT !["parent"] = OpenPipe(t, k, "in")]
        /\ pc' = [pc EXCEPT ![k] = "two"]
     \/ /\ fds' = [fds EXCEPT !["parent"] = Close(Close(t, pfd[k][0]), pfd[k][1])]
        /\ pc' = [pc EXCEPT ![k] = "null"]
        /\ UNCHANGED pfd
  /\ UNCHANGED <<rd, st, content, buf, put, got, heard, said, overlap, late>>

\* Mutant: nothing is flushed.
FlushNot(k) ==
  /\ pc[k] = "two"
  /\ pc' = [pc EXCEPT ![k] = "flushed"]
  /\ UNCHANGED <<fds, pfd, rd, st, content, buf, put, got, heard, said,
                 overlap, late>>

\* fflush(stdout); stderr has no buffer.
Flush(k) ==
  /\ pc[k] = "two"
  /\ got' = [got EXCEPT !["stdout"] = @ + buf["parent"]["stdout"]]
  /\ buf' = [buf EXCEPT !["parent"]["stdout"] = 0]
  /\ pc' = [pc EXCEPT ![k] = "flushed"]
  /\ UNCHANGED <<fds, pfd, rd, st, content, put, heard, said, overlap, late>>

\* The child has a copy of the descriptors and of the stdio buffers.  A fork
\* that fails leaves the four descriptors open.
Fork(k) ==
  /\ pc[k] = "flushed"
  /\ \/ /\ fds' = [fds EXCEPT ![k] = fds["parent"]]
        /\ buf' = [buf EXCEPT ![k] = buf["parent"]]
        /\ st' = [st EXCEPT ![k] = "forked"]
        /\ pc' = [pc EXCEPT ![k] = "forked"]
     \/ pc' = [pc EXCEPT ![k] = "nofork"] /\ UNCHANGED <<fds, buf, st>>
  /\ UNCHANGED <<pfd, rd, content, put, got, heard, said, overlap, late>>

Return(k) ==
  /\ pc[k] = "forked"
  /\ fds' = [fds EXCEPT !["parent"] = Close(Close(@, pfd[k][1]), pfd[k][2])]
  /\ pc' = [pc EXCEPT ![k] = "open"]
  /\ rd' = [rd EXCEPT ![k] = "open"]
  /\ UNCHANGED <<pfd, st, content, buf, put, got, heard, said, overlap, late>>

----------------------------------------------------------------------------
(* The child until it runs the command. *)

Exec(k) ==
  /\ st[k] = "forked"
  /\ fds' = [fds EXCEPT ![k] = Wire(@, pfd[k])]
  /\ st' = [st EXCEPT ![k] = "running"]
  /\ buf' = [buf EXCEPT ![k] = [s \in Stream |-> 0]]
  /\ UNCHANGED <<pfd, pc, rd, content, put, got, heard, said, overlap, late>>

\* exit flushes the copies of the buffers that the child still can write.
\* The copy of stdout goes to the descriptor 1 of the child, its own pipe.
ExecFails(k) ==
  /\ st[k] = "forked"
  /\ LET t == Wire(fds[k], pfd[k])
         spilt == {j \in Child : OpenIn(t, <<j, "in", "w">>)}
     IN  /\ \A j \in spilt : content[<<j, "in">>] + buf[k][j] <= Cap
         /\ content' = [c \in Child \X {"in", "out"} |->
              content[c]
              + (IF c[2] = "in" /\ c[1] \in spilt THEN buf[k][c[1]] ELSE 0)
              + (IF c = <<k, "out">> /\ OpenIn(t, <<k, "out", "w">>)
                 THEN buf[k]["stdout"] ELSE 0)]
  /\ fds' = [fds EXCEPT ![k] = Nothing]
  /\ buf' = [buf EXCEPT ![k] = [s \in Stream |-> 0]]
  /\ st' = [st EXCEPT ![k] = "failed"]
  /\ UNCHANGED <<pfd, pc, rd, put, got, heard, said, overlap, late>>

----------------------------------------------------------------------------
(* The program and its children. *)

PutStr ==
  /\ put["stdout"] < MaxPrint
  /\ put' = [put EXCEPT !["stdout"] = @ + 1]
  /\ buf' = [buf EXCEPT !["parent"]["stdout"] = @ + 1]
  /\ late' = (late \/ \E k \in Child : pc[k] = "flushed")
  /\ UNCHANGED <<fds, pfd, pc, rd, st, content, got, heard, said, overlap>>

\* Into the buffer of the FILE.
Send(k) ==
  /\ pc[k] = "open"
  /\ put[k] < MaxSend[k]
  /\ put' = [put EXCEPT ![k] = @ + 1]
  /\ buf' = [buf EXCEPT !["parent"][k] = @ + 1]
  /\ UNCHANGED <<fds, pfd, pc, rd, st, content, got, heard, said, overlap, late>>

\* Mutant: the input stays open.
CloseInNot(k) ==
  /\ pc[k] = "open"
  /\ pc' = [pc EXCEPT ![k] = "closed"]
  /\ UNCHANGED <<fds, pfd, rd, st, content, buf, put, got, heard, said,
                 overlap, late>>

\* fclose writes the buffer; if nobody can read, it is lost (Chez and Racket
\* ignore SIGPIPE).
CloseIn(k) ==
  LET unread == Holders(<<k, "in", "r">>) = {} IN
  /\ pc[k] = "open"
  /\ unread \/ content[<<k, "in">>] + buf["parent"][k] <= Cap
  /\ content' = [content EXCEPT ![<<k, "in">>] =
                   IF unread THEN 0 ELSE @ + buf["parent"][k]]
  /\ buf' = [buf EXCEPT !["parent"][k] = 0]
  /\ fds' = [fds EXCEPT !["parent"] = Close(@, pfd[k][3])]
  /\ pc' = [pc EXCEPT ![k] = "closed"]
  /\ UNCHANGED <<pfd, rd, st, put, got, heard, said, overlap, late>>

\* waitpid.
WaitByPid(k) ==
  /\ pc[k] = "closed"
  /\ st[k] \in {"exited", "failed"}
  /\ pc' = [pc EXCEPT ![k] = "waited"]
  /\ UNCHANGED <<fds, pfd, rd, st, content, buf, put, got, heard, said,
                 overlap, late>>

Hear(k) ==
  /\ rd[k] = "open"
  /\ content[<<k, "out">>] > 0
  /\ content' = [content EXCEPT ![<<k, "out">>] = @ - 1]
  /\ heard' = [heard EXCEPT ![k] = @ + 1]
  /\ UNCHANGED <<fds, pfd, pc, rd, st, buf, put, got, said, overlap, late>>

\* Mutant: an empty pipe is taken for the end.
HearEndEarly(k) ==
  /\ rd[k] = "open"
  /\ content[<<k, "out">>] = 0
  /\ rd' = [rd EXCEPT ![k] = "eof"]
  /\ fds' = [fds EXCEPT !["parent"] = Close(@, pfd[k][0])]
  /\ UNCHANGED <<pfd, pc, st, content, buf, put, got, heard, said, overlap, late>>

\* The end of the output, after which the reader closes it.
HearEnd(k) ==
  /\ rd[k] = "open"
  /\ content[<<k, "out">>] = 0
  /\ Holders(<<k, "out", "w">>) = {}
  /\ rd' = [rd EXCEPT ![k] = "eof"]
  /\ fds' = [fds EXCEPT !["parent"] = Close(@, pfd[k][0])]
  /\ UNCHANGED <<pfd, pc, st, content, buf, put, got, heard, said, overlap, late>>

Take(k) ==
  /\ st[k] = "running" /\ Wired(k)
  /\ content[<<k, "in">>] > 0
  /\ content' = [content EXCEPT ![<<k, "in">>] = @ - 1]
  /\ got' = [got EXCEPT ![k] = @ + 1]
  /\ UNCHANGED <<fds, pfd, pc, rd, st, buf, put, heard, said, overlap, late>>

Say(k) ==
  /\ st[k] = "running" /\ Wired(k)
  /\ said[k] < MaxSay[k]
  /\ content[<<k, "out">>] < Cap
  /\ content' = [content EXCEPT ![<<k, "out">>] = @ + 1]
  /\ said' = [said EXCEPT ![k] = @ + 1]
  /\ UNCHANGED <<fds, pfd, pc, rd, st, buf, put, got, heard, overlap, late>>

\* A child that is not wired can neither read nor write, and gives up.
Exit(k) ==
  /\ st[k] = "running"
  /\ Wired(k) => /\ content[<<k, "in">>] = 0
                 /\ Holders(<<k, "in", "w">>) = {}
                 /\ said[k] = MaxSay[k]
  /\ st' = [st EXCEPT ![k] = IF Wired(k) THEN "exited" ELSE "failed"]
  /\ fds' = [fds EXCEPT ![k] = Nothing]
  /\ UNCHANGED <<pfd, pc, rd, content, buf, put, got, heard, said, overlap, late>>

Over(k) == pc[k] \in {"null", "nofork"} \/ (pc[k] = "waited" /\ rd[k] = "eof")

\* Children that wait for the end of their input and hold one another's.
Crossed == \E S \in SUBSET Child : S # {} /\ \A k \in S :
  st[k] = "running" /\ Wired(k)
    /\ \E j \in S \ {k} : Holds(j, <<k, "in", "w">>)

\* The program has ended, or the circle stops it.
Done == ((\A k \in Child : Over(k)) \/ Crossed) /\ UNCHANGED vars

Thread(k)  == OutPipe(k) \/ InPipe(k) \/ Flush(k) \/ Fork(k) \/ Return(k)
                \/ CloseIn(k) \/ WaitByPid(k)
Reader(k)  == Hear(k) \/ HearEnd(k)
Running(k) == Exec(k) \/ ExecFails(k) \/ Take(k) \/ Say(k) \/ Exit(k)

Next == \/ \E k \in Child : Thread(k) \/ Send(k) \/ Reader(k) \/ Running(k)
        \/ PutStr
        \/ Done

Spec == Init /\ [][Next]_vars

\* The scheduler runs every thread and every process; nothing makes the
\* program write.
FairSpec == /\ Spec
            /\ \A k \in Child : /\ WF_vars(Thread(k))
                                /\ WF_vars(Reader(k))
                                /\ WF_vars(Running(k))

----------------------------------------------------------------------------
TypeOK ==
  /\ \A p \in Process, f \in Fd :
       fds[p][f] \in End \cup {Std[1], Std[2], Std[3], Closed}
  /\ pc \in [Child -> {"idle", "one", "two", "flushed", "forked", "null",
                       "nofork", "open", "closed", "waited"}]
  /\ rd \in [Child -> {"no", "open", "eof"}]
  /\ st \in [Child -> {"none", "forked", "running", "exited", "failed"}]
  /\ content \in [Child \X {"in", "out"} -> 0 .. Cap]

(* A command runs with its pipes as standard input and output, and without  *)
(* the four descriptors of its popen2, if the program has both itself: else *)
(* a pipe may have the number 0 or 1 already (idris_file.c:368-376).         *)
ChildWired == \A k \in Child :
  st[k] = "running" /\ HasStd =>
    /\ Wired(k)
    /\ \A f \in Fd \ {0, 1} : fds[k][f] \notin EndsOf(k)

(* Every descriptor that popen2 opens is given back: at once if there is no *)
(* second pipe, and else when both files are closed.  A fork that fails is  *)
(* the exception (idris_file.c:356-358).                                    *)
FdsReturned ==
  /\ TypeOK
  /\ \A k \in Child : pc[k] # "nofork" /\ Over(k) =>
       \A f \in Fd : fds["parent"][f] \notin EndsOf(k)

(* "make sure no buffers left unflushed before forking to save from         *)
(* double-printing" (idris_file.c:351): a byte printed to stdout comes out  *)
(* once and never in the output of a child, unless it was printed between   *)
(* the flush and the fork; and what is written to a child arrives once and  *)
(* whole, unless a command could not be run: its child flushed a copy.      *)
WrittenOnce ==
  /\ ~late => /\ got["stdout"] + buf["parent"]["stdout"] = put["stdout"]
              /\ \A k \in Child :
                   heard[k] + content[<<k, "out">>] = said[k]
  /\ HasStd /\ (\A k \in Child : st[k] # "failed") =>
       \A k \in Child : got[k] + content[<<k, "in">>] + buf["parent"][k] = put[k]

(* Whoever reads the output of a child to its end has all of it, and the    *)
(* child has ended, under the same condition.                               *)
OutputComplete == \A k \in Child :
  rd[k] = "eof" /\ HasStd =>
    /\ st[k] \in {"exited", "failed"}
    /\ st[k] = "exited" => heard[k] >= MaxSay[k]

(* If the program closes every input and reads every output, all its waits  *)
(* return and all its readers come to the end.  A child inherits the inputs *)
(* that are open when it is forked, so children may wait for one another to *)
(* end; they can do so in a circle, for ever, only if two calls of popen2   *)
(* overlapped.                                                              *)
AllEnd == <>((\A k \in Child : Over(k)) \/ (Crossed /\ overlap))
=============================================================================
