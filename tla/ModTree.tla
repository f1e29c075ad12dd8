------------------------------- MODULE ModTree -------------------------------
(***************************************************************************)
(* Incremental builds: src/Idris/ModTree.idr decides which modules of a    *)
(* tree are compiled again, and process of src/Idris/ProcessIdr.idr may    *)
(* still skip one.  A compiled module is a TTC file (src/Core/Binary.idr). *)
(* It carries the hash of the interface and the hashes of the imports'     *)
(* interfaces.                                                             *)
(*                                                                         *)
(* While builds run sources are edited, the build process is killed, and   *)
(* writes fail.  The clock need not move between two writes of files, and  *)
(* as times are only compared, those in use are numbered from 1.           *)
(* Left out: TTM files, incremental code generators, and -Xcheck-hashes,   *)
(* which finds no hash function (Core/Options.idr:296) and so always       *)
(* compiles.                                                               *)
(***************************************************************************)
EXTENDS ImportGraph

CONSTANTS Imports,      \* [Module -> the sequence of its imports]
          Reexports,    \* pairs <<m, i>>: m imports i publicly
          FirstText,    \* the text of every module at first
          Edits,        \* pairs <<m, t>>: m may be given the text t
          Goal,         \* builds: [files, main, req], main may be "none"
          Order(_),     \* the order in which what files need is built
          MaxEdits, MaxBuilds, MaxCrashes

\* Totality requirements are numbers.  A text passes its checks where the
\* session asks for no more than `passes`; its pragma %default, if it has one,
\* asks for `default`.
NoDefault == -1
Text == [iface : Nat, passes : Nat, default : Nat \cup {NoDefault}]

Deps(m) == ToSet(Imports[m])
Public(m) == {i \in Deps(m) : <<m, i>> \in Reexports}

Sources     == [m \in Module |-> Deps(m)]
PublicOnly  == [m \in Module |-> Public(m)]

ASSUME TreeAssumption ==
  /\ Imports \in [Module -> Seq(Module)]
  /\ FirstText \in Text /\ Edits \subseteq Module \X Text
  /\ {MaxEdits, MaxBuilds, MaxCrashes} \subseteq Nat
ASSUME GoalAssumption ==
  /\ "none" \notin Module
  /\ Goal \subseteq [files : Seq(Module), main : Module \cup {"none"}, req : Nat]
  /\ \A g \in Goal : g.main \in ToSet(g.files) \cup {"none"}

\* What BuildOrder shows of the order: a project with a cycle is not built.
ASSUME OrderAssumption ==
  \A g \in Goal : /\ Order(g.files) \in Seq(Module)
                  /\ IsBuildOrder(Sources, ToSet(g.files), Order(g.files))

VARIABLES src,      \* [Module -> its source: text and time of change]
          ttc,      \* [Module -> its TTC file, or NoTTC]
          pc,       \* what the build does next
          goal,     \* what is built, and with which totality requirement
          todo,     \* the modules still to be visited
          read,     \* the text that process has read; edited since?
          hashes,   \* the interface hashes of its imports
          result,   \* "none", "ok" or "errors": how the last build ended
          touched,  \* modules edited since the last build began
          clock, spent
vars == <<src, ttc, pc, goal, todo, read, hashes, result, touched, clock, spent>>

NoTTC  == [time |-> 0, torn |-> "gone"]
NoHash == <<>>

\* What a module needs, and what an import of it brings.
Needs  == [m \in Module |-> ReachedFrom(Sources, {m})]
Brings == [m \in Module |-> ReachedFrom(PublicOnly, {m})]

Loaded == UNION {Needs[f] : f \in ToSet(goal.files)}

----------------------------------------------------------------------------
(* Questions to the files. *)

Exists(m) == ttc[m].torn # "gone"
Whole(m)  == ttc[m].torn = "no"

\* Can the header of the TTC, with the hashes, be read?
HasHeader(m) == ttc[m].torn \in {"no", "tail"}

ReadHash(m)         == IF HasHeader(m) THEN ttc[m].iface ELSE NoHash
ReadImportHashes(m) == IF HasHeader(m) THEN ttc[m].imps ELSE NoHash

\* Mutant: files of the same time are taken to be up to date.
IsTTCOutdatedStrict(m, times) == \E t \in times : t > ttc[m].time

IsTTCOutdated(m, times) == \E t \in times : t >= ttc[m].time

NeedsBuildingTime(m) ==
  IsTTCOutdated(m, {src[m].time} \cup {ttc[i].time : i \in Deps(m)})

CheckTotalReq(m) == HasHeader(m) /\ ttc[m].req < goal.req

----------------------------------------------------------------------------

Init ==
  /\ src = [m \in Module |-> [text |-> FirstText, time |-> 1]]
  /\ ttc = [m \in Module |-> NoTTC]
  /\ pc = "idle"
  /\ goal = [files |-> <<>>, main |-> "none", req |-> 0]
  /\ todo = <<>>
  /\ read = <<>>
  /\ hashes = NoHash
  /\ result = "none"
  /\ touched = {}
  /\ clock = 1
  /\ spent = [edits |-> 0, builds |-> 0, crashes |-> 0]

Spend(what, max) ==
  /\ spent[what] < max
  /\ spent' = [spent EXCEPT ![what] = @ + 1]

\* buildDeps for a main file, buildAll for a package.
Start ==
  /\ pc = "idle"
  /\ Spend("builds", MaxBuilds)
  /\ goal' \in Goal
  /\ todo' = Order(goal'.files)
  /\ pc' = "check"
  /\ result' = "none"
  /\ touched' = {}
  /\ UNCHANGED <<src, ttc, read, hashes, clock>>

\* What was read for one module is forgotten with it.
Forget == read' = <<>> /\ hashes' = NoHash

Errors ==
  /\ pc' = "idle"
  /\ result' = "errors"
  /\ todo' = <<>>
  /\ Forget

NextModule ==
  /\ pc' = "check"
  /\ todo' = Tail(todo)
  /\ Forget
  /\ UNCHANGED result

Continue(next) == pc' = next /\ UNCHANGED <<todo, result>>

\* needsBuilding.
UpToDate ==
  /\ pc = "check" /\ todo # <<>>
  /\ LET m == Head(todo)
     IN  /\ Exists(m) /\ ~NeedsBuildingTime(m)
         /\ ~(goal.main = m /\ CheckTotalReq(m))
  /\ NextModule
  /\ UNCHANGED <<src, ttc, goal, touched, clock, spent>>

OutOfDate ==
  /\ pc = "check" /\ todo # <<>>
  /\ LET m == Head(todo) IN ~Exists(m) \/ NeedsBuildingTime(m)
  /\ Continue("read")
  /\ UNCHANGED <<src, ttc, goal, read, hashes, touched, clock, spent>>

\* Mutant: the file is left where it is.
TooWeakLeft ==
  /\ pc = "check" /\ todo # <<>>
  /\ LET m == Head(todo)
     IN  /\ Exists(m) /\ ~NeedsBuildingTime(m)
         /\ goal.main = m /\ CheckTotalReq(m)
  /\ Continue("read")
  /\ UNCHANGED <<src, ttc, goal, read, hashes, touched, clock, spent>>

\* Mutant: the file is removed, but not compiled again.
TooWeakRemoved ==
  /\ pc = "check" /\ todo # <<>>
  /\ LET m == Head(todo)
     IN  /\ Exists(m) /\ ~NeedsBuildingTime(m)
         /\ goal.main = m /\ CheckTotalReq(m)
         /\ ttc' = [ttc EXCEPT ![m] = NoTTC]
  /\ NextModule
  /\ UNCHANGED <<src, goal, touched, clock, spent>>

TooWeak ==
  /\ pc = "check" /\ todo # <<>>
  /\ LET m == Head(todo)
     IN  /\ Exists(m) /\ ~NeedsBuildingTime(m)
         /\ goal.main = m /\ CheckTotalReq(m)
         /\ ttc' = [ttc EXCEPT ![m] = NoTTC]
  /\ Continue("read")
  /\ UNCHANGED <<src, goal, read, hashes, touched, clock, spent>>

\* process reads the source,
ReadSource ==
  /\ pc = "read"
  /\ read' = [text |-> src[Head(todo)].text, raced |-> FALSE]
  /\ Continue("header")
  /\ UNCHANGED <<src, ttc, goal, hashes, touched, clock, spent>>

\* and processMod looks whether the source is older and the hashes are the same.
ReadHeader ==
  /\ pc = "header"
  /\ LET m == Head(todo)
         now == [i \in Deps(m) |-> ReadHash(i)]
     IN  \/ /\ \E i \in Deps(m) : ~Exists(i)
            /\ Errors
         \/ /\ \A i \in Deps(m) : Exists(i)
            /\ ~IsTTCOutdated(m, {src[m].time}) /\ now = ReadImportHashes(m)
            /\ NextModule
         \/ /\ \A i \in Deps(m) : Exists(i)
            /\ IsTTCOutdated(m, {src[m].time}) \/ now # ReadImportHashes(m)
            /\ hashes' = now
            /\ Continue("compile")
            /\ UNCHANGED read
  /\ UNCHANGED <<src, ttc, goal, touched, clock, spent>>

\* Mutant: the hashes of public imports are left out.
IfaceHashOwn(m, text, imps) == <<text.iface, NoHash>>

IfaceHash(m, text, imps) == <<text.iface, [i \in Public(m) |-> imps[i]]>>

\* What an import offers, as the texts have it that were compiled.
Exports(m) == {<<n, ttc[n].from.iface>> : n \in Brings[m]}

\* getDefaultTotalityOption when all declarations are processed: the session's
\* requirement (clearCtxt), unless a %default has set another.
Requirement(text) == IF text.default = NoDefault THEN goal.req ELSE text.default

\* Mutant: the hashes of the imports are not saved.
TTCFileForgets(m, torn) ==
  [time  |-> clock,
   torn  |-> torn,
   iface |-> IfaceHash(m, read.text, hashes),
   imps  |-> NoHash,
   req   |-> Requirement(read.text),
   from  |-> read.text,
   raced |-> read.raced,
   saw   |-> [i \in Deps(m) |-> Exports(i)]]

\* The last three fields are history: the text that was compiled, whether the
\* source was changed meanwhile, and what the imports offered.
TTCFile(m, torn) ==
  [time  |-> clock,
   torn  |-> torn,
   iface |-> IfaceHash(m, read.text, hashes),
   imps  |-> hashes,
   req   |-> Requirement(read.text),
   from  |-> read.text,
   raced |-> read.raced,
   saw   |-> [i \in Deps(m) |-> Exports(i)]]

\* The imports are read in full, with what they re-export, and the
\* declarations are checked.
Checked(m) ==
  /\ \A i \in Deps(m) : \A n \in Brings[i] : Whole(n)
  /\ read.text.passes >= goal.req

CompileFails ==
  /\ pc = "compile"
  /\ ~Checked(Head(todo))
  /\ Errors
  /\ UNCHANGED <<src, ttc, goal, touched, clock, spent>>

\* writeToTTC truncates the file,
Compile ==
  /\ pc = "compile"
  /\ Checked(Head(todo))
  /\ ttc' = [ttc EXCEPT ![Head(todo)] = TTCFile(Head(todo), "head")]
  /\ Continue("write")
  /\ UNCHANGED <<src, goal, read, hashes, touched, clock, spent>>

\* and writes the buffer.
WriteTTC ==
  /\ pc = "write"
  /\ ttc' = [ttc EXCEPT ![Head(todo)] = TTCFile(Head(todo), "no")]
  /\ NextModule
  /\ UNCHANGED <<src, goal, touched, clock, spent>>

Torn(m) ==
  {[ttc EXCEPT ![m] = TTCFile(m, torn)] : torn \in {"head", "tail"}}

WriteFails ==
  /\ pc = "write"
  /\ Spend("crashes", MaxCrashes)
  /\ ttc' \in Torn(Head(todo))
  /\ Errors
  /\ UNCHANGED <<src, goal, touched, clock>>

\* readAsMain loads the main file and everything below it.
Finish ==
  /\ pc = "check" /\ todo = <<>>
  /\ pc' = "idle"
  /\ result' = IF goal.main = "none" \/ \A m \in Loaded : Whole(m)
               THEN "ok" ELSE "errors"
  /\ UNCHANGED <<src, ttc, goal, todo, read, hashes, touched, clock, spent>>

(* The rest of the world, until the last build has ended. *)

Going == pc # "idle" \/ spent.builds < MaxBuilds

Crash ==
  /\ pc # "idle"
  /\ Spend("crashes", MaxCrashes)
  /\ ttc' \in IF pc = "write" THEN Torn(Head(todo)) ELSE {ttc}
  /\ pc' = "idle"
  /\ todo' = <<>>
  /\ Forget
  /\ UNCHANGED <<src, goal, result, touched, clock>>

Edit ==
  /\ Going
  /\ Spend("edits", MaxEdits)
  /\ \E edit \in Edits :
       /\ src' = [src EXCEPT ![edit[1]] = [text |-> edit[2], time |-> clock]]
       /\ touched' = touched \cup {edit[1]}
       /\ read' = IF read # <<>> /\ Head(todo) = edit[1]
                  THEN [read EXCEPT !.raced = TRUE] ELSE read
  /\ UNCHANGED <<ttc, pc, goal, todo, hashes, result, clock>>

\* The clock moves on from the time of the last files.
Tick ==
  LET files   == {m \in Module : Exists(m)}
      times   == {src[m].time : m \in Module} \cup {ttc[m].time : m \in files}
      Rank(t) == Cardinality({u \in times : u < t}) + 1
  IN  /\ Going
      /\ clock \in times
      /\ clock' = Cardinality(times) + 1
      /\ src' = [m \in Module |-> [src[m] EXCEPT !.time = Rank(@)]]
      /\ ttc' = [m \in Module |->
                   IF m \in files THEN [ttc[m] EXCEPT !.time = Rank(@)] ELSE NoTTC]
      /\ UNCHANGED <<pc, goal, todo, read, hashes, result, touched, spent>>

Next ==
  \/ Start \/ UpToDate \/ OutOfDate \/ TooWeak \/ ReadSource \/ ReadHeader
  \/ Compile \/ CompileFails \/ WriteTTC \/ WriteFails \/ Finish
  \/ Crash \/ Edit \/ Tick

Spec == Init /\ [][Next]_vars

----------------------------------------------------------------------------
(* When a build ends well, what it loads was compiled from the sources as   *)
(* they are, whatever was killed, failed or edited before.  Not promised:   *)
(* a source edited since the build began, one edited between being read     *)
(* and its TTC being written, which is then taken to be up to date for      *)
(* good, and a torn TTC in a package, which is not loaded at the end.       *)
LoadedIsCurrent ==
  result = "ok" => \A m \in Loaded \ touched :
    Whole(m) => ttc[m].from = src[m].text \/ ttc[m].raced

(* When a build ends well every module was compiled against what its        *)
(* imports now offer, re-exports included; no exception for edits: the      *)
(* hashes cut the rebuilding off no earlier than they may.                  *)
ImportsAgree ==
  result = "ok" => \A m \in Loaded : Whole(m) =>
    \A i \in Deps(m) : ttc[m].saw[i] = Exports(i)

(* A build fails for a reason: a text that does not pass, a file that was   *)
(* torn by a crash or a failed write, or an edit that came between.         *)
FailsForCause ==
  result = "errors" => \E m \in Loaded :
    \/ m \in touched
    \/ src[m].text.passes < goal.req
    \/ ttc[m].torn \in {"head", "tail"}

(* A main file that loads was checked with the totality that was asked for  *)
(* (ModTree.idr:201), except where its own %default asks for less, and       *)
(* where an import is no older: then processMod skips it without the        *)
(* question.                                                                *)
TotalityHonoured ==
  result = "ok" /\ goal.main # "none" =>
    \/ ttc[goal.main].req >= goal.req
    \/ Requirement(ttc[goal.main].from) < goal.req
    \/ \E i \in Deps(goal.main) : ttc[i].time >= ttc[goal.main].time

\* Everything that the build visits is compiled, older sources and all, and the
\* main file with what is asked for.  A main file whose %default asks for less
\* than the session is never current: every build removes its TTC file and
\* compiles it again.
Current ==
  /\ \A m \in Loaded : /\ Whole(m)
                       /\ src[m].time < ttc[m].time
                       /\ \A i \in Deps(m) : ttc[m].saw[i] = Exports(i)
  /\ goal.main # "none" => ttc[goal.main].req >= goal.req

(* Where everything is current a build truncates no file, although modules  *)
(* that were skipped are older than their imports.                          *)
Stable ==
  [][pc # "idle" /\ Current => \A m \in Loaded : Whole(m)']_vars
=============================================================================
