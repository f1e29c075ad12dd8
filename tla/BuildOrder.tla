----------------------------- MODULE BuildOrder -----------------------------
(***************************************************************************)
(* The order in which the modules of a project are built                   *)
(* (src/Idris/ModTree.idr).  For each file that is to be built mkModTree   *)
(* follows the imports and throws at a cycle, mkBuildMods puts the modules *)
(* it found in order, without looking for cycles, and getAllBuildMods puts *)
(* the orders of the files together, which have modules in common.  A main *)
(* file is a list of one.                                                  *)
(*                                                                         *)
(* A traversal under way is the path of the modules that have been entered *)
(* and, for the start and for each of them, what is still to be visited.   *)
(***************************************************************************)
EXTENDS ImportGraph

\* A project has the imports of each module in their order, the modules that
\* have no source here (mkModTree takes them for a package's), those whose
\* header does not parse, and the files to be built.
CONSTANT Projects

ProjectType ==
  [imports : [Module -> Seq(Module)], missing : SUBSET Module,
   broken : SUBSET Module, files : Seq(Module)]

VARIABLES project,  \* never changes
          left,     \* the files still to be visited
          list,     \* getAllBuildMods: done; then what is left of its result
          phase,
          seen,     \* AllMods
          order,    \* BuildOrder, the first to be built first; DoneMod is its set
          path,     \* the modules entered, the last one last
          work,     \* one sequence more than path has modules
          kept      \* the result of dropLater
orderVars == <<project, left, list, phase, seen, order, path, work, kept>>

Files   == ToSet(project.files)
Missing == project.missing
Broken  == project.broken

OrderInit ==
  /\ project \in Projects \cap ProjectType
  /\ left = project.files
  /\ list = <<>> /\ order = <<>> /\ kept = <<>>
  /\ phase = "files"
  /\ seen = {}
  /\ path = <<>> /\ work = <<>>

----------------------------------------------------------------------------
(* One step of a traversal. *)

Visiting(where) == phase = where /\ Last(work) # <<>>
Visited == Head(Last(work))

\* The work with the module visited taken off.
Rest == [work EXCEPT ![Len(work)] = Tail(@)]

Skip ==
  /\ work' = Rest
  /\ UNCHANGED <<project, left, list, phase, seen, order, path, kept>>

Enter ==
  /\ path' = Append(path, Visited)
  /\ work' = Append(Rest, project.imports[Visited])
  /\ UNCHANGED <<project, left, list, phase, seen, order, kept>>

Leaving(where) == phase = where /\ Last(work) = <<>> /\ path # <<>>

Leave ==
  /\ path' = Front(path)
  /\ work' = Front(work)
  /\ UNCHANGED <<project, left, list, phase, kept>>

Traversed(where) == phase = where /\ Last(work) = <<>> /\ path = <<>>

Throw(what) ==
  /\ phase' = what
  /\ UNCHANGED <<project, left, list, seen, order, path, work, kept>>

----------------------------------------------------------------------------
(* getBuildMods for the first file that is left. *)

KnownFile ==
  /\ phase = "files" /\ left # <<>>
  /\ Head(left) \in ToSet(list)
  /\ left' = Tail(left)
  /\ UNCHANGED <<project, list, phase, seen, order, path, work, kept>>

NewFile ==
  /\ phase = "files" /\ left # <<>>
  /\ Head(left) \notin ToSet(list)
  /\ phase' = "tree"
  /\ seen' = {}
  /\ work' = << <<Head(left)>> >>
  /\ UNCHANGED <<project, left, list, order, path, kept>>

(* mkModTree *)

Cyclic ==
  /\ Visiting("tree")
  /\ Visited \in ToSet(path)
  /\ Throw("cyclic")

SeenBefore ==
  /\ Visiting("tree")
  /\ Visited \notin ToSet(path)
  /\ Visited \in seen \cup Missing
  /\ Skip

DoesNotParse ==
  /\ Visiting("tree")
  /\ Visited \notin ToSet(path) \cup seen \cup Missing
  /\ Visited \in Broken
  /\ Throw("unparsed")

ImportsItself ==
  /\ Visiting("tree")
  /\ Visited \notin ToSet(path) \cup seen \cup Missing \cup Broken
  /\ Visited \in ToSet(project.imports[Visited])
  /\ Throw("cyclic")

ReadImports ==
  /\ Visiting("tree")
  /\ Visited \notin ToSet(path) \cup seen \cup Missing \cup Broken
  /\ Visited \notin ToSet(project.imports[Visited])
  /\ Enter

AddTree ==
  /\ Leaving("tree")
  /\ seen' = seen \cup {Last(path)}
  /\ UNCHANGED order
  /\ Leave

TreeMade ==
  /\ Traversed("tree")
  /\ phase' = "order"
  /\ order' = <<>>
  /\ work' = << <<Head(left)>> >>
  /\ UNCHANGED <<project, left, list, seen, path, kept>>

(* mkBuildMods *)

Placed ==
  /\ Visiting("order")
  /\ Visited \in Missing \cup ToSet(order)
  /\ Skip

BuildImports ==
  /\ Visiting("order")
  /\ Visited \notin Missing \cup ToSet(order)
  /\ Enter

Place ==
  /\ Leaving("order")
  /\ order' = Append(order, Last(path))
  /\ UNCHANGED seen
  /\ Leave

\* getAllBuildMods goes on with the next file.
FileOrdered ==
  /\ Traversed("order")
  /\ list' = order \o list
  /\ left' = Tail(left)
  /\ work' = <<>>
  /\ phase' = "files"
  /\ UNCHANGED <<project, seen, order, path, kept>>

----------------------------------------------------------------------------
(* dropLater *)

AllListed ==
  /\ phase = "files" /\ left = <<>>
  /\ phase' = "drop"
  /\ UNCHANGED <<project, left, list, seen, order, path, work, kept>>

Keep ==
  /\ phase = "drop" /\ list # <<>>
  /\ Head(list) \notin ToSet(kept)
  /\ kept' = Append(kept, Head(list))
  /\ list' = Tail(list)
  /\ UNCHANGED <<project, left, phase, seen, order, path, work>>

Drop ==
  /\ phase = "drop" /\ list # <<>>
  /\ Head(list) \in ToSet(kept)
  /\ list' = Tail(list)
  /\ UNCHANGED <<project, left, phase, seen, order, path, work, kept>>

Ordered ==
  /\ phase = "drop" /\ list = <<>>
  /\ phase' = "ordered"
  /\ UNCHANGED <<project, left, list, seen, order, path, work, kept>>

OrderNext ==
  \/ KnownFile \/ NewFile
  \/ Cyclic \/ SeenBefore \/ DoesNotParse \/ ImportsItself \/ ReadImports \/ AddTree
  \/ TreeMade \/ Placed \/ BuildImports \/ Place \/ FileOrdered
  \/ AllListed \/ Keep \/ Drop \/ Ordered

OrderSpec == OrderInit /\ [][OrderNext]_orderVars

\* The compiler goes on.
FairOrderSpec == OrderSpec /\ WF_orderVars(OrderNext)

----------------------------------------------------------------------------
\* What is built here: imports from packages are left out.
Links == [m \in Module |-> IF m \in Missing THEN {} ELSE ToSet(project.imports[m]) \ Missing]
Needed  == ReachedFrom(Links, Files \ Missing)

(* The result has everything that the files need, once, and each module     *)
(* after what it imports.                                                   *)
OrderRight == phase = "ordered" => IsBuildOrder(Links, Files \ Missing, kept)

(* A project is refused only for a cycle in what its files need or a header *)
(* that does not parse, and mkBuildMods, which looks for neither, gets no   *)
(* tree with one.                                                           *)
RefusedForCause ==
  /\ phase = "cyclic" => ~Acyclic(Links, Needed)
  /\ phase = "unparsed" => Needed \cap Broken # {}
  /\ phase = "order" =>
       LET needed == ReachedFrom(Links, {Head(left)} \ Missing)
       IN  Acyclic(Links, needed) /\ needed \cap Broken = {}

(* There is an answer, whatever imports what.                               *)
Answered == <>(phase \in {"cyclic", "unparsed", "ordered"})
=============================================================================
