---------------------------- MODULE ImportGraph ----------------------------
(***************************************************************************)
(* The import graph of a project, and what an order to build it in is.  A  *)
(* graph is a function from modules to the sets of what they import.  What *)
(* is reached is the least set with the start that is closed, and a set is *)
(* free of cycles if each of its subsets has a member to begin with, so    *)
(* that no paths are needed.                                               *)
(***************************************************************************)
EXTENDS Integers, FiniteSets, SequencesExt

CONSTANT Module

ASSUME ModuleAssumption == IsFiniteSet(Module)

Closed(deps, S) == \A m \in S : deps[m] \subseteq S

ReachedFrom(deps, S) ==
  {m \in Module : \A T \in SUBSET Module : S \subseteq T /\ Closed(deps, T) => m \in T}

Acyclic(deps, S) == \A T \in SUBSET S : T # {} => \E m \in T : deps[m] \cap T = {}

\* Every module comes after its imports.
Sorted(deps, order) ==
  \A i \in DOMAIN order : deps[order[i]] \subseteq {order[j] : j \in 1 .. (i - 1)}

IsBuildOrder(deps, S, order) ==
  /\ ToSet(order) = ReachedFrom(deps, S)
  /\ IsInjective(order)
  /\ Sorted(deps, order)
=============================================================================
