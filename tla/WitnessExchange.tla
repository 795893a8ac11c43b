---------------------------- MODULE WitnessExchange ----------------------------
(***************************************************************************)
(* Witnesses that keep a WitnessDag each (witness-dag.ts), carry bundles   *)
(* of it to one another (distributed-witness.ts) and restore it from a     *)
(* backup (witness-backup.ts); and a reconciliation of many bundles.       *)
(*                                                                         *)
(* The bundles are carried by hand or by any transport: they may arrive in *)
(* any order, again, damaged or never.  An append, an import and a step of *)
(* the reconciliation are synchronous code.                                *)
(*                                                                         *)
(* A node's hash covers its id, its parents and a nonce, so it stands for  *)
(* one node for ever: hash h is the h-th node that anybody made.  A node   *)
(* id is given by the caller and may be given twice on two witnesses.      *)
(***************************************************************************)
EXTENDS Integers, Sequences, FiniteSets

CONSTANTS
  Witness,
  NodeId,
  MaxNodes,  \* bound: nodes that are ever made
  MaxWire,   \* bound: bundles exported
  MaxList,   \* bound: bundles given to one reconciliation
  MaxMishaps \* bound: backups taken, restores and damaged bundles together

ASSUME WitnessAssumption ==
  /\ MaxNodes \in Nat /\ MaxWire \in Nat /\ MaxList \in Nat /\ MaxMishaps \in Nat

VARIABLES
  made,    \* every node ever made, by hash
  dag,     \* per witness: the hashes in its WitnessDag
  backup,  \* per witness: the hashes in its latest backup
  wire,    \* the bundles exported so far
  desk,    \* the reconciliation: its bundles, its DAG and its verdicts
  mishaps

vars == <<made, dag, backup, wire, desk, mishaps>>

-------------------------------------------------------------------------------
(* WitnessDag *)

Parents(h) == made[h].parents
Ids(hashes) == {made[h].id : h \in hashes}

\* verify(): every parent is there and no id twice.  (A node is younger than
\* its parents, so there is no cycle.)
Verifies(hashes) ==
  /\ \A h \in hashes : Parents(h) \subseteq hashes
  /\ \A g, h \in hashes : made[g].id = made[h].id => g = h

\* append: under the parents the caller names, by default the heads.
AppendNode(w) ==
  /\ Len(made) < MaxNodes
  /\ \E id \in NodeId \ Ids(dag[w]), parents \in SUBSET dag[w] :
       made' = Append(made, [id |-> id, parents |-> parents])
  /\ dag' = [dag EXCEPT ![w] = @ \cup {Len(made')}]
  /\ UNCHANGED <<backup, wire, desk, mishaps>>

-------------------------------------------------------------------------------
(* Bundles *)

\* exportWitnessBundle: all nodes, with a signed checkpoint of them.
Export(w) ==
  /\ Cardinality(wire) < MaxWire /\ dag[w] # {}
  /\ wire' = wire \cup {[from |-> w, nodes |-> dag[w], intact |-> TRUE]}
  /\ UNCHANGED <<made, dag, backup, desk, mishaps>>

\* A copy of a bundle is damaged on its way: the manifest hash, a signature or
\* the checkpoint does not fit.
Damage(b) ==
  /\ mishaps < MaxMishaps /\ b.intact
  /\ wire' = wire \cup {[b EXCEPT !.intact = FALSE]}
  /\ mishaps' = mishaps + 1
  /\ UNCHANGED <<made, dag, backup, desk>>

\* verifyWitnessBundle
Genuine(b) == b.intact /\ Verifies(b.nodes)

\* importWitnessBundle takes what it does not have, parents first, and throws
\* QDAG_DUPLICATE_NODE_ID at a node whose id the target has for another one.
\* What it took before stays.
Everything(nodes, target) == nodes
Missing(nodes, target) == nodes \ target
Clashing(nodes, target) == {h \in Missing(nodes, target) : made[h].id \in Ids(target)}

AnyTime(h, held) == TRUE
Placeable(h, held) == Parents(h) \subseteq held

\* What may have been taken when a clash ends the import.
TakenBeforeClash(nodes, target) ==
  {taken \in SUBSET (Missing(nodes, target) \ Clashing(nodes, target)) :
     /\ \A h \in taken : Placeable(h, target \cup taken)
     /\ \E h \in Clashing(nodes, target) : Placeable(h, target \cup taken)}

Imported(nodes, target) ==
  IF Clashing(nodes, target) = {} THEN {target \cup nodes}
  ELSE {target \cup taken : taken \in TakenBeforeClash(nodes, target)}

Import(w, b) ==
  /\ Genuine(b)
  /\ \E result \in Imported(b.nodes, dag[w]) : dag' = [dag EXCEPT ![w] = result]
  /\ UNCHANGED <<made, backup, wire, desk, mishaps>>

-------------------------------------------------------------------------------
(* Backups *)

\* create(), by a script that has the witness to itself.
Backup(w) ==
  /\ mishaps < MaxMishaps /\ Verifies(dag[w])
  /\ backup' = [backup EXCEPT ![w] = dag[w]]
  /\ mishaps' = mishaps + 1
  /\ UNCHANGED <<made, dag, wire, desk>>

\* restore() and the restart after it.  What came after the backup is gone, and
\* its node ids may be given again.
Restore(w) ==
  /\ mishaps < MaxMishaps /\ Verifies(backup[w])
  /\ dag' = [dag EXCEPT ![w] = backup[w]]
  /\ mishaps' = mishaps + 1
  /\ UNCHANGED <<made, backup, wire, desk>>

-------------------------------------------------------------------------------
(* reconcileWitnessBundles *)

\* No trusted witness given: every witness is trusted.
Trusts(b) == desk.trusted = {} \/ b.from \in desk.trusted

NoDesk == [trusted |-> {}, given |-> {}, todo |-> <<>>, dag |-> {}, accepted |-> {}, rejected |-> {}]

\* It is given a list of bundles, in whatever order they came.  Its DAG goes to
\* its caller and nowhere else, so the model ends with it.
GiveBundles ==
  /\ desk = NoDesk
  /\ \E n \in 1 .. MaxList : \E list \in [1 .. n -> wire], trusted \in SUBSET Witness :
       desk' = [NoDesk EXCEPT !.trusted = trusted, !.todo = list, !.given = {list[i] : i \in 1 .. n}]
  /\ UNCHANGED <<made, dag, backup, wire, mishaps>>

\* The loop takes the last bundle of the list.  A bundle of an unknown witness
\* or one that does not verify is rejected, and one whose import clashes too.
\* A verified bundle has all its history, so that none is put off.
TakeBundle ==
  /\ desk.todo # <<>>
  /\ LET b == desk.todo[Len(desk.todo)]
         rest == SubSeq(desk.todo, 1, Len(desk.todo) - 1)
     IN IF ~Trusts(b) \/ ~Genuine(b)
        THEN desk' = [desk EXCEPT !.todo = rest, !.rejected = @ \cup {b}]
        ELSE \E result \in Imported(b.nodes, desk.dag) :
               desk' = IF Clashing(b.nodes, desk.dag) = {}
                       THEN [desk EXCEPT !.todo = rest, !.dag = result, !.accepted = @ \cup {b}]
                       ELSE [desk EXCEPT !.todo = rest, !.dag = result, !.rejected = @ \cup {b}]
  /\ UNCHANGED <<made, dag, backup, wire, mishaps>>

Init ==
  /\ made = <<>>
  /\ dag = [w \in Witness |-> {}]
  /\ backup = [w \in Witness |-> {}]
  /\ wire = {}
  /\ desk = NoDesk
  /\ mishaps = 0

Next ==
  \/ /\ desk = NoDesk
     /\ \/ \E w \in Witness :
             \/ AppendNode(w) \/ Export(w)
             \/ Backup(w) \/ Restore(w)
             \/ \E b \in wire : Import(w, b)
        \/ \E b \in wire : Damage(b)
  \/ GiveBundles \/ TakeBundle

Spec == Init /\ [][Next]_vars

-------------------------------------------------------------------------------
(* Properties *)

\* Whatever was imported and restored, in whatever order, and wherever an import
\* broke off, every DAG verifies: no node without its history, no id for two
\* nodes.
DagsVerify ==
  Verifies(desk.dag) /\ \A w \in Witness : Verifies(dag[w])

Usable == {b \in desk.given : Trusts(b) /\ Genuine(b)}
NodesOf(bundles) == UNION {b.nodes : b \in bundles}

\* A finished reconciliation has judged every bundle, has every node of those it
\* accepted and none of an untrusted or damaged one.  If no two nodes of the
\* usable bundles share an id, it has accepted all of those and has all of their
\* nodes, whatever the order of the list.
ReconcileIgnoresOrder ==
  desk.todo = <<>> =>
    /\ desk.accepted \cup desk.rejected = desk.given
    /\ NodesOf(desk.accepted) \subseteq desk.dag
    /\ desk.dag \subseteq NodesOf(Usable)
    /\ Verifies(NodesOf(Usable)) => desk.accepted = Usable /\ desk.dag = NodesOf(Usable)
===============================================================================
