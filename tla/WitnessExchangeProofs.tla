------------------------- MODULE WitnessExchangeProofs -------------------------
(***************************************************************************)
(* Proofs about WitnessExchange, for any witnesses, node ids and bounds:   *)
(* every DAG keeps its history whole and its node ids apart, and the       *)
(* outcome of a reconciliation does not depend on the order of its list.   *)
(***************************************************************************)
EXTENDS WitnessExchange, TLAPS

Hashes == 1 .. Len(made)
Bundle == [from : Witness, nodes : SUBSET Hashes, intact : BOOLEAN]

Typed ==
  /\ made \in Seq([id : NodeId, parents : SUBSET Nat])
  /\ dag \in [Witness -> SUBSET Hashes]
  /\ backup \in [Witness -> SUBSET Hashes]
  /\ wire \subseteq Bundle
  /\ desk \in [trusted : SUBSET Witness, given : SUBSET wire, todo : Seq(wire),
               dag : SUBSET Hashes, accepted : SUBSET wire, rejected : SUBSET wire]
  /\ mishaps \in Nat

Waiting == {desk.todo[i] : i \in 1 .. Len(desk.todo)}

\* What the reconciliation has done so far.
DeskIsSound ==
  /\ desk.given = desk.accepted \cup desk.rejected \cup Waiting
  /\ desk.accepted \subseteq Usable
  /\ NodesOf(desk.accepted) \subseteq desk.dag
  /\ desk.dag \subseteq NodesOf(Usable)
  /\ Verifies(NodesOf(Usable)) => desk.rejected \cap Usable = {}

ExchangeInv == Typed /\ DagsVerify /\ DeskIsSound

-------------------------------------------------------------------------------

\* An import of a bundle that verifies into a DAG that verifies leaves one that
\* verifies, with all that was there and nothing that is in neither; and with
\* the whole bundle unless an id clashed.
LEMMA ImportIsSound ==
  ASSUME NEW nodes, NEW target, Verifies(nodes), Verifies(target),
         NEW result \in Imported(nodes, target)
  PROVE  /\ Verifies(result)
         /\ target \subseteq result /\ result \subseteq target \cup nodes
         /\ Clashing(nodes, target) = {} => result = target \cup nodes
  <1>1. CASE Clashing(nodes, target) = {}
    <2>1. result = target \cup nodes
      BY <1>1 DEF Imported
    <2>2. ASSUME NEW h \in nodes \ target, NEW g \in target PROVE made[h].id # made[g].id
      BY <1>1 DEF Clashing, Missing, Ids
    <2>3. \A h \in result : Parents(h) \subseteq result
      BY <2>1 DEF Verifies
    <2>4. ASSUME NEW g \in result, NEW h \in result, made[g].id = made[h].id PROVE g = h
      BY <2>1, <2>2, <2>4 DEF Verifies
    <2>5. QED
      BY <2>1, <2>3, <2>4 DEF Verifies
  <1>2. CASE Clashing(nodes, target) # {}
    <2>1. PICK taken \in TakenBeforeClash(nodes, target) : result = target \cup taken
      BY <1>2 DEF Imported
    <2>2. /\ taken \subseteq nodes \ target
          /\ \A h \in taken : h \notin Clashing(nodes, target) /\ Parents(h) \subseteq target \cup taken
      BY <2>1 DEF TakenBeforeClash, Missing, Placeable
    <2>3. ASSUME NEW h \in taken, NEW g \in target PROVE made[h].id # made[g].id
      BY <2>2 DEF Clashing, Missing, Ids
    <2>4. \A h \in result : Parents(h) \subseteq result
      BY <2>1, <2>2 DEF Verifies
    <2>5. ASSUME NEW g \in result, NEW h \in result, made[g].id = made[h].id PROVE g = h
      BY <2>1, <2>2, <2>3, <2>5 DEF Verifies
    <2>6. QED
      BY <1>2, <2>1, <2>2, <2>4, <2>5 DEF Verifies
  <1>3. QED
    BY <1>1, <1>2

LEMMA ExchangeInit == Init => ExchangeInv
  <1> SUFFICES ASSUME Init PROVE ExchangeInv
    OBVIOUS
  <1>1. Typed
    BY DEF Init, Typed, NoDesk, Hashes, Bundle
  <1>2. DagsVerify
    BY DEF Init, DagsVerify, Verifies, NoDesk
  <1>3. DeskIsSound
    BY DEF Init, DeskIsSound, NoDesk, Usable, NodesOf, Waiting
  <1>4. QED
    BY <1>1, <1>2, <1>3 DEF ExchangeInv

\* A reconciliation that has not begun is sound whatever else happens.
LEMMA IdleDesk ==
  ASSUME desk = NoDesk, UNCHANGED desk
  PROVE  DeskIsSound' /\ desk'.dag = {}
  BY DEF DeskIsSound, NoDesk, Usable, NodesOf, Waiting

LEMMA AppendStep ==
  ASSUME ExchangeInv, desk = NoDesk, NEW w \in Witness, AppendNode(w)
  PROVE  ExchangeInv'
  <1> USE DEF ExchangeInv
  <1>1. PICK id \in NodeId \ Ids(dag[w]), parents \in SUBSET dag[w] :
          made' = Append(made, [id |-> id, parents |-> parents])
    BY DEF AppendNode
  <1>2. /\ dag' = [dag EXCEPT ![w] = @ \cup {Len(made')}]
        /\ UNCHANGED <<backup, wire, desk, mishaps>>
    BY DEF AppendNode
  <1>3. /\ Len(made') = Len(made) + 1
        /\ Len(made) \in Nat
        /\ \A h \in Hashes : made'[h] = made[h]
        /\ made'[Len(made')] = [id |-> id, parents |-> parents]
        /\ Hashes \subseteq Hashes' /\ Len(made') \in Hashes'
    BY <1>1 DEF Typed, Hashes
  <1>4. Typed'
    <2>1. made' \in Seq([id : NodeId, parents : SUBSET Nat])
      BY <1>1, <1>3 DEF Typed, Hashes
    <2>2. dag' \in [Witness -> SUBSET Hashes'] /\ backup' \in [Witness -> SUBSET Hashes']
      BY <1>2, <1>3 DEF Typed
    <2>3. wire' \subseteq Bundle'
      BY <1>2, <1>3 DEF Typed, Bundle
    <2>4. desk' \in [trusted : SUBSET Witness, given : SUBSET wire', todo : Seq(wire'),
                     dag : SUBSET Hashes', accepted : SUBSET wire', rejected : SUBSET wire']
      BY <1>2, <1>3 DEF NoDesk
    <2>5. QED
      BY <1>2, <2>1, <2>2, <2>3, <2>4 DEF Typed
  <1>5. ASSUME NEW v \in Witness PROVE Verifies(dag[v])'
    <2>1. dag[v] \subseteq Hashes /\ Verifies(dag[v]) /\ dag[w] \subseteq Hashes
      BY DEF Typed, DagsVerify
    <2>2. /\ \A h \in dag[v] : made[h].parents \subseteq dag[v]
          /\ \A g, h \in dag[v] : made[g].id = made[h].id => g = h
      BY <2>1 DEF Verifies, Parents
    <2>3. \A h \in dag[v] : made'[h] = made[h]
      BY <1>3, <2>1
    <2>4. CASE v # w
      <3>1. dag'[v] = dag[v]
        BY <1>2, <2>4 DEF Typed
      <3>2. \A h \in dag'[v] : made'[h].parents \subseteq dag'[v]
        BY <2>2, <2>3, <3>1
      <3>3. \A g, h \in dag'[v] : made'[g].id = made'[h].id => g = h
        BY <2>2, <2>3, <3>1
      <3>4. QED
        BY <3>2, <3>3 DEF Verifies, Parents
    <2>5. CASE v = w
      <3>1. dag'[v] = dag[v] \cup {Len(made')}
        BY <1>2, <2>5 DEF Typed
      <3>2. Len(made') \notin dag[v]
        BY <1>3, <2>1 DEF Hashes
      <3>3. \A h \in dag[v] : made[h].id # id
        BY <1>1, <2>5 DEF Ids
      <3>4. \A h \in dag'[v] : made'[h].parents \subseteq dag'[v]
        <4> SUFFICES ASSUME NEW h \in dag'[v] PROVE made'[h].parents \subseteq dag'[v]
          OBVIOUS
        <4>1. CASE h \in dag[v]
          BY <2>2, <2>3, <3>1, <4>1
        <4>2. CASE h = Len(made')
          BY <1>3, <2>5, <3>1, <4>2
        <4>3. QED
          BY <3>1, <4>1, <4>2
      <3>5. \A g, h \in dag'[v] : made'[g].id = made'[h].id => g = h
        BY <1>3, <2>2, <2>3, <3>1, <3>3
      <3>6. QED
        BY <3>4, <3>5 DEF Verifies, Parents
    <2>6. QED
      BY <2>4, <2>5
  <1>6. DeskIsSound' /\ desk'.dag = {}
    BY <1>2, IdleDesk
  <1>7. DagsVerify'
    BY <1>5, <1>6 DEF DagsVerify, Verifies
  <1>8. QED
    BY <1>4, <1>6, <1>7

\* The bundles change, the DAGs do not.
LEMMA WireStep ==
  ASSUME ExchangeInv, desk = NoDesk,
         (\E w \in Witness : Export(w)) \/ (\E b \in wire : Damage(b)) \/ (\E w \in Witness : Backup(w))
  PROVE  ExchangeInv'
  <1> USE DEF ExchangeInv
  <1>1. UNCHANGED <<made, dag, desk>> /\ wire \subseteq wire'
    BY DEF Export, Damage, Backup
  <1> DEFINE NewWire == /\ wire' \subseteq Bundle
                        /\ backup' \in [Witness -> SUBSET Hashes] /\ mishaps' \in Nat
  <1>2. NewWire
    <2>1. ASSUME NEW w \in Witness, Export(w) PROVE NewWire
      <3>1. [from |-> w, nodes |-> dag[w], intact |-> TRUE] \in Bundle
        BY DEF Typed, Bundle
      <3>2. UNCHANGED <<backup, mishaps>>
            /\ wire' = wire \cup {[from |-> w, nodes |-> dag[w], intact |-> TRUE]}
        BY <2>1 DEF Export
      <3>3. QED
        BY <3>1, <3>2 DEF Typed
    <2>2. ASSUME NEW b \in wire, Damage(b) PROVE NewWire
      <3>1. [b EXCEPT !.intact = FALSE] \in Bundle
        BY DEF Typed, Bundle
      <3>2. PICK damaged \in Bundle : wire' = wire \cup {damaged}
        BY <2>2, <3>1 DEF Damage
      <3>3. UNCHANGED backup /\ mishaps' = mishaps + 1
        BY <2>2 DEF Damage
      <3>4. QED
        BY <3>2, <3>3 DEF Typed
    <2>3. ASSUME NEW w \in Witness, Backup(w) PROVE NewWire
      BY <2>3 DEF Backup, Typed
    <2>4. QED
      BY <2>1, <2>2, <2>3
  <1>3. desk' \in [trusted : SUBSET Witness, given : SUBSET wire', todo : Seq(wire'),
                   dag : SUBSET Hashes, accepted : SUBSET wire', rejected : SUBSET wire']
    BY <1>1 DEF NoDesk
  <1>4. Typed'
    BY <1>1, <1>2, <1>3 DEF Typed, Hashes, Bundle
  <1>5. DagsVerify'
    BY <1>1 DEF DagsVerify, Verifies, Parents
  <1>6. QED
    BY <1>1, <1>4, <1>5, IdleDesk

\* One DAG changes, and what it becomes verifies.
LEMMA DagStep ==
  ASSUME ExchangeInv, desk = NoDesk, NEW w \in Witness, NEW result \in SUBSET Hashes,
         Verifies(result), dag' = [dag EXCEPT ![w] = result],
         mishaps' \in Nat, UNCHANGED <<made, backup, wire, desk>>
  PROVE  ExchangeInv'
  <1> USE DEF ExchangeInv
  <1>1. Typed'
    BY DEF Typed, Hashes, Bundle
  <1>2. Verifies(result)'
    BY DEF Verifies, Parents
  <1>3. ASSUME NEW v \in Witness PROVE Verifies(dag[v])'
    <2>1. CASE v = w
      <3>1. dag'[v] = result
        BY <2>1 DEF Typed
      <3>2. QED
        BY <1>2, <3>1 DEF Verifies, Parents
    <2>2. CASE v # w
      <3>1. dag'[v] = dag[v] /\ Verifies(dag[v])
        BY <2>2 DEF Typed, DagsVerify
      <3>2. QED
        BY <3>1 DEF Verifies, Parents
    <2>3. QED
      BY <2>1, <2>2
  <1>4. DeskIsSound' /\ desk'.dag = {}
    BY IdleDesk
  <1>5. DagsVerify'
    BY <1>3, <1>4 DEF DagsVerify, Verifies
  <1>6. QED
    BY <1>1, <1>4, <1>5

LEMMA ImportStep ==
  ASSUME ExchangeInv, desk = NoDesk, NEW w \in Witness, NEW b \in wire, Import(w, b)
  PROVE  ExchangeInv'
  <1>1. PICK result \in Imported(b.nodes, dag[w]) : dag' = [dag EXCEPT ![w] = result]
    BY DEF Import
  <1>2. Verifies(b.nodes) /\ Verifies(dag[w]) /\ UNCHANGED <<made, backup, wire, desk, mishaps>>
    BY DEF Import, Genuine, ExchangeInv, DagsVerify
  <1>3. Verifies(result) /\ result \subseteq dag[w] \cup b.nodes
    BY <1>2, ImportIsSound
  <1>4. b.nodes \subseteq Hashes /\ dag[w] \subseteq Hashes /\ mishaps \in Nat
    BY DEF ExchangeInv, Typed, Bundle
  <1>5. QED
    BY <1>1, <1>2, <1>3, <1>4, DagStep

LEMMA RestoreStep ==
  ASSUME ExchangeInv, desk = NoDesk, NEW w \in Witness, Restore(w)
  PROVE  ExchangeInv'
  <1>1. backup[w] \in SUBSET Hashes /\ mishaps' \in Nat
    BY DEF ExchangeInv, Typed, Restore
  <1>2. QED
    BY <1>1, DagStep DEF Restore

LEMMA GiveStep ==
  ASSUME ExchangeInv, GiveBundles
  PROVE  ExchangeInv'
  <1> USE DEF ExchangeInv
  <1>1. PICK n \in 1 .. MaxList : \E list \in [1 .. n -> wire], trusted \in SUBSET Witness :
          desk' = [NoDesk EXCEPT !.trusted = trusted, !.todo = list, !.given = {list[i] : i \in 1 .. n}]
    BY DEF GiveBundles
  <1>2. PICK list \in [1 .. n -> wire], trusted \in SUBSET Witness :
          desk' = [NoDesk EXCEPT !.trusted = trusted, !.todo = list, !.given = {list[i] : i \in 1 .. n}]
    BY <1>1
  <1>3. n \in Nat /\ list \in Seq(wire) /\ Len(list) = n
    BY WitnessAssumption
  <1>4. desk' = [trusted |-> trusted, given |-> {list[i] : i \in 1 .. n}, todo |-> list,
                 dag |-> {}, accepted |-> {}, rejected |-> {}]
    BY <1>2 DEF NoDesk
  <1>5. UNCHANGED <<made, dag, backup, wire, mishaps>>
    BY DEF GiveBundles
  <1>6. Typed'
    BY <1>3, <1>4, <1>5 DEF Typed, Hashes, Bundle
  <1>7. DagsVerify'
    BY <1>4, <1>5 DEF DagsVerify, Verifies, Parents
  <1>8. DeskIsSound'
    BY <1>3, <1>4 DEF DeskIsSound, Waiting, NodesOf
  <1>9. QED
    BY <1>6, <1>7, <1>8

\* The bundle that is taken, and those that are left.
Taken == desk.todo[Len(desk.todo)]
Rest == SubSeq(desk.todo, 1, Len(desk.todo) - 1)

LEMMA TakenBundle ==
  ASSUME ExchangeInv, desk.todo # <<>>
  PROVE  /\ Taken \in wire /\ Taken \in Bundle
         /\ Rest \in Seq(wire)
         /\ Waiting = {Rest[i] : i \in 1 .. Len(Rest)} \cup {Taken}
         /\ Taken \in desk.given
  <1> USE DEF ExchangeInv
  <1> DEFINE n == Len(desk.todo)
  <1>1. desk.todo \in Seq(wire) /\ n \in Nat
    BY DEF Typed
  <1>2. n > 0 /\ Taken \in wire
    BY <1>1 DEF Taken
  <1>3. Rest \in Seq(wire) /\ Len(Rest) = n - 1 /\ \A i \in 1 .. n - 1 : Rest[i] = desk.todo[i]
    BY <1>1, <1>2 DEF Rest
  <1>4. Waiting = {Rest[i] : i \in 1 .. Len(Rest)} \cup {Taken}
    <2>1. Waiting = {desk.todo[i] : i \in 1 .. n - 1} \cup {desk.todo[n]}
      <3>1. 1 .. n = (1 .. n - 1) \cup {n}
        BY <1>1, <1>2
      <3>2. QED
        BY <3>1, Zenon DEF Waiting
    <2>2. {Rest[i] : i \in 1 .. Len(Rest)} = {desk.todo[i] : i \in 1 .. n - 1}
      <3>1. 1 .. Len(Rest) = 1 .. n - 1
        BY <1>3
      <3>2. QED
        BY <1>3, <3>1, Zenon
    <2>3. QED
      BY <2>1, <2>2 DEF Taken
  <1>5. QED
    BY <1>2, <1>3, <1>4 DEF DeskIsSound, Typed

\* The desk before and after one bundle: what its three outcomes share.
LEMMA Judged ==
  ASSUME ExchangeInv, desk.todo # <<>>, UNCHANGED <<made, dag, backup, wire, mishaps>>,
         NEW out \in SUBSET Hashes, NEW ok \in SUBSET {Taken}, NEW no \in SUBSET {Taken},
         desk' = [trusted |-> desk.trusted, given |-> desk.given, todo |-> Rest, dag |-> out,
                  accepted |-> desk.accepted \cup ok, rejected |-> desk.rejected \cup no],
         ok \cup no = {Taken},
         Verifies(out),
         ok \subseteq Usable,
         desk.dag \subseteq out, out \subseteq desk.dag \cup NodesOf(Usable),
         NodesOf(ok) \subseteq out,
         Verifies(NodesOf(Usable)) => no \cap Usable = {}
  PROVE  ExchangeInv'
  <1> USE DEF ExchangeInv
  <1>1. Typed'
    <2>1. Rest \in Seq(wire) /\ Taken \in wire
      BY TakenBundle
    <2>2. /\ desk.trusted \in SUBSET Witness /\ desk.given \in SUBSET wire
          /\ desk.accepted \in SUBSET wire /\ desk.rejected \in SUBSET wire
      BY DEF Typed
    <2>3. desk' \in [trusted : SUBSET Witness, given : SUBSET wire, todo : Seq(wire),
                     dag : SUBSET Hashes, accepted : SUBSET wire, rejected : SUBSET wire]
      BY <2>1, <2>2
    <2>4. QED
      BY <2>3 DEF Typed, Hashes, Bundle
  <1>2. DagsVerify'
    BY DEF DagsVerify, Verifies, Parents
  <1>3. Usable' = Usable
    BY DEF Usable, Trusts, Genuine, Verifies, Parents
  <1>4. DeskIsSound'
    <2>1. desk'.given = desk'.accepted \cup desk'.rejected \cup Waiting'
      <3>1. Waiting' = {Rest[i] : i \in 1 .. Len(Rest)}
        BY DEF Waiting
      <3>2. Waiting = Waiting' \cup ok \cup no
        BY <3>1, TakenBundle
      <3>3. desk.given = desk.accepted \cup desk.rejected \cup Waiting
        BY DEF DeskIsSound
      <3>4. QED
        BY <3>2, <3>3
    <2>2. desk'.accepted \subseteq Usable'
      BY <1>3 DEF DeskIsSound
    <2>3. NodesOf(desk.accepted \cup ok) \subseteq out /\ out \subseteq NodesOf(Usable)
      BY DEF DeskIsSound, NodesOf
    <2>4. NodesOf(desk'.accepted) \subseteq desk'.dag /\ desk'.dag \subseteq NodesOf(Usable')
      BY <1>3, <2>3
    <2>5. Verifies(NodesOf(Usable)) => (desk.rejected \cup no) \cap Usable = {}
      BY DEF DeskIsSound
    <2>6. Verifies(NodesOf(Usable))' => desk'.rejected \cap Usable' = {}
      BY <1>3, <2>5 DEF Verifies, Parents, NodesOf
    <2>7. QED
      BY <2>1, <2>2, <2>4, <2>6 DEF DeskIsSound, NodesOf
  <1>5. QED
    BY <1>1, <1>2, <1>4

LEMMA TakeStep ==
  ASSUME ExchangeInv, TakeBundle
  PROVE  ExchangeInv'
  <1>1. desk.todo # <<>> /\ UNCHANGED <<made, dag, backup, wire, mishaps>>
    BY DEF TakeBundle
  <1>2. IF ~Trusts(Taken) \/ ~Genuine(Taken)
        THEN desk' = [desk EXCEPT !.todo = Rest, !.rejected = @ \cup {Taken}]
        ELSE \E result \in Imported(Taken.nodes, desk.dag) :
               desk' = IF Clashing(Taken.nodes, desk.dag) = {}
                       THEN [desk EXCEPT !.todo = Rest, !.dag = result, !.accepted = @ \cup {Taken}]
                       ELSE [desk EXCEPT !.todo = Rest, !.dag = result, !.rejected = @ \cup {Taken}]
    BY DEF TakeBundle, Taken, Rest
  <1>3. Taken \in Bundle /\ (Taken \in Usable <=> Trusts(Taken) /\ Genuine(Taken))
    BY <1>1, TakenBundle DEF Usable
  <1>4. Verifies(desk.dag) /\ desk.dag \subseteq Hashes
    BY DEF ExchangeInv, Typed, DagsVerify
  <1>5. desk = [trusted |-> desk.trusted, given |-> desk.given, todo |-> desk.todo, dag |-> desk.dag,
                accepted |-> desk.accepted, rejected |-> desk.rejected]
    BY DEF ExchangeInv, Typed
  <1>6. CASE Taken \notin Usable
    <2>1. desk' = [trusted |-> desk.trusted, given |-> desk.given, todo |-> Rest, dag |-> desk.dag,
                   accepted |-> desk.accepted \cup {}, rejected |-> desk.rejected \cup {Taken}]
      BY <1>2, <1>3, <1>5, <1>6
    <2>2. /\ desk.dag \in SUBSET Hashes
          /\ {} \in SUBSET {Taken} /\ {Taken} \in SUBSET {Taken} /\ {} \cup {Taken} = {Taken}
          /\ {} \subseteq Usable /\ NodesOf({}) \subseteq desk.dag
          /\ desk.dag \subseteq desk.dag /\ desk.dag \subseteq desk.dag \cup NodesOf(Usable)
          /\ Verifies(NodesOf(Usable)) => {Taken} \cap Usable = {}
      BY <1>4, <1>6 DEF NodesOf
    <2>3. QED
      BY <1>1, <1>4, <2>1, <2>2, Judged
  <1>7. CASE Taken \in Usable
    <2>1. PICK result \in Imported(Taken.nodes, desk.dag) :
            desk' = IF Clashing(Taken.nodes, desk.dag) = {}
                    THEN [desk EXCEPT !.todo = Rest, !.dag = result, !.accepted = @ \cup {Taken}]
                    ELSE [desk EXCEPT !.todo = Rest, !.dag = result, !.rejected = @ \cup {Taken}]
      BY <1>2, <1>3, <1>7
    <2>2. /\ Verifies(Taken.nodes) /\ Taken.nodes \subseteq Hashes
          /\ Taken.nodes \subseteq NodesOf(Usable)
      BY <1>3, <1>7 DEF Genuine, Bundle, NodesOf
    <2>3. /\ Verifies(result)
          /\ desk.dag \subseteq result /\ result \subseteq desk.dag \cup Taken.nodes
          /\ Clashing(Taken.nodes, desk.dag) = {} => result = desk.dag \cup Taken.nodes
      BY <1>4, <2>2, ImportIsSound
    <2>4. result \in SUBSET Hashes /\ result \subseteq desk.dag \cup NodesOf(Usable)
      BY <1>4, <2>2, <2>3
    <2>5. NodesOf({Taken}) = Taken.nodes /\ NodesOf({}) = {}
      BY DEF NodesOf
    <2>6. CASE Clashing(Taken.nodes, desk.dag) = {}
      <3>1. desk' = [trusted |-> desk.trusted, given |-> desk.given, todo |-> Rest, dag |-> result,
                     accepted |-> desk.accepted \cup {Taken}, rejected |-> desk.rejected \cup {}]
        BY <1>5, <2>1, <2>6
      <3>2. /\ {Taken} \in SUBSET {Taken} /\ {} \in SUBSET {Taken} /\ {Taken} \cup {} = {Taken}
            /\ {Taken} \subseteq Usable /\ NodesOf({Taken}) \subseteq result
            /\ Verifies(NodesOf(Usable)) => {} \cap Usable = {}
        BY <1>7, <2>3, <2>5, <2>6
      <3>3. QED
        BY <1>1, <2>3, <2>4, <3>1, <3>2, Judged
    <2>7. CASE Clashing(Taken.nodes, desk.dag) # {}
      <3>1. desk' = [trusted |-> desk.trusted, given |-> desk.given, todo |-> Rest, dag |-> result,
                     accepted |-> desk.accepted \cup {}, rejected |-> desk.rejected \cup {Taken}]
        BY <1>5, <2>1, <2>7
      <3>2. PICK h \in Taken.nodes \ desk.dag, g \in desk.dag : made[h].id = made[g].id
        BY <2>7 DEF Clashing, Missing, Ids
      <3>3. g \in NodesOf(Usable) /\ h \in NodesOf(Usable) /\ g # h
        BY <2>2, <3>2 DEF ExchangeInv, DeskIsSound
      <3>4. ~Verifies(NodesOf(Usable))
        BY <3>2, <3>3 DEF Verifies
      <3>5. /\ {} \in SUBSET {Taken} /\ {Taken} \in SUBSET {Taken} /\ {} \cup {Taken} = {Taken}
            /\ {} \subseteq Usable /\ NodesOf({}) \subseteq result
            /\ Verifies(NodesOf(Usable)) => {Taken} \cap Usable = {}
        BY <2>5, <3>4
      <3>6. QED
        BY <1>1, <2>3, <2>4, <3>1, <3>5, Judged
    <2>8. QED
      BY <2>6, <2>7
  <1>8. QED
    BY <1>6, <1>7

LEMMA ExchangeStep == ExchangeInv /\ [Next]_vars => ExchangeInv'
  <1> SUFFICES ASSUME ExchangeInv, [Next]_vars PROVE ExchangeInv'
    OBVIOUS
  <1>1. CASE UNCHANGED vars
    <2>1. UNCHANGED <<made, dag, backup, wire, desk, mishaps>>
      BY <1>1 DEF vars
    <2>2. Typed'
      BY <2>1 DEF ExchangeInv, Typed, Hashes, Bundle
    <2>3. DagsVerify'
      BY <2>1 DEF ExchangeInv, DagsVerify, Verifies, Parents
    <2>4. DeskIsSound'
      BY <2>1 DEF ExchangeInv, DeskIsSound, Waiting, Usable, Trusts, Genuine, NodesOf, Verifies, Parents
    <2>5. QED
      BY <2>2, <2>3, <2>4 DEF ExchangeInv
  <1>2. CASE desk = NoDesk /\ \E w \in Witness : AppendNode(w)
    BY <1>2, AppendStep
  <1>3. CASE desk = NoDesk /\ ((\E w \in Witness : Export(w)) \/ (\E b \in wire : Damage(b))
                                 \/ (\E w \in Witness : Backup(w)))
    BY <1>3, WireStep
  <1>4. CASE desk = NoDesk /\ \E w \in Witness, b \in wire : Import(w, b)
    BY <1>4, ImportStep
  <1>5. CASE desk = NoDesk /\ \E w \in Witness : Restore(w)
    BY <1>5, RestoreStep
  <1>6. CASE GiveBundles
    BY <1>6, GiveStep
  <1>7. CASE TakeBundle
    BY <1>7, TakeStep
  <1>8. QED
    BY <1>1, <1>2, <1>3, <1>4, <1>5, <1>6, <1>7 DEF Next

LEMMA SpecInv == Spec => []ExchangeInv
  BY ExchangeInit, ExchangeStep, PTL DEF Spec

\* Imports in any order, imports that break off, damaged bundles, restores and
\* reconciliations leave every DAG with all of its history and no id twice.
THEOREM EveryDagVerifies == Spec => []DagsVerify
  <1>1. ExchangeInv => DagsVerify
    BY DEF ExchangeInv
  <1>2. QED
    BY <1>1, SpecInv, PTL

\* What a reconciliation accepts does not depend on the order of its list,
\* unless two nodes share an id.
THEOREM OrderIsIgnored == Spec => []ReconcileIgnoresOrder
  <1>1. ExchangeInv => ReconcileIgnoresOrder
    <2> SUFFICES ASSUME ExchangeInv, desk.todo = <<>>
                 PROVE  /\ desk.accepted \cup desk.rejected = desk.given
                        /\ NodesOf(desk.accepted) \subseteq desk.dag
                        /\ desk.dag \subseteq NodesOf(Usable)
                        /\ Verifies(NodesOf(Usable)) =>
                             desk.accepted = Usable /\ desk.dag = NodesOf(Usable)
      BY DEF ReconcileIgnoresOrder
    <2>1. Waiting = {}
      BY DEF Waiting
    <2>2. desk.accepted \cup desk.rejected = desk.given /\ Usable \subseteq desk.given
      BY <2>1 DEF ExchangeInv, DeskIsSound, Usable
    <2>3. Verifies(NodesOf(Usable)) => desk.accepted = Usable
      BY <2>2 DEF ExchangeInv, DeskIsSound
    <2>4. QED
      BY <2>2, <2>3 DEF ExchangeInv, DeskIsSound
  <1>2. QED
    BY <1>1, SpecInv, PTL
===============================================================================
