-------------------------- MODULE MemberMeta_proofs --------------------------
(***************************************************************************)
(* Proofs about node_meta and the alive / merge delegates, for any number *)
(* of nodes and foreign peers, any size bounds and any set of limits.     *)
(***************************************************************************)
EXTENDS MemberMeta, TLAPS

\* Every step keeps the variables in their types.
LEMMA TypeStep == TypeOK /\ [Next]_vars => TypeOK'
<1> SUFFICES ASSUME TypeOK, [Next]_vars PROVE TypeOK'
  OBVIOUS
<1>1. ASSUME NEW n \in Nodes, NEW len \in 0 .. MaxTagLen, SetTags(n, len) PROVE TypeOK'
  BY <1>1 DEF SetTags, TypeOK, SomeTags
<1>2. ASSUME NEW n \in Nodes, NEW limit \in Limits, NEW meta \in Meta, Announce(n, meta)
      PROVE  TypeOK'
  BY <1>2 DEF Announce, TypeOK, NodeState, Peers
<1>3. ASSUME NEW n \in Nodes, NEW limit \in Limits, NodeMeta(n, limit) PROVE TypeOK'
  <2>1. CASE tags[n] = NoTags
    <3>1. EmptyMeta \in Meta
      BY SizeAssumption DEF EmptyMeta, Meta
    <3>2. QED
      BY <1>3, <2>1, <3>1, <1>2 DEF NodeMeta
  <2>2. CASE tags[n] # NoTags
    <3>1. PICK l \in 0 .. MaxTagLen : tags[n] = {l}
      BY <2>2 DEF TypeOK, SomeTags
    <3>2. (CHOOSE x \in tags[n] : TRUE) = l
      BY <3>1
    <3> DEFINE lim == IF limit < MetaMaxSize THEN limit ELSE MetaMaxSize
    <3>3. CASE l > lim
      BY <1>3, <2>2, <3>2, <3>3 DEF NodeMeta, TypeOK
    <3>4. CASE ~(l > lim)
      <4>1. [len |-> l, ok |-> TRUE] \in Meta /\ EmptyMeta \in Meta
        BY <3>4, SizeAssumption DEF Meta, EmptyMeta
      <4>2. \E meta \in Meta : Announce(n, meta)
        BY <1>3, <2>2, <3>2, <3>4, <4>1 DEF NodeMeta
      <4>3. QED
        BY <4>2, <1>2
    <3>5. QED
      BY <3>3, <3>4
  <2>3. QED
    BY <2>1, <2>2
<1>4. ASSUME NEW n \in Nodes, Leave(n) PROVE TypeOK'
  BY <1>4 DEF Leave, TypeOK, NodeState, NoNode
<1>5. ASSUME NEW m \in Nodes, NEW S \in SUBSET NodeState, DelegateMerge(m, S)
      PROVE  view' \in [Nodes -> [Peers -> NodeState \cup {NoNode}]]
  <2>1. CASE UNCHANGED view
    BY <2>1 DEF TypeOK
  <2>2. CASE Admit(m, S)
    BY <2>2 DEF Admit, TypeOK
  <2>3. QED
    BY <1>5, <2>1, <2>2 DEF DelegateMerge
<1>6. ASSUME NEW m \in Nodes, NEW s \in ForeignStates \cup {ann[x] : x \in {y \in Nodes : ann[y] # NoNode}},
             NotifyAlive(m, s)
      PROVE  TypeOK'
  <2>1. s \in NodeState
    BY DEF ForeignStates, TypeOK
  <2>2. QED
    BY <1>6, <2>1, <1>5 DEF NotifyAlive, TypeOK
<1>7. ASSUME NEW m \in Nodes, NEW F \in {{}} \cup {{s} : s \in ForeignStates}, NotifyMerge(m, F)
      PROVE  TypeOK'
  <2> DEFINE S == {ann[x] : x \in {y \in Nodes \ {m} : ann[y] # NoNode}} \cup F
  <2>1. S \in SUBSET NodeState
    BY DEF ForeignStates, TypeOK
  <2>2. QED
    BY <1>7, <2>1, <1>5 DEF NotifyMerge, TypeOK
<1>8. CASE UNCHANGED vars
  BY <1>8 DEF vars, TypeOK
<1>9. QED
  BY <1>1, <1>3, <1>4, <1>6, <1>7, <1>8 DEF Next

\* The initial states are well typed.
LEMMA InitType == Init => TypeOK
BY DEF Init, TypeOK

\* The variables of node_meta and the merge delegates always have their types.
THEOREM TypeCorrect == Spec => []TypeOK
BY InitType, TypeStep, PTL DEF Spec

-----------------------------------------------------------------------------
(***************************************************************************)
(* AdmittedConvertible is inductive together with TypeOK: a callback that *)
(* returns Ok on a node with a user delegate admitted only states that    *)
(* node_to_member converted, and no other step touches the view.          *)
(***************************************************************************)
IInv == TypeOK /\ AdmittedConvertible

\* On a node with a user delegate, the merge callback admits nothing that
\* does not convert.
LEMMA MergeAdmitsConvertible ==
  ASSUME IInv, NEW m \in Nodes, NEW S \in SUBSET NodeState, DelegateMerge(m, S)
  PROVE  \A x \in Peers : m \in WithDelegate /\ view'[m][x] # NoNode
                            => NodeToMemberOk(view'[m][x])
<1> SUFFICES ASSUME NEW x \in Peers, m \in WithDelegate, view'[m][x] # NoNode
             PROVE  NodeToMemberOk(view'[m][x])
  OBVIOUS
<1>1. CASE UNCHANGED view
  BY <1>1 DEF IInv, AdmittedConvertible
<1>2. CASE Admit(m, S) /\ \A s \in S : NodeToMemberOk(s)
  <2>1. CASE \E s \in S : s.node = x
    BY <1>2, <2>1 DEF Admit, IInv, TypeOK
  <2>2. CASE ~\E s \in S : s.node = x
    BY <1>2, <2>2 DEF Admit, IInv, TypeOK, AdmittedConvertible
  <2>3. QED
    BY <2>1, <2>2
<1>3. QED
  BY <1>1, <1>2 DEF DelegateMerge

LEMMA IInvStep == IInv /\ [Next]_vars => IInv'
<1> SUFFICES ASSUME IInv, [Next]_vars PROVE IInv'
  OBVIOUS
<1>1. TypeOK'
  BY TypeStep DEF IInv
<1>2. CASE UNCHANGED view
  BY <1>1, <1>2 DEF IInv, AdmittedConvertible
<1>3. ASSUME NEW m \in Nodes, NEW S \in SUBSET NodeState, DelegateMerge(m, S)
      PROVE  IInv'
  <2>1. \A n \in Nodes \ {m} : view'[n] = view[n]
    <3>1. CASE UNCHANGED view
      BY <3>1
    <3>2. CASE Admit(m, S)
      BY <3>2 DEF Admit, IInv, TypeOK
    <3>3. QED
      BY <1>3, <3>1, <3>2 DEF DelegateMerge
  <2>2. QED
    BY <1>1, <1>3, <2>1, MergeAdmitsConvertible, NodesAssumption DEF IInv, AdmittedConvertible
<1>4. ASSUME NEW m \in Nodes, NEW s \in ForeignStates \cup {ann[x] : x \in {y \in Nodes : ann[y] # NoNode}},
             NotifyAlive(m, s)
      PROVE  IInv'
  <2>1. {s} \in SUBSET NodeState
    BY DEF ForeignStates, IInv, TypeOK
  <2>2. QED
    BY <1>4, <1>3, <2>1 DEF NotifyAlive
<1>5. ASSUME NEW m \in Nodes, NEW F \in {{}} \cup {{s} : s \in ForeignStates}, NotifyMerge(m, F)
      PROVE  IInv'
  <2>1. {ann[x] : x \in {y \in Nodes \ {m} : ann[y] # NoNode}} \cup F \in SUBSET NodeState
    BY DEF ForeignStates, IInv, TypeOK
  <2>2. QED
    BY <1>5, <1>3, <2>1 DEF NotifyMerge
<1>6. QED
  <2>1. ASSUME NEW n \in Nodes, NEW len \in 0 .. MaxTagLen, SetTags(n, len) PROVE IInv'
    BY <2>1, <1>2 DEF SetTags
  <2>2. ASSUME NEW n \in Nodes, NEW limit \in Limits, NodeMeta(n, limit) PROVE IInv'
    BY <2>2, <1>2 DEF NodeMeta, Announce
  <2>3. ASSUME NEW n \in Nodes, Leave(n) PROVE IInv'
    BY <2>3, <1>2 DEF Leave
  <2>4. CASE UNCHANGED vars
    BY <2>4, <1>2 DEF vars
  <2>5. QED
    BY <2>1, <2>2, <2>3, <2>4, <1>4, <1>5 DEF Next

(* Whatever mix of alive messages and push/pull merges a node with a user  *)
(* delegate receives, memberlist admits only node states node_to_member    *)
(* converts: tags within META_MAX_SIZE that decode.                        *)
THEOREM AdmitSafety == Spec => []AdmittedConvertible
<1>1. Init => IInv
  BY InitType, NodesAssumption DEF Init, IInv, AdmittedConvertible, Peers
<1>2. QED
  BY <1>1, IInvStep, PTL DEF Spec, IInv

-----------------------------------------------------------------------------
(***************************************************************************)
(* node_meta cannot panic when every limit memberlist passes is at least  *)
(* META_MAX_SIZE and META_MAX_SIZE is within Meta::MAX_SIZE: set_tags and *)
(* the initial tags keep the encoded length within META_MAX_SIZE.         *)
(***************************************************************************)
LimitsCover ==
  /\ META_MAX_SIZE <= MetaMaxSize
  /\ \A l \in Limits : META_MAX_SIZE <= l

TagsBounded == \A n \in Nodes : \A l \in tags[n] : l <= META_MAX_SIZE

PInv == TypeOK /\ TagsBounded /\ MetaNeverPanics

LEMMA PInvStep == LimitsCover /\ PInv /\ [Next]_vars => PInv'
<1> SUFFICES ASSUME LimitsCover, PInv, [Next]_vars PROVE PInv'
  OBVIOUS
<1>1. TypeOK'
  BY TypeStep DEF PInv
<1>2. ASSUME NEW n \in Nodes, NEW len \in 0 .. MaxTagLen, SetTags(n, len) PROVE PInv'
  BY <1>1, <1>2 DEF SetTags, PInv, TagsBounded, MetaNeverPanics, TypeOK, SomeTags
<1>3. ASSUME NEW n \in Nodes, NEW limit \in Limits, NodeMeta(n, limit) PROVE PInv'
  <2>1. CASE tags[n] = NoTags
    BY <1>1, <1>3, <2>1 DEF NodeMeta, Announce, PInv, TagsBounded, MetaNeverPanics
  <2>2. CASE tags[n] # NoTags
    <3>1. PICK l \in 0 .. MaxTagLen : tags[n] = {l}
      BY <2>2 DEF PInv, TypeOK, SomeTags
    <3>2. (CHOOSE x \in tags[n] : TRUE) = l
      BY <3>1
    <3>3. ~(l > (IF limit < MetaMaxSize THEN limit ELSE MetaMaxSize))
      BY <3>1, SizeAssumption DEF LimitsCover, PInv, TagsBounded
    <3>4. UNCHANGED <<tags, crashed>>
      BY <1>3, <2>2, <3>2, <3>3 DEF NodeMeta, Announce
    <3>5. QED
      BY <1>1, <3>4 DEF PInv, TagsBounded, MetaNeverPanics
  <2>3. QED
    BY <2>1, <2>2
<1>4. CASE UNCHANGED <<tags, crashed>>
  BY <1>1, <1>4 DEF PInv, TagsBounded, MetaNeverPanics
<1>5. QED
  BY <1>2, <1>3, <1>4 DEF Next, Leave, NotifyAlive, NotifyMerge, vars

(* When memberlist passes node_meta a limit of at least META_MAX_SIZE, as   *)
(* it passes Meta::MAX_SIZE, no tags that set_tags or the node's creation  *)
(* accepted make node_meta panic.                                          *)
THEOREM NoPanic == LimitsCover => (Spec => []MetaNeverPanics)
<1> SUFFICES ASSUME LimitsCover PROVE Spec => []MetaNeverPanics
  OBVIOUS
<1>1. Init => PInv
  BY InitType DEF Init, PInv, TagsBounded, MetaNeverPanics
<1>2. PInv /\ [Next]_vars => PInv'
  BY PInvStep
<1>3. QED
  BY <1>1, <1>2, PTL DEF Spec, PInv
=============================================================================
