----------------------------- MODULE MemberMeta -----------------------------
(***************************************************************************)
(* The node-metadata side of SerfDelegate (src/core/src/serf/delegate.rs): *)
(* how a node's tags become the meta of its alive announcements, and how  *)
(* a receiving node turns announced node states into members and asks     *)
(* the user's merge delegate before memberlist admits them.               *)
(*                                                                         *)
(*  - node_meta(limit): encode the configured tags, panicking when they    *)
(*    exceed min(limit, Meta::MAX_SIZE), and sending empty meta when the   *)
(*    encoder fails;                                                       *)
(*  - notify_alive / notify_merge: with a user delegate, convert every    *)
(*    node state by node_to_member (size check, tag decoding) and pass     *)
(*    the members to the delegate's notify_merge; any error rejects the    *)
(*    whole alive message or push/pull merge.                              *)
(*                                                                         *)
(* Meta is abstracted to its length and whether its tags decode; tags to   *)
(* their encoded length.  What memberlist does around the callbacks (it   *)
(* admits the node states when the callback returns Ok) and set_tags      *)
(* (spec 7 and 9: oversized tags are refused with TagsTooLarge) are not    *)
(* in src/ and follow the spec.                                            *)
(***************************************************************************)
EXTENDS Naturals, FiniteSets

CONSTANTS
  Nodes,          \* ruserf nodes
  Foreign,        \* peers of other builds, which may announce any meta
  WithDelegate,   \* the nodes whose SerfDelegate holds a user delegate
  Limits,         \* the limits memberlist passes to node_meta
  MetaMaxSize,    \* memberlist's Meta::MAX_SIZE
  META_MAX_SIZE,  \* the bound node_to_member checks
  MaxTagLen       \* bound: longest encoded tags a user may ask for

ASSUME NodesAssumption ==
  /\ Nodes # {} /\ Nodes \cap Foreign = {} /\ WithDelegate \subseteq Nodes
ASSUME SizeAssumption ==
  /\ {MetaMaxSize, META_MAX_SIZE, MaxTagLen} \subseteq Nat
  /\ Limits \subseteq Nat

Peers == Nodes \cup Foreign
NoTags == {}                 \* tags: {} for None, {len} for Some
SomeTags(len) == {len}
Meta == [len : 0 .. MetaMaxSize, ok : BOOLEAN]   \* ok: its tags decode
EmptyMeta == [len |-> 0, ok |-> TRUE]
NodeState == [node : Peers, meta : Meta, state : {"alive", "left"}]
NoNode == [node |-> "none", meta |-> EmptyMeta, state |-> "unknown"]

VARIABLES
  tags,      \* tags[n]: {len} for configured tags of that encoded length, or NoTags
  crashed,   \* crashed[n]: node_meta panicked on n
  ann,       \* ann[n]: n's latest announced node state, or NoNode
  view       \* view[m][x]: the state of x that m's memberlist admitted

vars == <<tags, crashed, ann, view>>

TypeOK ==
  /\ tags \in [Nodes -> {SomeTags(l) : l \in 0 .. MaxTagLen} \cup {NoTags}]
  /\ crashed \in [Nodes -> BOOLEAN]
  /\ ann \in [Nodes -> NodeState \cup {NoNode}]
  /\ view \in [Nodes -> [Peers -> NodeState \cup {NoNode}]]

(***************************************************************************)
(* set_tags (spec 7, 9): tags whose encoding exceeds META_MAX_SIZE are    *)
(* refused with TagsTooLarge; others replace the configured tags.         *)
(***************************************************************************)
SetTags(n, len) ==
  /\ ~crashed[n]
  /\ len <= META_MAX_SIZE
  /\ tags' = [tags EXCEPT ![n] = SomeTags(len)]
  /\ UNCHANGED <<crashed, ann, view>>

(***************************************************************************)
(* Memberlist builds n's alive announcement and calls node_meta(limit).   *)
(* No tags give empty meta.  Tags longer than min(limit, Meta::MAX_SIZE)  *)
(* panic, which ends the node's memberlist task.  Otherwise the tags are  *)
(* encoded; the encoder (TransformDelegate, not in src/) may fail, which  *)
(* is logged and announces empty meta.                                     *)
(***************************************************************************)
Announce(n, meta) ==
  /\ ann' = [ann EXCEPT ![n] = [node |-> n, meta |-> meta, state |-> "alive"]]
  /\ UNCHANGED <<tags, crashed, view>>

\* A faulty node_meta that panics when the tags fill the limit exactly.
NodeMetaOffByOne(n, limit) ==
  /\ ~crashed[n]
  /\ ann[n] = NoNode \/ ann[n].state = "alive"
  /\ IF tags[n] = NoTags
       THEN Announce(n, EmptyMeta)
       ELSE LET encoded_len == CHOOSE l \in tags[n] : TRUE
                lim == IF limit < MetaMaxSize THEN limit ELSE MetaMaxSize
            IN IF encoded_len >= lim
                 THEN /\ crashed' = [crashed EXCEPT ![n] = TRUE]
                      /\ UNCHANGED <<tags, ann, view>>
                 ELSE \E encodeOk \in BOOLEAN :
                        Announce(n, IF encodeOk THEN [len |-> encoded_len, ok |-> TRUE]
                                                ELSE EmptyMeta)

NodeMeta(n, limit) ==
  /\ ~crashed[n]
  /\ ann[n] = NoNode \/ ann[n].state = "alive"
  /\ IF tags[n] = NoTags
       THEN Announce(n, EmptyMeta)
       ELSE LET encoded_len == CHOOSE l \in tags[n] : TRUE
                lim == IF limit < MetaMaxSize THEN limit ELSE MetaMaxSize
            IN IF encoded_len > lim
                 THEN /\ crashed' = [crashed EXCEPT ![n] = TRUE]
                      /\ UNCHANGED <<tags, ann, view>>
                 ELSE \E encodeOk \in BOOLEAN :
                        Announce(n, IF encodeOk THEN [len |-> encoded_len, ok |-> TRUE]
                                                ELSE EmptyMeta)

\* A node leaves: memberlist announces its state as left (outside src/).
Leave(n) ==
  /\ ann[n] # NoNode
  /\ ann[n].state = "alive"
  /\ ann' = [ann EXCEPT ![n].state = "left"]
  /\ UNCHANGED <<tags, crashed, view>>

(***************************************************************************)
(* node_to_member succeeds when the meta is within META_MAX_SIZE (else     *)
(* TagsTooLarge) and its tags decode (else a transform error); the member *)
(* it builds (status Left or None) is only seen by the user delegate.     *)
(***************************************************************************)
NodeToMemberOk(s) == s.meta.len <= META_MAX_SIZE /\ s.meta.ok

(***************************************************************************)
(* notify_merge of the alive / merge delegates on node m for the node     *)
(* states S: without a user delegate, Ok; otherwise every state converts   *)
(* (the collect stops at the first error) and the user's notify_merge      *)
(* decides on the whole set.  Memberlist admits S exactly when the        *)
(* callback returns Ok.                                                    *)
(***************************************************************************)
Admit(m, S) == view' = [view EXCEPT ![m] = [x \in Peers |->
                          IF \E s \in S : s.node = x
                            THEN CHOOSE s \in S : s.node = x ELSE view[m][x]]]

\* A faulty notify_merge that skips the node states that do not convert
\* (a filter_map in place of the collect) and reports Ok for the rest.
DelegateMergeSkip(m, S) ==
  \/ Admit(m, S)
  \/ m \in WithDelegate /\ UNCHANGED view

DelegateMerge(m, S) ==
  IF m \notin WithDelegate
    THEN Admit(m, S)
    ELSE IF \A s \in S : NodeToMemberOk(s)
           THEN \/ Admit(m, S)
                \/ UNCHANGED view       \* the user's notify_merge refuses
           ELSE UNCHANGED view

\* Node states another build may announce for a foreign peer.
ForeignStates == {s \in NodeState : s.node \in Foreign}

\* notify_alive: one announced node state, from a ruserf node or a foreign one.
NotifyAlive(m, s) ==
  /\ ~crashed[m]
  /\ s.node # m
  /\ DelegateMerge(m, {s})
  /\ UNCHANGED <<tags, crashed, ann>>

\* notify_merge: a push/pull brings every announced state of the ruserf
\* nodes and possibly one foreign state.
NotifyMerge(m, F) ==
  /\ ~crashed[m]
  /\ DelegateMerge(m, {ann[x] : x \in {y \in Nodes \ {m} : ann[y] # NoNode}} \cup F)
  /\ UNCHANGED <<tags, crashed, ann>>

Init ==
  /\ tags \in [Nodes -> {SomeTags(l) : l \in 0 .. MaxTagLen} \cup {NoTags}]
  /\ \A n \in Nodes : \A l \in tags[n] : l <= META_MAX_SIZE
  /\ crashed = [n \in Nodes |-> FALSE]
  /\ ann = [n \in Nodes |-> NoNode]
  /\ view = [m \in Nodes |-> [x \in Peers |-> NoNode]]

Next ==
  \/ \E n \in Nodes, len \in 0 .. MaxTagLen : SetTags(n, len)
  \/ \E n \in Nodes, limit \in Limits : NodeMeta(n, limit)
  \/ \E n \in Nodes : Leave(n)
  \/ \E m \in Nodes :
       \/ \E s \in ForeignStates \cup {ann[x] : x \in {y \in Nodes : ann[y] # NoNode}} :
            NotifyAlive(m, s)
       \/ \E F \in {{}} \cup {{s} : s \in ForeignStates} : NotifyMerge(m, F)

Spec == Init /\ [][Next]_vars

-----------------------------------------------------------------------------
(* With a user delegate, every node state memberlist admits into a node's *)
(* view converts by node_to_member (tags that decode, within              *)
(* META_MAX_SIZE), whichever mix of alive messages and push/pull merges,  *)
(* with foreign and leaving nodes among the merged states, brought it.    *)
AdmittedConvertible ==
  \A m \in WithDelegate, x \in Peers :
    view[m][x] # NoNode => NodeToMemberOk(view[m][x])

(* node_meta never panics: the tags set_tags accepted always fit the limit *)
(* memberlist asks for.                                                    *)
MetaNeverPanics == \A n \in Nodes : ~crashed[n]

=============================================================================
