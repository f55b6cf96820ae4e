-------------------------- MODULE SerfGossip_proofs --------------------------
(***************************************************************************)
(* Proofs about the membership side of the SerfDelegate callbacks         *)
(* (src/core/src/serf/delegate.rs) for every set of nodes and every       *)
(* bound: where a leave status can come from, and that status ltimes      *)
(* never go back.  The event side (event clock, ring, replay) is not      *)
(* touched by these proofs; only the variables the properties read are    *)
(* typed.                                                                  *)
(***************************************************************************)
EXTENDS SerfGossip, TLAPS

\* The part of TypeOK the membership proofs need.
MemberEntry == [status : Status, ltime : Nat]
RecentEntry == [kind : IntentKinds \cup {"none"}, ltime : Nat]

GType ==
  /\ intents \in Seq(IntentKinds)
  /\ member \in [Nodes -> MemberEntry]
  /\ recent \in [Nodes -> RecentEntry]
  /\ msgs \subseteq Msg
  /\ \A p \in pps : p.sltime \in Nat /\ p.left \in BOOLEAN /\ p.known \in BOOLEAN

\* Lamport time t is the ltime of one of the subject's leave intents.
IsLeave(t) == t \in 1 .. Len(intents) /\ intents[t] = "leave"

\* A member entry with a leave status carries a leave intent's ltime.
MemberOK(mem) == mem.status \in {"leaving", "left"} => IsLeave(mem.ltime)

\* A stashed leave intent carries a leave intent's ltime.
RecentOK(rec) == rec.kind = "leave" => IsLeave(rec.ltime)

(* The inductive invariant behind LeaveStatusFromLeaveIntent.  A leave    *)
(* status is put on a member by a fresh leave intent from gossip, by a    *)
(* push/pull that carries a left member, or by notify_join from a stashed *)
(* leave: so every decoded leave message in flight, every push/pull state *)
(* that reports the subject left, and every stashed leave must carry a     *)
(* leave intent's ltime as well.                                           *)
\* Every node's member entry and stashed intent.
MembersOK == \A n \in Nodes : MemberOK(member[n]) /\ RecentOK(recent[n])

\* Every decoded leave message in flight.
MsgsOK == \A m \in msgs : MessageTypeOf(m.tag) = "leave" /\ m.ok => IsLeave(m.ltime)

\* Every push/pull state in flight that reports the subject left.
PPsOK == \A p \in pps : p.left => IsLeave(p.sltime)

LInv == GType /\ MembersOK /\ MsgsOK /\ PPsOK

(* For the monotonicity of status ltimes: an unknown subject has ltime 0, *)
(* so that notify_join's new member, whatever it takes from the stash,    *)
(* does not go below it.                                                   *)
NoneAtZero == \A n \in Nodes : member[n].status = "none" => member[n].ltime = 0

-----------------------------------------------------------------------------
(***************************************************************************)
(* Lemmas about the operators the handlers are built from.                 *)
(***************************************************************************)

\* Decoding: only the Leave tag byte is dispatched to the leave handler.
LEMMA LeaveTagOnly ==
  ASSUME NEW tag, MessageTypeOf(tag) = "leave"
  PROVE  tag = LeaveTag
  BY DEF MessageTypeOf, LeaveTag, JoinTag, PushPullTag, UserEventTag

\* The subject's later intents do not change the kind of an earlier one.
LEMMA AppendKeepsLeave ==
  ASSUME NEW s \in Seq(IntentKinds), NEW x \in IntentKinds, NEW t,
         t \in 1 .. Len(s), s[t] = "leave"
  PROVE  t \in 1 .. Len(Append(s, x)) /\ Append(s, x)[t] = "leave"
  OBVIOUS

\* What AfterReceive leaves in flight: the old messages but m, and copies of
\* m readdressed to other nodes, with m's tag, ltime and decoding.
LEMMA AfterReceiveShape ==
  ASSUME msgs \subseteq Msg, NEW n \in Nodes, NEW m \in msgs, NEW rb
  PROVE  \A x \in AfterReceive(n, m, rb) :
           \/ x \in msgs
           \/ x \in Msg /\ x.tag = m.tag /\ x.ltime = m.ltime /\ x.ok = m.ok
  BY DEF AfterReceive, Msg

\* The broadcast of an intent or event is well typed and keeps tag and ltime.
LEMMA BroadcastShape ==
  ASSUME NEW tag \in Nat, NEW t \in Nat, NEW name \in EventNames \cup {NoName}
  PROVE  \A x \in Broadcast(tag, t, name) : x \in Msg /\ x.tag = tag /\ x.ltime = t
<1> SUFFICES ASSUME NEW k \in Nodes
             PROVE  LET x == [to |-> k, tag |-> tag, ltime |-> t, name |-> name,
                              ok |-> TRUE]
                    IN  x \in Msg /\ x.tag = tag /\ x.ltime = t
  BY DEF Broadcast
<1> QED
  BY DEF Msg

(* What an intent handler must give back for the invariant to survive:  *)
(* entries of the right shape that satisfy it, a status ltime not below  *)
(* the old one, and a known status unless the entry was left alone.      *)
ResultOK(mem, r) ==
  /\ r.member \in MemberEntry /\ r.recent \in RecentEntry
  /\ MemberOK(r.member) /\ RecentOK(r.recent)
  /\ r.member.ltime >= mem.ltime
  /\ r.member = mem \/ r.member.status # "none"

\* Both handlers stash an intent for an unknown member, keeping the newer.
LEMMA StashOK ==
  ASSUME NEW mem \in MemberEntry, NEW rec \in RecentEntry, NEW t \in Nat,
         NEW k \in IntentKinds, NEW b,
         MemberOK(mem), RecentOK(rec), k = "leave" => IsLeave(t)
  PROVE  ResultOK(mem, [member |-> mem, recent |-> Stash(rec, k, t), rb |-> b])
  BY DEF ResultOK, Stash, MemberOK, RecentOK, IsLeave, MemberEntry, RecentEntry,
         IntentKinds

\* Both handlers leave the entries alone on a stale intent.
LEMMA StaleOK ==
  ASSUME NEW mem \in MemberEntry, NEW rec \in RecentEntry, NEW b,
         MemberOK(mem), RecentOK(rec)
  PROVE  ResultOK(mem, [member |-> mem, recent |-> rec, rb |-> b])
  BY DEF ResultOK, MemberOK, RecentOK, IsLeave, MemberEntry

(* A leave intent (handle_node_leave_intent) with the ltime of one of the *)
(* subject's leave intents keeps the invariant.                            *)
LEMMA LeaveIntentOK ==
  ASSUME NEW mem \in MemberEntry, NEW rec \in RecentEntry, NEW t \in Nat,
         MemberOK(mem), RecentOK(rec), IsLeave(t)
  PROVE  ResultOK(mem, LeaveIntent(mem, rec, t))
<1>1. CASE mem.status = "none"
  <2>1. LeaveIntent(mem, rec, t) =
          [member |-> mem, recent |-> Stash(rec, "leave", t), rb |-> TRUE]
    BY <1>1, Zenon DEF LeaveIntent
  <2>2. QED
    BY <2>1, StashOK DEF IntentKinds
<1>2. CASE mem.status # "none" /\ t <= mem.ltime
  <2>1. LeaveIntent(mem, rec, t) = [member |-> mem, recent |-> rec, rb |-> FALSE]
    BY <1>2, Zenon DEF LeaveIntent
  <2>2. QED
    BY <2>1, StaleOK
<1>3. CASE mem.status # "none" /\ ~(t <= mem.ltime)
  <2>1. LeaveStatus(mem.status) \in Status \ {"none"}
    BY <1>3 DEF LeaveStatus, MemberEntry, Status
  <2>2. QED
    BY <1>3, <2>1 DEF LeaveIntent, ResultOK, MemberOK, MemberEntry
<1>4. QED
  BY <1>1, <1>2, <1>3

(* A join intent (handle_node_join_intent) keeps the invariant whatever   *)
(* its ltime: it stashes a join or revives the member as alive.            *)
LEMMA JoinIntentOK ==
  ASSUME NEW mem \in MemberEntry, NEW rec \in RecentEntry, NEW t \in Nat,
         MemberOK(mem), RecentOK(rec)
  PROVE  ResultOK(mem, JoinIntent(mem, rec, t))
<1>1. CASE mem.status = "none"
  <2>1. JoinIntent(mem, rec, t) =
          [member |-> mem, recent |-> Stash(rec, "join", t), rb |-> TRUE]
    BY <1>1, Zenon DEF JoinIntent
  <2>2. QED
    BY <2>1, StashOK DEF IntentKinds
<1>2. CASE mem.status # "none" /\ t <= mem.ltime
  <2>1. JoinIntent(mem, rec, t) = [member |-> mem, recent |-> rec, rb |-> FALSE]
    BY <1>2, Zenon DEF JoinIntent
  <2>2. QED
    BY <2>1, StaleOK
<1>3. CASE mem.status # "none" /\ ~(t <= mem.ltime)
  BY <1>3 DEF JoinIntent, ResultOK, MemberOK, MemberEntry, Status
<1>4. QED
  BY <1>1, <1>2, <1>3

\* notify_join's new member takes a stashed leave with its ltime.
LEMMA NewMemberOK ==
  ASSUME NEW rec \in RecentEntry, RecentOK(rec)
  PROVE  /\ NewMember(rec) \in MemberEntry
         /\ MemberOK(NewMember(rec))
         /\ NewMember(rec).status # "none"
  BY DEF NewMember, RecentOK, MemberOK, RecentEntry, MemberEntry, Status,
         IntentKinds

(* A handler's result written to node n's entries keeps every node's     *)
(* entries in the invariant, lowers no status ltime and keeps unknown     *)
(* statuses at ltime 0.                                                    *)
LEMMA EntryUpdate ==
  ASSUME LInv, NEW n \in Nodes, NEW r, ResultOK(member[n], r),
         member' = [member EXCEPT ![n] = r.member],
         recent' = [recent EXCEPT ![n] = r.recent],
         intents' = intents
  PROVE  /\ member' \in [Nodes -> MemberEntry]
         /\ recent' \in [Nodes -> RecentEntry]
         /\ MembersOK'
         /\ \A k \in Nodes : member'[k].ltime >= member[k].ltime
         /\ NoneAtZero => NoneAtZero'
<1>1. /\ member' \in [Nodes -> MemberEntry]
      /\ recent' \in [Nodes -> RecentEntry]
  BY DEF ResultOK, LInv, GType
<1>2. MembersOK'
  BY DEF ResultOK, LInv, GType, MembersOK, MemberOK, RecentOK, IsLeave
<1>3. \A k \in Nodes : member'[k].ltime >= member[k].ltime
  BY DEF ResultOK, LInv, GType, MemberEntry
<1>4. NoneAtZero => NoneAtZero'
  BY DEF ResultOK, LInv, GType, NoneAtZero
<1>5. QED
  BY <1>1, <1>2, <1>3, <1>4

\* A status ltime that goes no lower at any node.
LtimeStep == \A n \in Nodes : member'[n].ltime >= member[n].ltime

(* A step that leaves the entries alone and only appends to the subject's *)
(* intents keeps the entries' part of the invariant, and every leave      *)
(* intent stays one.                                                       *)
LEMMA MembershipFrame ==
  ASSUME LInv, NoneAtZero, UNCHANGED <<member, recent>>,
         \/ intents' = intents
         \/ \E x \in IntentKinds : intents' = Append(intents, x)
  PROVE  /\ intents' \in Seq(IntentKinds)
         /\ member' \in [Nodes -> MemberEntry]
         /\ recent' \in [Nodes -> RecentEntry]
         /\ \A t : IsLeave(t) => IsLeave(t)'
         /\ MembersOK' /\ NoneAtZero' /\ LtimeStep
<1>1. intents' \in Seq(IntentKinds)
  BY DEF LInv, GType
<1>2. \A t : IsLeave(t) => IsLeave(t)'
  BY AppendKeepsLeave DEF LInv, GType, IsLeave
<1>3. MembersOK'
  BY <1>2 DEF LInv, MembersOK, MemberOK, RecentOK
<1>4. QED
  BY <1>1, <1>2, <1>3 DEF LInv, GType, NoneAtZero, LtimeStep, MemberEntry

(* A step that only changes what is in flight keeps the invariant when    *)
(* every message it adds is typed and, if a decoded leave, carries a      *)
(* leave intent's ltime, and likewise every push/pull state it adds.       *)
LEMMA FlightStep ==
  ASSUME LInv, NoneAtZero, UNCHANGED <<member, recent>>,
         \/ intents' = intents
         \/ \E x \in IntentKinds : intents' = Append(intents, x),
         \A x \in msgs' : x \in msgs \/
                          /\ x \in Msg
                          /\ MessageTypeOf(x.tag) = "leave" /\ x.ok => IsLeave(x.ltime)',
         \A p \in pps' : p \in pps \/
                         /\ p.sltime \in Nat /\ p.left \in BOOLEAN
                         /\ p.known \in BOOLEAN
                         /\ p.left => IsLeave(p.sltime)'
  PROVE  LInv' /\ NoneAtZero' /\ LtimeStep
<1>1. \A t : IsLeave(t) => IsLeave(t)'
  BY MembershipFrame
<1>2. GType'
  BY MembershipFrame DEF LInv, GType
<1>3. MsgsOK'
  BY <1>1 DEF LInv, MsgsOK
<1>4. PPsOK'
  BY <1>1 DEF LInv, PPsOK
<1>5. QED
  BY <1>2, <1>3, <1>4, MembershipFrame DEF LInv

\* The inductive invariant of both theorems below.
GInv == LInv /\ NoneAtZero

\* The subject's own intents, user events and lost or failed transfers.
LEMMA EnvironmentStep ==
  ASSUME GInv,
         \/ SubjectJoin \/ SubjectLeave \/ SubjectCrash
         \/ \E e \in Event : Originate(e)
         \/ \E m \in msgs : Lose(m)
         \/ \E m \in pps : PushPullFails(m)
         \/ SendGarbage
  PROVE  GInv' /\ LtimeStep
<1> USE DEF GInv
<1>0. Len(intents) + 1 \in Nat
  BY DEF LInv, GType
<1>1. CASE SubjectJoin
  <2>1. \A x \in Broadcast(JoinTag, Len(intents) + 1, NoName) :
          x \in Msg /\ x.tag # LeaveTag
    BY <1>0, BroadcastShape DEF JoinTag, LeaveTag
  <2>2. \A x \in Broadcast(JoinTag, Len(intents) + 1, NoName) :
          MessageTypeOf(x.tag) # "leave"
    BY <2>1, LeaveTagOnly
  <2>3. QED
    BY <1>1, <2>1, <2>2, FlightStep DEF SubjectJoin, IntentKinds
<1>2. CASE SubjectLeave
  <2>1. \A x \in Broadcast(LeaveTag, Len(intents) + 1, NoName) :
          x \in Msg /\ x.ltime = Len(intents) + 1
    BY <1>0, BroadcastShape DEF LeaveTag
  <2>2. \A x \in Broadcast(LeaveTag, Len(intents) + 1, NoName) : IsLeave(x.ltime)'
    <3>1. intents' = Append(intents, "leave")
      BY <1>2 DEF SubjectLeave
    <3>2. Len(intents') = Len(intents) + 1 /\ intents'[Len(intents) + 1] = "leave"
      BY <3>1 DEF LInv, GType
    <3>3. QED
      BY <1>0, <2>1, <3>2 DEF IsLeave
  <2>3. QED
    BY <1>2, <2>1, <2>2, FlightStep DEF SubjectLeave, IntentKinds
<1>3. CASE SubjectCrash
  BY <1>3, FlightStep DEF SubjectCrash
<1>4. CASE \E e \in Event : Originate(e)
  <2>1. PICK e \in Event : Originate(e)
    BY <1>4
  <2>2. \A x \in Broadcast(UserEventTag, e.ltime, e.name) :
          x \in Msg /\ x.tag # LeaveTag
    <3>1. e.ltime \in Nat /\ e.name \in EventNames \cup {NoName}
      BY EventAssumption DEF Event
    <3>2. QED
      BY <3>1, BroadcastShape DEF UserEventTag, LeaveTag
  <2>3. \A x \in Broadcast(UserEventTag, e.ltime, e.name) :
          MessageTypeOf(x.tag) # "leave"
    BY <2>2, LeaveTagOnly
  <2>4. QED
    BY <2>1, <2>2, <2>3, FlightStep DEF Originate
<1>5. CASE \E m \in msgs : Lose(m)
  BY <1>5, FlightStep DEF Lose
<1>6. CASE \E m \in pps : PushPullFails(m)
  BY <1>6, FlightStep DEF PushPullFails
<1>7. CASE SendGarbage
  <2>1. PICK n \in Nodes, tag \in GarbageTags :
          /\ msgs' = msgs \cup {[to |-> n, tag |-> tag, ltime |-> 0, name |-> NoName,
                                 ok |-> MessageTypeOf(tag) \in {"unknown", "push_pull"}]}
          /\ UNCHANGED <<member, recent, pps, intents>>
    BY <1>7 DEF SendGarbage
  <2> DEFINE g == [to |-> n, tag |-> tag, ltime |-> 0, name |-> NoName,
                   ok |-> MessageTypeOf(tag) \in {"unknown", "push_pull"}]
  <2>2. g \in Msg
    BY GarbageAssumption DEF Msg, NoName
  <2>3. ~(MessageTypeOf(g.tag) = "leave" /\ g.ok)
    OBVIOUS
  <2>4. \A x \in msgs' : x \in msgs \/
                         /\ x \in Msg
                         /\ MessageTypeOf(x.tag) = "leave" /\ x.ok => IsLeave(x.ltime)'
    BY <2>1, <2>2, <2>3
  <2>5. QED
    BY <2>1, <2>4, FlightStep
<1>8. QED
  BY <1>1, <1>2, <1>3, <1>4, <1>5, <1>6, <1>7

(* A step that writes a handler's result to node n, keeps the subject's   *)
(* intents, adds no push/pull state and leaves in flight only well typed  *)
(* messages that keep MsgsOK, keeps the invariant.                         *)
LEMMA HandlerStep ==
  ASSUME GInv, NEW n \in Nodes, NEW r, ResultOK(member[n], r),
         member' = [member EXCEPT ![n] = r.member],
         recent' = [recent EXCEPT ![n] = r.recent],
         intents' = intents,
         msgs' \subseteq Msg, MsgsOK',
         pps' \subseteq pps
  PROVE  GInv' /\ LtimeStep
<1>1. /\ member' \in [Nodes -> MemberEntry]
      /\ recent' \in [Nodes -> RecentEntry]
      /\ MembersOK'
      /\ LtimeStep
      /\ NoneAtZero'
  BY EntryUpdate DEF GInv, LtimeStep
<1>2. PPsOK'
  BY DEF GInv, LInv, PPsOK, IsLeave
<1>3. GType'
  BY <1>1 DEF GInv, LInv, GType
<1>4. QED
  BY <1>1, <1>2, <1>3 DEF GInv, LInv

(* A message taken by notify_message leaves in flight only messages that  *)
(* were there or copies of it: the invariant's part on messages survives *)
(* while the subject's intents stay as they are.                           *)
LEMMA ReceivedFlight ==
  ASSUME LInv, NEW n \in Nodes, NEW m \in msgs, NEW rb,
         msgs' = AfterReceive(n, m, rb), intents' = intents
  PROVE  \A x \in msgs' : x \in msgs \/
                          /\ x \in Msg
                          /\ MessageTypeOf(x.tag) = "leave" /\ x.ok => IsLeave(x.ltime)'
<1>1. msgs \subseteq Msg
  BY DEF LInv, GType
<1>2. \A t : IsLeave(t)' = IsLeave(t)
  BY DEF IsLeave
<1>3. QED
  BY <1>1, <1>2, AfterReceiveShape DEF LInv, MsgsOK

\* notify_message at node n, in each arm of the match on the tag.
LEMMA ReceiveStep ==
  ASSUME GInv, NEW n \in Nodes, NEW m \in msgs,
         \/ ReceiveLeave(n, m) \/ ReceiveJoin(n, m)
         \/ ReceiveUserEvent(n, m) \/ ReceiveIgnored(n, m)
  PROVE  GInv' /\ LtimeStep
<1> USE DEF GInv
<1>0. /\ m \in Msg
      /\ \A t : IsLeave(t)' = IsLeave(t) \/ intents' # intents
  BY DEF LInv, GType, IsLeave
\* What is left in flight after a receive keeps the part on messages.
<1>1. ASSUME NEW rb, msgs' = AfterReceive(n, m, rb), intents' = intents
      PROVE  msgs' \subseteq Msg /\ MsgsOK'
  <2>1. \A x \in msgs' : x \in msgs \/
                         /\ x \in Msg
                         /\ MessageTypeOf(x.tag) = "leave" /\ x.ok => IsLeave(x.ltime)'
    BY <1>1, ReceivedFlight
  <2>2. QED
    BY <1>0, <1>1, <2>1 DEF LInv, GType, MsgsOK
<1>2. CASE ReceiveLeave(n, m)
  <2> DEFINE r == LeaveIntent(member[n], recent[n], m.ltime)
  <2>1. /\ member' = [member EXCEPT ![n] = r.member]
        /\ recent' = [recent EXCEPT ![n] = r.recent]
        /\ msgs' = AfterReceive(n, m, r.rb)
        /\ UNCHANGED <<pps, intents>>
    BY <1>2 DEF ReceiveLeave
  <2>2. m.ltime \in Nat /\ IsLeave(m.ltime)
    BY <1>0, <1>2 DEF ReceiveLeave, LInv, MsgsOK, Msg
  <2>3. ResultOK(member[n], r)
    BY <2>2, LeaveIntentOK DEF LInv, GType, MembersOK
  <2>4. QED
    BY <1>1, <2>1, <2>3, HandlerStep
<1>3. CASE ReceiveJoin(n, m)
  <2> DEFINE r == JoinIntent(member[n], recent[n], m.ltime)
  <2>1. /\ member' = [member EXCEPT ![n] = r.member]
        /\ recent' = [recent EXCEPT ![n] = r.recent]
        /\ msgs' = AfterReceive(n, m, r.rb)
        /\ UNCHANGED <<pps, intents>>
    BY <1>3 DEF ReceiveJoin
  <2>2. m.ltime \in Nat
    BY <1>0 DEF Msg
  <2>3. ResultOK(member[n], r)
    BY <2>2, JoinIntentOK DEF LInv, GType, MembersOK
  <2>4. QED
    BY <1>1, <2>1, <2>3, HandlerStep
<1>4. CASE ReceiveUserEvent(n, m)
  <2> DEFINE rb == HandleUserEvent(EventState(n), m.ltime, {m.name}).new # {}
  <2>1. /\ msgs' = AfterReceive(n, m, rb)
        /\ UNCHANGED <<member, recent, pps, intents>>
    BY <1>4 DEF ReceiveUserEvent
  <2>2. QED
    BY <2>1, ReceivedFlight, FlightStep
<1>5. CASE ReceiveIgnored(n, m)
  <2>1. /\ msgs' = AfterReceive(n, m, FALSE)
        /\ UNCHANGED <<member, recent, pps, intents>>
    BY <1>5 DEF ReceiveIgnored
  <2>2. QED
    BY <2>1, ReceivedFlight, FlightStep
<1>6. QED
  BY <1>2, <1>3, <1>4, <1>5

\* The push/pull: local_state's snapshot and merge_remote_state.
LEMMA PushPullStep ==
  ASSUME GInv,
         \/ \E from, to \in Nodes, isJoin \in BOOLEAN : LocalState(from, to, isJoin)
         \/ \E n \in Nodes, m \in pps : MergeRemoteState(n, m)
  PROVE  GInv' /\ LtimeStep
<1> USE DEF GInv
<1>1. CASE \E from, to \in Nodes, isJoin \in BOOLEAN : LocalState(from, to, isJoin)
  <2>1. PICK from \in Nodes, to \in Nodes, isJoin \in BOOLEAN :
          LocalState(from, to, isJoin)
    BY <1>1
  <2>2. member[from].status = "left" => IsLeave(member[from].ltime)
    BY DEF LInv, MembersOK, MemberOK
  <2>3. member[from].ltime \in Nat
    BY DEF LInv, GType, MemberEntry
  <2>5. \A p \in pps' : p \in pps \/
                        /\ p.sltime \in Nat /\ p.left \in BOOLEAN
                        /\ p.known \in BOOLEAN
                        /\ p.left => IsLeave(p.sltime)'
    <3> DEFINE snap == [to |-> to, join |-> isJoin,
                        ltime |-> clock[from],
                        known |-> member[from].status # "none",
                        sltime |-> member[from].ltime,
                        left |-> member[from].status = "left",
                        eltime |-> eclock[from],
                        events |-> ebuf[from]]
    <3>1. pps' = pps \cup {snap} /\ intents' = intents
      BY <2>1 DEF LocalState
    <3>2. /\ snap.sltime \in Nat /\ snap.left \in BOOLEAN /\ snap.known \in BOOLEAN
          /\ snap.left => IsLeave(snap.sltime)
      BY <2>2, <2>3
    <3>3. QED
      BY <3>1, <3>2 DEF IsLeave
  <2>6. UNCHANGED <<member, recent, msgs, intents>>
    BY <2>1 DEF LocalState
  <2>7. QED
    BY <2>5, <2>6, FlightStep
<1>2. CASE \E n \in Nodes, m \in pps : MergeRemoteState(n, m)
  <2>1. PICK n \in Nodes, m \in pps : MergeRemoteState(n, m)
    BY <1>2
  <2> DEFINE r == PushPullIntent(n, m)
  <2>2. /\ member' = [member EXCEPT ![n] = r.member]
        /\ recent' = [recent EXCEPT ![n] = r.recent]
        /\ pps' = pps \ {m}
        /\ UNCHANGED <<msgs, intents>>
    BY <2>1 DEF MergeRemoteState
  <2>3. /\ member[n] \in MemberEntry /\ recent[n] \in RecentEntry
        /\ MemberOK(member[n]) /\ RecentOK(recent[n])
        /\ m.sltime \in Nat /\ m.left \in BOOLEAN /\ m.known \in BOOLEAN
    BY DEF LInv, GType, MembersOK
  <2>4. ResultOK(member[n], r)
    <3>1. CASE m.left
      <4>1. r = LeaveIntent(member[n], recent[n], m.sltime)
        BY <3>1, Zenon DEF PushPullIntent
      <4>2. IsLeave(m.sltime)
        BY <3>1 DEF LInv, PPsOK
      <4>3. QED
        BY <2>3, <4>1, <4>2, LeaveIntentOK
    <3>2. CASE ~m.left /\ m.known
      <4>1. r = JoinIntent(member[n], recent[n], m.sltime)
        BY <3>2, Zenon DEF PushPullIntent
      <4>2. QED
        BY <2>3, <4>1, JoinIntentOK
    <3>3. CASE ~m.left /\ ~m.known
      <4>1. r = [member |-> member[n], recent |-> recent[n], rb |-> FALSE]
        BY <3>3, Zenon DEF PushPullIntent
      <4>2. QED
        BY <2>3, <4>1, StaleOK
    <3>4. QED
      BY <2>3, <3>1, <3>2, <3>3
  <2>5. msgs' \subseteq Msg /\ MsgsOK'
    BY <2>2 DEF LInv, GType, MsgsOK, IsLeave
  <2>6. QED
    BY <2>2, <2>4, <2>5, HandlerStep
<1>3. QED
  BY <1>1, <1>2

\* notify_join and notify_leave: memberlist's view of the subject.
LEMMA NotifyStep ==
  ASSUME GInv, NEW n \in Nodes, NotifyJoin(n) \/ NotifyLeave(n)
  PROVE  GInv' /\ LtimeStep
<1> USE DEF GInv
<1>0. /\ member[n] \in MemberEntry /\ recent[n] \in RecentEntry
      /\ MemberOK(member[n]) /\ RecentOK(recent[n])
      /\ recent = [recent EXCEPT ![n] = recent[n]]
  BY DEF LInv, GType, MembersOK
<1>1. CASE NotifyJoin(n)
  <2> DEFINE nm == IF member[n].status = "none" THEN NewMember(recent[n])
                   ELSE [status |-> "alive", ltime |-> member[n].ltime]
             r == [member |-> nm, recent |-> recent[n]]
  <2>1. /\ member' = [member EXCEPT ![n] = r.member]
        /\ recent' = [recent EXCEPT ![n] = r.recent]
        /\ UNCHANGED <<msgs, pps, intents>>
    BY <1>0, <1>1 DEF NotifyJoin
  <2>2. ResultOK(member[n], r)
    <3>1. CASE member[n].status = "none"
      <4>1. member[n].ltime = 0
        BY <3>1 DEF NoneAtZero
      <4>2. QED
        BY <1>0, <3>1, <4>1, NewMemberOK DEF ResultOK, MemberEntry
    <3>2. CASE member[n].status # "none"
      BY <1>0, <3>2 DEF ResultOK, MemberOK, MemberEntry, Status
    <3>3. QED
      BY <3>1, <3>2
  <2>3. msgs' \subseteq Msg /\ MsgsOK'
    BY <2>1 DEF LInv, GType, MsgsOK, IsLeave
  <2>4. QED
    BY <2>1, <2>2, <2>3, HandlerStep
<1>2. CASE NotifyLeave(n)
  <2> DEFINE nm == [status |-> IF member[n].status = "alive" THEN "failed"
                                                         ELSE "left",
                    ltime |-> member[n].ltime]
             r == [member |-> nm, recent |-> recent[n]]
  <2>1. member[n].status \in {"alive", "leaving"}
    BY <1>2 DEF NotifyLeave
  <2>2. [member[n] EXCEPT !.status = IF @ = "alive" THEN "failed" ELSE "left"] = nm
    <3> DEFINE st == member[n].status
               lt == member[n].ltime
    <3>1. member[n] = [status |-> st, ltime |-> lt]
      BY <1>0 DEF MemberEntry
    <3>2. [[status |-> st, ltime |-> lt] EXCEPT
             !.status = IF @ = "alive" THEN "failed" ELSE "left"] = nm
      OBVIOUS
    <3>3. QED
      BY <3>1, <3>2
  <2>3. /\ member' = [member EXCEPT ![n] = r.member]
        /\ recent' = [recent EXCEPT ![n] = r.recent]
        /\ UNCHANGED <<msgs, pps, intents>>
    BY <1>0, <1>2, <2>2 DEF NotifyLeave
  <2>4. ResultOK(member[n], r)
    BY <1>0, <2>1 DEF ResultOK, MemberOK, MemberEntry, Status
  <2>5. msgs' \subseteq Msg /\ MsgsOK'
    BY <2>3 DEF LInv, GType, MsgsOK, IsLeave
  <2>6. QED
    BY <2>3, <2>4, <2>5, HandlerStep
<1>3. QED
  BY <1>1, <1>2

-----------------------------------------------------------------------------
LEMMA GInvInit == Init => GInv
  BY DEF Init, GInv, LInv, GType, MembersOK, MemberOK, RecentOK, MsgsOK, PPsOK,
         NoneAtZero, MemberEntry, RecentEntry, Status, IntentKinds

LEMMA GInvStep == GInv /\ [Next]_vars => GInv' /\ [LtimeStep]_member
<1> SUFFICES ASSUME GInv, [Next]_vars PROVE GInv' /\ [LtimeStep]_member
  OBVIOUS
<1>1. CASE \/ SubjectJoin \/ SubjectLeave \/ SubjectCrash
           \/ \E e \in Event : Originate(e)
           \/ \E m \in msgs : Lose(m)
           \/ \E m \in pps : PushPullFails(m)
           \/ SendGarbage
  BY <1>1, EnvironmentStep
<1>2. CASE \E n \in Nodes : NotifyMessage(n)
  <2>1. PICK n \in Nodes, m \in msgs :
          \/ ReceiveLeave(n, m) \/ ReceiveJoin(n, m)
          \/ ReceiveUserEvent(n, m) \/ ReceiveIgnored(n, m)
    BY <1>2 DEF NotifyMessage
  <2>2. QED
    BY <2>1, ReceiveStep
<1>3. CASE \/ \E from, to \in Nodes, isJoin \in BOOLEAN : LocalState(from, to, isJoin)
           \/ \E n \in Nodes, m \in pps : MergeRemoteState(n, m)
  BY <1>3, PushPullStep
<1>4. CASE \E n \in Nodes : NotifyJoin(n) \/ NotifyLeave(n)
  BY <1>4, NotifyStep
<1>5. CASE UNCHANGED vars
  BY <1>5 DEF vars, GInv, LInv, GType, MembersOK, MemberOK, RecentOK, MsgsOK,
              PPsOK, NoneAtZero, IsLeave
<1>6. QED
  BY <1>1, <1>2, <1>3, <1>4, <1>5 DEF Next

(* LeaveStatusFromLeaveIntent, for every set of nodes and every bound:    *)
(* whatever order gossip, push/pull and memberlist's callbacks run in,    *)
(* and with messages lost, duplicated or undecodable, a node puts the     *)
(* subject in leaving or left only at the ltime of one of its leave       *)
(* intents.                                                                *)
THEOREM LeaveSafety == Spec => []LeaveStatusFromLeaveIntent
<1>1. GInv => LeaveStatusFromLeaveIntent
  BY DEF GInv, LInv, MembersOK, MemberOK, IsLeave, LeaveStatusFromLeaveIntent
<1>2. QED
  BY <1>1, GInvInit, GInvStep, PTL DEF Spec

(* StatusLtimeMonotone, for every set of nodes and every bound: no intent *)
(* handler, push/pull merge or memberlist callback lowers a member's      *)
(* status ltime.                                                           *)
THEOREM LtimeMonotone == Spec => StatusLtimeMonotone
  BY GInvInit, GInvStep, PTL DEF Spec, StatusLtimeMonotone, LtimeStep

=============================================================================
