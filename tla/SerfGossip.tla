----------------------------- MODULE SerfGossip -----------------------------
(***************************************************************************)
(* The gossip side of a ruserf node: the SerfDelegate callbacks of         *)
(* src/core/src/serf/delegate.rs that memberlist invokes.                  *)
(*                                                                         *)
(*  - notify_message: the tag byte is decoded (MessageType::try_from of    *)
(*    src/core/src/types/message.rs) and the message dispatched to the     *)
(*    join-intent, leave-intent or user-event handler; a handler that      *)
(*    answers "rebroadcast" puts the message back into the gossip.        *)
(*  - local_state: the push/pull snapshot of the membership clock, the     *)
(*    status ltimes, the left members, the event clock and event buffer.   *)
(*  - merge_remote_state: witness the clocks minus one, replay left        *)
(*    members as leave intents, the other statuses as join intents, raise  *)
(*    the event min time on a join with event_join_ignore, replay events.  *)
(*  - notify_join / notify_leave: memberlist's view of the node.          *)
(*                                                                         *)
(* Several nodes (Nodes) track the membership of one further node          *)
(* (Subject), which issues join and leave intents with increasing Lamport *)
(* times; outside originators issue user events.  Gossip is a set of      *)
(* addressed messages that may be lost, delivered again or reordered.     *)
(*                                                                         *)
(* The handlers handle_node_join_intent, handle_node_leave_intent,        *)
(* handle_user_event, handle_node_join and handle_node_leave are not in   *)
(* src/; they follow sections 3, 4.1 and 4.2 of the spec.  A clock        *)
(* witness is the sequential effect of LamportClock::witness, whose       *)
(* concurrent CAS loop is the subject of module LamportClock.             *)
(***************************************************************************)
EXTENDS Integers, Sequences, FiniteSets

CONSTANTS
  Nodes,            \* the serf nodes whose delegates are modelled
  Subject,          \* the node whose membership they track
  EventNames,       \* the user-event names originators use
  EventTimes,       \* the event ltimes originators may stamp
  EventBufferSize,  \* event_buffer_size: slots of the event ring
  EventJoinIgnore,  \* event_join_ignore during a join push/pull
  MaxIntents,       \* bound: intents the subject issues
  MaxEvents,        \* bound: user events originated
  MaxPushPulls,     \* bound: push/pull exchanges
  GarbageTags       \* tags of undecodable gossip peers may send

ASSUME NodesAssumption == Nodes # {} /\ Subject \notin Nodes
ASSUME EventAssumption ==
  /\ EventTimes \subseteq Nat
  /\ EventBufferSize \in Nat \ {0}
  /\ EventJoinIgnore \in BOOLEAN
ASSUME BoundsAssumption ==
  MaxIntents \in Nat /\ MaxEvents \in Nat /\ MaxPushPulls \in Nat
ASSUME GarbageAssumption == GarbageTags \subseteq Nat

(***************************************************************************)
(* Message tags (message.rs lines 13-24) and their decoding.              *)
(***************************************************************************)
LeaveTag == 0
JoinTag == 1
PushPullTag == 2
UserEventTag == 3
UnknownTag == 9       \* a byte no MessageType has

\* MessageType::try_from(u8): the tags the dispatcher acts on, or "unknown".
MessageTypeOf(tag) ==
  CASE tag = LeaveTag     -> "leave"
    [] tag = JoinTag      -> "join"
    [] tag = PushPullTag  -> "push_pull"
    [] tag = UserEventTag -> "user_event"
    [] OTHER              -> "unknown"

NoName == "none"      \* the name field of a membership intent

Status == {"none", "alive", "leaving", "left", "failed"}
IntentKinds == {"join", "leave"}
Slots == 0 .. EventBufferSize - 1

VARIABLES
  clock,        \* per node: the membership LamportClock
  eclock,       \* per node: the event LamportClock
  emin,         \* per node: event_core.min_time
  member,       \* per node: [status, ltime] of Subject ("none": unknown)
  recent,       \* per node: the recent-intent entry for Subject
  ebuf,         \* per node: the event ring, slot -> [ltime, names]
  msgs,         \* gossip in flight: addressed messages
  pps,          \* push/pull states in flight
  intents,      \* the subject's intents; intents[t] is the kind at ltime t
  up,           \* memberlist sees the subject running
  originated,   \* user events originated so far
  npp,          \* push/pull exchanges so far
  heard,        \* ghost, per node: ltimes of intents notify_message handled
  delivered,    \* ghost, per node: user events handed to the application
  justDelivered \* ghost: the events the last step delivered

vars == <<clock, eclock, emin, member, recent, ebuf, msgs, pps, intents, up,
          originated, npp, heard, delivered, justDelivered>>

Event == [name : EventNames, ltime : EventTimes]
Bucket == [ltime : Nat, names : SUBSET EventNames]
Msg == [to : Nodes, tag : Nat, ltime : Nat, name : EventNames \cup {NoName},
        ok : BOOLEAN]

TypeOK ==
  /\ clock \in [Nodes -> Nat]
  /\ eclock \in [Nodes -> Nat]
  /\ emin \in [Nodes -> Nat]
  /\ member \in [Nodes -> [status : Status, ltime : Nat]]
  /\ recent \in [Nodes -> [kind : IntentKinds \cup {"none"}, ltime : Nat]]
  /\ ebuf \in [Nodes -> [Slots -> Bucket]]
  /\ msgs \subseteq Msg
  /\ intents \in Seq(IntentKinds)
  /\ up \in BOOLEAN
  /\ originated \subseteq Event
  /\ npp \in 0 .. MaxPushPulls
  /\ heard \in [Nodes -> SUBSET Nat]
  /\ delivered \in [Nodes -> SUBSET Event]

-----------------------------------------------------------------------------
(***************************************************************************)
(* LamportClock::witness, sequentially: return when current >= t, else    *)
(* store t + 1 (clock.rs lines 164-186).                                   *)
(***************************************************************************)
WitnessTime(c, t) == IF c >= t THEN c ELSE t + 1

(***************************************************************************)
(* The intent handlers (spec 4.1).  Each returns the node's new member    *)
(* entry, its new recent-intent entry and whether to rebroadcast; the     *)
(* witness of the intent's ltime that precedes the lookup is applied by   *)
(* the caller.                                                             *)
(***************************************************************************)

\* An intent for an unknown node is stashed, keeping the higher ltime.
Stash(rec, kind, t) ==
  IF rec.kind = "none" \/ t > rec.ltime THEN [kind |-> kind, ltime |-> t]
                                         ELSE rec

\* handle_node_join_intent: a fresh join revives a leaving, failed or left
\* member; an ltime not above status_ltime is stale.
JoinIntent(mem, rec, t) ==
  CASE mem.status = "none"
         -> [member |-> mem, recent |-> Stash(rec, "join", t), rb |-> TRUE]
    [] mem.status # "none" /\ t <= mem.ltime
         -> [member |-> mem, recent |-> rec, rb |-> FALSE]
    [] OTHER
         -> [member |-> [status |-> "alive", ltime |-> t], recent |-> rec,
             rb |-> TRUE]

\* The status a fresh leave intent gives each status of a known member.
LeaveStatus(s) ==
  CASE s = "alive"  -> "leaving"
    [] s = "failed" -> "left"
    [] OTHER        -> s

\* handle_node_leave_intent (prune = false).
LeaveIntent(mem, rec, t) ==
  CASE mem.status = "none"
         -> [member |-> mem, recent |-> Stash(rec, "leave", t), rb |-> TRUE]
    [] mem.status # "none" /\ t <= mem.ltime
         -> [member |-> mem, recent |-> rec, rb |-> FALSE]
    [] OTHER
         -> [member |-> [status |-> LeaveStatus(mem.status), ltime |-> t],
             recent |-> rec, rb |-> TRUE]

(***************************************************************************)
(* handle_user_event (spec 4.2) for the names of one ltime: witness the   *)
(* event clock, drop what is older than min_time or than the ring's       *)
(* window, replace a slot holding another ltime, skip duplicates, deliver *)
(* the rest.  st is [ec, emin, buf, new]; new collects the deliveries.     *)
(***************************************************************************)

\* A faulty window check, strict as in Go serf: ltime < clock - size.
UserEventStrictWindow(st, t, N) ==
  LET ec == WitnessTime(st.ec, t)
      dropped == t < st.emin \/ t < ec - EventBufferSize
      slot == t % EventBufferSize
      old == IF st.buf[slot].ltime = t THEN st.buf[slot].names ELSE {}
      fresh == IF dropped THEN {} ELSE N \ old
  IN [ec |-> ec, emin |-> st.emin,
      buf |-> IF fresh = {} THEN st.buf
              ELSE [st.buf EXCEPT ![slot] = [ltime |-> t, names |-> old \cup fresh]],
      new |-> st.new \cup {[name |-> x, ltime |-> t] : x \in fresh}]

HandleUserEvent(st, t, N) ==
  LET ec == WitnessTime(st.ec, t)
      dropped == t < st.emin \/ t <= ec - EventBufferSize
      slot == t % EventBufferSize
      old == IF st.buf[slot].ltime = t THEN st.buf[slot].names ELSE {}
      fresh == IF dropped THEN {} ELSE N \ old
  IN [ec |-> ec, emin |-> st.emin,
      buf |-> IF fresh = {} THEN st.buf
              ELSE [st.buf EXCEPT ![slot] = [ltime |-> t, names |-> old \cup fresh]],
      new |-> st.new \cup {[name |-> x, ltime |-> t] : x \in fresh}]

\* The event state of node n, before any delivery.
EventState(n) == [ec |-> eclock[n], emin |-> emin[n], buf |-> ebuf[n], new |-> {}]

\* Commit an event state to node n's variables.
CommitEvents(n, st) ==
  /\ eclock' = [eclock EXCEPT ![n] = st.ec]
  /\ emin' = [emin EXCEPT ![n] = st.emin]
  /\ ebuf' = [ebuf EXCEPT ![n] = st.buf]
  /\ delivered' = [delivered EXCEPT ![n] = @ \cup st.new]
  /\ justDelivered' = [k \in Nodes |-> IF k = n THEN st.new ELSE {}]

-----------------------------------------------------------------------------
(***************************************************************************)
(* The environment: the subject's own join/leave and memberlist's view   *)
(* of it, outside originators of user events, and the lossy gossip.       *)
(***************************************************************************)

\* The gossip message of an intent or event, addressed to every node.
Broadcast(tag, t, name) ==
  {[to |-> k, tag |-> tag, ltime |-> t, name |-> name, ok |-> TRUE] : k \in Nodes}

\* The subject joins: its join intent carries the next tick of its clock.
SubjectJoin ==
  /\ ~up
  /\ Len(intents) < MaxIntents
  /\ intents' = Append(intents, "join")
  /\ up' = TRUE
  /\ msgs' = msgs \cup Broadcast(JoinTag, Len(intents) + 1, NoName)
  /\ justDelivered' = [k \in Nodes |-> {}]
  /\ UNCHANGED <<clock, eclock, emin, member, recent, ebuf, pps, originated,
                 npp, heard, delivered>>

\* The subject leaves gracefully: a leave intent, then memberlist drops it.
SubjectLeave ==
  /\ up
  /\ Len(intents) < MaxIntents
  /\ intents' = Append(intents, "leave")
  /\ up' = FALSE
  /\ msgs' = msgs \cup Broadcast(LeaveTag, Len(intents) + 1, NoName)
  /\ justDelivered' = [k \in Nodes |-> {}]
  /\ UNCHANGED <<clock, eclock, emin, member, recent, ebuf, pps, originated,
                 npp, heard, delivered>>

\* The subject crashes: no intent, memberlist will report it gone.
SubjectCrash ==
  /\ up
  /\ up' = FALSE
  /\ justDelivered' = [k \in Nodes |-> {}]
  /\ UNCHANGED <<clock, eclock, emin, member, recent, ebuf, msgs, pps, intents,
                 originated, npp, heard, delivered>>

\* Some node outside Nodes calls user_event(e).
Originate(e) ==
  /\ e \notin originated
  /\ Cardinality(originated) < MaxEvents
  /\ originated' = originated \cup {e}
  /\ msgs' = msgs \cup Broadcast(UserEventTag, e.ltime, e.name)
  /\ justDelivered' = [k \in Nodes |-> {}]
  /\ UNCHANGED <<clock, eclock, emin, member, recent, ebuf, pps, intents, up,
                 npp, heard, delivered>>

\* A gossip message is lost.
Lose(m) ==
  /\ msgs' = msgs \ {m}
  /\ justDelivered' = [k \in Nodes |-> {}]
  /\ UNCHANGED <<clock, eclock, emin, member, recent, ebuf, pps, intents, up,
                 originated, npp, heard, delivered>>

-----------------------------------------------------------------------------
(***************************************************************************)
(* notify_message(msg) at node n.  A rebroadcast queues the message for  *)
(* the other nodes, which may already have it: that is how gossip hands  *)
(* a node the same message twice.  One action per arm of the match on    *)
(* the tag.                                                                *)
(***************************************************************************)

\* What stays in flight after n took m, plus a rebroadcast if asked for.
AfterReceive(n, m, rb) ==
  (msgs \ {m}) \cup (IF rb THEN {[m EXCEPT !.to = k] : k \in Nodes \ {n}} ELSE {})

\* Tag Leave, decoded: handle_node_leave_intent, rebroadcast if fresh.
ReceiveLeave(n, m) ==
  /\ MessageTypeOf(m.tag) = "leave" /\ m.ok
  /\ LET r == LeaveIntent(member[n], recent[n], m.ltime)
     IN /\ clock' = [clock EXCEPT ![n] = WitnessTime(@, m.ltime)]
        /\ member' = [member EXCEPT ![n] = r.member]
        /\ recent' = [recent EXCEPT ![n] = r.recent]
        /\ msgs' = AfterReceive(n, m, r.rb)
  /\ heard' = [heard EXCEPT ![n] = @ \cup {m.ltime}]
  /\ justDelivered' = [k \in Nodes |-> {}]
  /\ UNCHANGED <<eclock, emin, ebuf, pps, intents, up, originated, npp,
                 delivered>>

\* Tag Join, decoded: handle_node_join_intent, rebroadcast if fresh.
ReceiveJoin(n, m) ==
  /\ MessageTypeOf(m.tag) = "join" /\ m.ok
  /\ LET r == JoinIntent(member[n], recent[n], m.ltime)
     IN /\ clock' = [clock EXCEPT ![n] = WitnessTime(@, m.ltime)]
        /\ member' = [member EXCEPT ![n] = r.member]
        /\ recent' = [recent EXCEPT ![n] = r.recent]
        /\ msgs' = AfterReceive(n, m, r.rb)
  /\ heard' = [heard EXCEPT ![n] = @ \cup {m.ltime}]
  /\ justDelivered' = [k \in Nodes |-> {}]
  /\ UNCHANGED <<eclock, emin, ebuf, pps, intents, up, originated, npp,
                 delivered>>

\* Tag UserEvent, decoded: handle_user_event, rebroadcast if delivered.
ReceiveUserEvent(n, m) ==
  /\ MessageTypeOf(m.tag) = "user_event" /\ m.ok
  /\ LET st == HandleUserEvent(EventState(n), m.ltime, {m.name})
     IN /\ CommitEvents(n, st)
        /\ msgs' = AfterReceive(n, m, st.new # {})
  /\ UNCHANGED <<clock, member, recent, pps, intents, up, originated, npp,
                 heard>>

\* An empty message, an unknown or unexpected tag, or a body that fails to
\* decode: logged and dropped.
ReceiveIgnored(n, m) ==
  /\ \/ MessageTypeOf(m.tag) \in {"unknown", "push_pull"}
     \/ ~m.ok
  /\ msgs' = AfterReceive(n, m, FALSE)
  /\ justDelivered' = [k \in Nodes |-> {}]
  /\ UNCHANGED <<clock, eclock, emin, member, recent, ebuf, pps, intents, up,
                 originated, npp, heard, delivered>>

NotifyMessage(n) ==
  \E m \in msgs :
    /\ m.to = n
    /\ \/ ReceiveLeave(n, m)
       \/ ReceiveJoin(n, m)
       \/ ReceiveUserEvent(n, m)
       \/ ReceiveIgnored(n, m)

-----------------------------------------------------------------------------
(***************************************************************************)
(* Push/pull.  local_state at `from` takes a snapshot under the members   *)
(* and event_core read locks; merge_remote_state at `to` applies it.      *)
(***************************************************************************)

\* local_state(): the PushPull message of node from.
LocalState(from, to, isJoin) ==
  /\ from # to
  /\ npp < MaxPushPulls
  /\ pps' = pps \cup
       {[to |-> to, join |-> isJoin,
         ltime |-> clock[from],
         known |-> member[from].status # "none",
         sltime |-> member[from].ltime,
         left |-> member[from].status = "left",
         eltime |-> eclock[from],
         events |-> ebuf[from]]}
  /\ npp' = npp + 1
  /\ justDelivered' = [k \in Nodes |-> {}]
  /\ UNCHANGED <<clock, eclock, emin, member, recent, ebuf, msgs, intents, up,
                 originated, heard, delivered>>

\* A faulty merge whose first loop takes every status, not only the left
\* members, as a leave.
PushPullIntentAllLeaves(n, m) ==
  IF m.known THEN LeaveIntent(member[n], recent[n], m.sltime)
             ELSE [member |-> member[n], recent |-> recent[n], rb |-> FALSE]

\* A faulty merge that copies the remote status and ltime over the local
\* entry instead of passing them through the intent handlers.
PushPullIntentOverwrite(n, m) ==
  IF m.known
    THEN [member |-> [status |-> IF m.left THEN "left" ELSE "alive",
                      ltime |-> m.sltime],
          recent |-> recent[n], rb |-> FALSE]
    ELSE [member |-> member[n], recent |-> recent[n], rb |-> FALSE]

\* The left members as leave intents first, then the other status ltimes
\* as join intents.
PushPullIntent(n, m) ==
  CASE m.left  -> LeaveIntent(member[n], recent[n], m.sltime)
    [] m.known /\ ~m.left -> JoinIntent(member[n], recent[n], m.sltime)
    [] OTHER   -> [member |-> member[n], recent |-> recent[n], rb |-> FALSE]

\* `for events in pp.events`: every non-empty bucket, in slot order, goes
\* through handle_user_event.
ReplayEvents(st, evs) ==
  LET f[i \in 0 .. EventBufferSize] ==
        IF i = 0 THEN st
        ELSE IF evs[i - 1].names = {} THEN f[i - 1]
        ELSE HandleUserEvent(f[i - 1], evs[i - 1].ltime, evs[i - 1].names)
  IN f[EventBufferSize]

\* merge_remote_state(buf, is_join) of a decoded PushPull at node n.
MergeRemoteState(n, m) ==
  /\ m.to = n
  /\ LET c1 == IF m.ltime > 0 THEN WitnessTime(clock[n], m.ltime - 1)
                              ELSE clock[n]
         e1 == IF m.eltime > 0 THEN WitnessTime(eclock[n], m.eltime - 1)
                               ELSE eclock[n]
         r == PushPullIntent(n, m)
         min1 == IF m.join /\ EventJoinIgnore /\ m.eltime > emin[n]
                   THEN m.eltime ELSE emin[n]
         st == ReplayEvents([ec |-> e1, emin |-> min1, buf |-> ebuf[n],
                             new |-> {}], m.events)
     IN /\ clock' = [clock EXCEPT ![n] = IF m.known THEN WitnessTime(c1, m.sltime)
                                                    ELSE c1]
        /\ member' = [member EXCEPT ![n] = r.member]
        /\ recent' = [recent EXCEPT ![n] = r.recent]
        /\ CommitEvents(n, st)
  /\ pps' = pps \ {m}
  /\ UNCHANGED <<msgs, intents, up, originated, npp, heard>>

\* The stream fails, or the state has a bad prefix or fails to decode:
\* merge_remote_state logs and returns.
PushPullFails(m) ==
  /\ pps' = pps \ {m}
  /\ justDelivered' = [k \in Nodes |-> {}]
  /\ UNCHANGED <<clock, eclock, emin, member, recent, ebuf, msgs, intents, up,
                 originated, npp, heard, delivered>>

-----------------------------------------------------------------------------
(***************************************************************************)
(* notify_join / notify_leave: memberlist reports the subject alive or    *)
(* gone (handle_node_join / handle_node_leave, spec section 3).            *)
(***************************************************************************)

\* A new member takes the stashed intent: a join's ltime, or a leave's
\* ltime and the leaving status.
NewMember(rec) ==
  CASE rec.kind = "join"  -> [status |-> "alive", ltime |-> rec.ltime]
    [] rec.kind = "leave" -> [status |-> "leaving", ltime |-> rec.ltime]
    [] OTHER              -> [status |-> "alive", ltime |-> 0]

NotifyJoin(n) ==
  /\ up
  /\ member[n].status \in {"none", "failed", "left"}
  /\ member' = [member EXCEPT ![n] =
                  IF @.status = "none" THEN NewMember(recent[n])
                                       ELSE [status |-> "alive", ltime |-> @.ltime]]
  /\ justDelivered' = [k \in Nodes |-> {}]
  /\ UNCHANGED <<clock, eclock, emin, recent, ebuf, msgs, pps, intents, up,
                 originated, npp, heard, delivered>>

NotifyLeave(n) ==
  /\ ~up
  /\ member[n].status \in {"alive", "leaving"}
  /\ member' = [member EXCEPT ![n].status =
                  IF @ = "alive" THEN "failed" ELSE "left"]
  /\ justDelivered' = [k \in Nodes |-> {}]
  /\ UNCHANGED <<clock, eclock, emin, recent, ebuf, msgs, pps, intents, up,
                 originated, npp, heard, delivered>>

-----------------------------------------------------------------------------
Init ==
  /\ clock = [n \in Nodes |-> 0]
  /\ eclock = [n \in Nodes |-> 0]
  /\ emin = [n \in Nodes |-> 0]
  /\ member = [n \in Nodes |-> [status |-> "none", ltime |-> 0]]
  /\ recent = [n \in Nodes |-> [kind |-> "none", ltime |-> 0]]
  /\ ebuf = [n \in Nodes |-> [i \in Slots |-> [ltime |-> 0, names |-> {}]]]
  /\ msgs = {}
  /\ pps = {}
  /\ intents = << >>
  /\ up = FALSE
  /\ originated = {}
  /\ npp = 0
  /\ heard = [n \in Nodes |-> {}]
  /\ delivered = [n \in Nodes |-> {}]
  /\ justDelivered = [n \in Nodes |-> {}]

\* A peer sends a gossip message the dispatcher cannot use: an unknown tag,
\* the PushPull tag, or a body of a known tag that fails to decode.
SendGarbage ==
  \E n \in Nodes, tag \in GarbageTags :
    /\ msgs' = msgs \cup {[to |-> n, tag |-> tag, ltime |-> 0, name |-> NoName,
                           ok |-> MessageTypeOf(tag) \in {"unknown", "push_pull"}]}
    /\ justDelivered' = [k \in Nodes |-> {}]
    /\ UNCHANGED <<clock, eclock, emin, member, recent, ebuf, pps, intents, up,
                   originated, npp, heard, delivered>>

Next ==
  \/ SubjectJoin \/ SubjectLeave \/ SubjectCrash
  \/ \E e \in Event : Originate(e)
  \/ \E m \in msgs : Lose(m)
  \/ \E n \in Nodes : NotifyMessage(n)
  \/ \E from, to \in Nodes, isJoin \in BOOLEAN : LocalState(from, to, isJoin)
  \/ \E n \in Nodes, m \in pps : MergeRemoteState(n, m)
  \/ \E m \in pps : PushPullFails(m)
  \/ \E n \in Nodes : NotifyJoin(n) \/ NotifyLeave(n)
  \/ SendGarbage

Spec == Init /\ [][Next]_vars

-----------------------------------------------------------------------------
(***************************************************************************)
(* Properties.                                                             *)
(***************************************************************************)

(* A member's status_ltime never decreases (spec section 3, invariant (a)) *)
(* across gossiped intents, push/pull merges and memberlist callbacks,     *)
(* whatever order the lossy gossip delivers them in.                       *)
StatusLtimeMonotone ==
  [][\A n \in Nodes : member'[n].ltime >= member[n].ltime]_member

(* A node records the subject as leaving or left only at the ltime of one *)
(* of the subject's leave intents: neither a push/pull merge nor a        *)
(* memberlist callback can put a leave status on a join's ltime.          *)
LeaveStatusFromLeaveIntent ==
  \A n \in Nodes :
    member[n].status \in {"leaving", "left"} =>
      /\ member[n].ltime \in 1 .. Len(intents)
      /\ intents[member[n].ltime] = "leave"

(* Each user event reaches the application of a node at most once         *)
(* (spec section 8, idempotence), although gossip and push/pull replays   *)
(* hand it over again and the event ring overwrites old slots.            *)
EventDeliveredOnce ==
  [][\A n \in Nodes : justDelivered'[n] \cap delivered[n] = {}]_vars

(* What the spec (4.1, 8) expects of the subject's last intent: a node    *)
(* that has received the subject's final leave intent never reports it    *)
(* failed, since the leave is fresh and turns it leaving, then left.      *)
LeaveHeardNotFailed ==
  \A n \in Nodes :
    (/\ Len(intents) > 0
     /\ intents[Len(intents)] = "leave"
     /\ Len(intents) \in heard[n]) => member[n].status # "failed"

(* What the spec (4.4 step 4) promises of a join with event_join_ignore:  *)
(* the push/pull of the join replays no event to the application.         *)
JoinIgnoreReplaysNothing ==
  [][\A m \in pps :
       (m \notin pps' /\ m.join /\ EventJoinIgnore) =>
         justDelivered'[m.to] = {}]_vars

=============================================================================
