-------------------------- MODULE BroadcastMessages --------------------------
(***************************************************************************)
(* SerfDelegate::broadcast_messages of src/core/src/serf/delegate.rs: when *)
(* memberlist gossips it asks for up to `limit` bytes of broadcasts, each  *)
(* costing `overhead` bytes of framing.  The delegate drains the           *)
(* membership queue first, then the query queue with what is left, then   *)
(* the event queue, adding the encoded length of every message it takes   *)
(* to bytes_used and to the "ruserf.messages.sent" histogram.             *)
(*                                                                         *)
(* The three queues are memberlist TransmitLimitedQueues (not in src/):   *)
(* get_broadcasts and queue_broadcast follow spec section 4.6: a queue    *)
(* hands out, in order, every broadcast that still fits, counts one more  *)
(* transmission for each and drops it after RetransmitLimit of them.      *)
(***************************************************************************)
EXTENDS Naturals, Sequences

CONSTANTS
  Ids,              \* the broadcasts the queues may hold
  Size,             \* Size[id]: length of the encoded broadcast
  Overhead,         \* per-message framing memberlist charges
  EncOverhead,      \* what encoded_len adds to a message's length
  Limits,           \* the byte limits memberlist may ask for
  RetransmitLimit   \* transmissions before a broadcast is dropped

ASSUME SizeAssumption == Size \in [Ids -> Nat \ {0}]
ASSUME OverheadAssumption == Overhead \in Nat /\ EncOverhead \in Nat
ASSUME LimitsAssumption == Limits \subseteq Nat /\ Limits # {}
ASSUME RetransmitAssumption == RetransmitLimit \in Nat \ {0}

(* encoded_len frames a broadcast exactly as the queues charge for it.     *)
(* broadcast_messages subtracts encoded lengths from the budget while the  *)
(* queues fit broadcasts by length plus overhead, so its byte accounting   *)
(* holds only when the two agree.                                          *)
ExactFraming == EncOverhead = Overhead

(* encoded_len adds no more framing than the queues charge for.           *)
EncodedWithinFramed == EncOverhead <= Overhead

Queues == <<"broadcasts", "query_broadcasts", "event_broadcasts">>
QueueNames == {Queues[i] : i \in 1 .. 3}

VARIABLES
  queue,     \* per queue: sequence of [id, tx] (tx: transmissions so far)
  used,      \* broadcasts ever queued (each id is queued once)
  out,       \* the messages the last call returned, in order
  lastLimit, \* the limit of the last call
  recorded   \* ghost: per id, histogram samples the last call recorded

vars == <<queue, used, out, lastLimit, recorded>>

Entry == [id : Ids, tx : Nat]

TypeOK ==
  /\ queue \in [QueueNames -> Seq(Entry)]
  /\ used \subseteq Ids
  /\ out \in Seq(Ids)
  /\ lastLimit \in Nat
  /\ recorded \in [Ids -> Nat]

\* The broadcasts a sequence holds.
Elems(s) == {s[i] : i \in 1 .. Len(s)}

\* Running totals w[s[1]] + ... + w[s[i]] along a sequence.
PrefixSums(s, w) ==
  LET f[i \in 0 .. Len(s)] == IF i = 0 THEN 0 ELSE f[i - 1] + w[s[i]]
  IN  f

\* The total weight of a sequence.
SumW(s, w) == PrefixSums(s, w)[Len(s)]

\* The encoded_len closure memberlist passes in.
EncodedLen(id) == Size[id] + EncOverhead

\* The sum of the encoded lengths of a sequence of broadcasts.
EncodedSum(s) == SumW(s, [id \in Ids |-> EncodedLen(id)])

\* What a queue charges for handing out one broadcast.
Framed == [id \in Ids |-> Overhead + Size[id]]

(***************************************************************************)
(* get_broadcasts(overhead, limit) of one queue (spec 4.6): walking the   *)
(* queue in order, a broadcast is taken when it still fits with its       *)
(* framing; acc[i] is what the walk holds after i entries.                 *)
(***************************************************************************)
Scan(q, limit) ==
  LET acc[i \in 0 .. Len(q)] ==
        IF i = 0 THEN [bytes |-> 0, ids |-> << >>]
        ELSE IF acc[i - 1].bytes + Framed[q[i].id] <= limit
          THEN [bytes |-> acc[i - 1].bytes + Framed[q[i].id],
                ids |-> Append(acc[i - 1].ids, q[i].id)]
          ELSE acc[i - 1]
  IN  acc

\* The ids get_broadcasts hands out.
Picked(q, limit) == Scan(q, limit)[Len(q)].ids

\* The entries of s whose transmit count is still below lim, in order.
KeepAcc(s, lim) ==
  LET F[i \in 0 .. Len(s)] ==
        IF i = 0 THEN << >>
        ELSE IF s[i].tx < lim THEN Append(F[i - 1], s[i]) ELSE F[i - 1]
  IN  F

Survivors(s, lim) == KeepAcc(s, lim)[Len(s)]

\* One more transmission of each handed-out broadcast.
Bumped(q, ids) ==
  [i \in 1 .. Len(q) |->
     IF q[i].id \in Elems(ids) THEN [id |-> q[i].id, tx |-> q[i].tx + 1]
                               ELSE q[i]]

\* The queue after get_broadcasts: counts bumped, spent broadcasts dropped.
Transmitted(q, ids) == Survivors(Bumped(q, ids), RetransmitLimit)

\* queue_broadcast(b): a new broadcast joins the end of a queue.
QueueBroadcast(qn, id) ==
  /\ id \in Ids \ used
  /\ queue' = [queue EXCEPT ![qn] = Append(@, [id |-> id, tx |-> 0])]
  /\ used' = used \cup {id}
  /\ UNCHANGED <<out, lastLimit, recorded>>

\* How often id occurs in s.
Occurrences(s, id) == SumW(s, [x \in Ids |-> IF x = id THEN 1 ELSE 0])

\* One histogram sample per element of s, added to a count per id.
Record(counts, s) == [id \in Ids |-> counts[id] + Occurrences(s, id)]

\* A faulty query budget: `limit` instead of `limit - bytes_used`.
QueryBudgetFull(limit, bytesUsed) == limit

\* The budget left to the query queue after the membership queue (line 276).
QueryBudget(limit, bytesUsed) == limit - bytesUsed

\* A faulty event budget: `limit` instead of `limit - bytes_used`.
EventBudgetFull(limit, bytesUsed) == limit

\* The budget left to the event queue after the first two queues.
EventBudget(limit, bytesUsed) == limit - bytesUsed

\* bytes_used when the code computes the event queue's budget (line 295):
\* the encoded lengths of what the first two queues handed out.
BytesUsedBeforeEvents(limit) ==
  LET used1 == EncodedSum(Picked(queue["broadcasts"], limit))
  IN  used1 + EncodedSum(Picked(queue["query_broadcasts"],
                                QueryBudget(limit, used1)))

(***************************************************************************)
(* broadcast_messages(overhead, limit): three get_broadcasts calls with   *)
(* the shrinking budget; the third accounting loop walks query_msgs       *)
(* again, as the code does.                                                *)
(***************************************************************************)
BroadcastMessagesCall(limit) ==
  LET msgs == Picked(queue["broadcasts"], limit)
      used1 == EncodedSum(msgs)
      queryMsgs == Picked(queue["query_broadcasts"], QueryBudget(limit, used1))
      used2 == used1 + EncodedSum(queryMsgs)
      eventMsgs == Picked(queue["event_broadcasts"],
                          EventBudget(limit, used2))
      result == msgs \o queryMsgs \o eventMsgs
  IN /\ queue' = [queue EXCEPT
                    !["broadcasts"] = Transmitted(@, msgs),
                    !["query_broadcasts"] = Transmitted(@, queryMsgs),
                    !["event_broadcasts"] = Transmitted(@, eventMsgs)]
     /\ out' = result
     /\ lastLimit' = limit
     /\ recorded' = Record(Record(Record([id \in Ids |-> 0], msgs), queryMsgs),
                           queryMsgs)
     /\ UNCHANGED used

Init ==
  /\ queue = [qn \in QueueNames |-> << >>]
  /\ used = {}
  /\ out = << >>
  /\ lastLimit = 0
  /\ recorded = [id \in Ids |-> 0]

Next ==
  \/ \E qn \in QueueNames, id \in Ids : QueueBroadcast(qn, id)
  \/ \E limit \in Limits : BroadcastMessagesCall(limit)

Spec == Init /\ [][Next]_vars

-----------------------------------------------------------------------------
(* The broadcasts one call returns fit in the packet memberlist asked to  *)
(* fill: with their framing they total at most `limit`, although three    *)
(* queues are drained one after the other from the bytes the previous     *)
(* ones left.                                                              *)
WithinLimit == SumW(out, Framed) <= lastLimit

(* Whatever limit memberlist asks for next, neither `limit - bytes_used`  *)
(* of broadcast_messages (lines 276 and 295) underflows: the encoded       *)
(* lengths the delegate adds up for the first two queues never exceed the  *)
(* limit, although each queue fits broadcasts by length plus `overhead`    *)
(* and the delegate subtracts what encoded_len reports.  An underflow of   *)
(* the usize panics a debug build and hands the next queue a budget near   *)
(* usize::MAX in a release build.                                          *)
NoBudgetUnderflow ==
  \A limit \in Limits : BytesUsedBeforeEvents(limit) <= limit

(* What the spec (9, open questions) asks of the accounting loops: the    *)
(* "messages.sent" histogram records each returned message exactly once.  *)
SentMetricExact == \A id \in Ids : recorded[id] = Occurrences(out, id)

=============================================================================
