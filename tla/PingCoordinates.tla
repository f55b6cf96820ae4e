--------------------------- MODULE PingCoordinates ---------------------------
(***************************************************************************)
(* The PingDelegate side of SerfDelegate (src/core/src/serf/delegate.rs):  *)
(* how network coordinates ride on memberlist's ping acks.                 *)
(*                                                                         *)
(*  - ack_payload: the bytes a node attaches to its ack, the ping version  *)
(*    byte followed by its encoded coordinate when coordinates are on.     *)
(*  - notify_ping_complete: on an ack, check the payload, decode the       *)
(*    peer's coordinate, update the local Vivaldi client, then, under the  *)
(*    cache's write lock, cache the peer's coordinate and the local one.   *)
(*                                                                         *)
(* Memberlist may complete pings on several tasks at once (its probe loop  *)
(* and explicit pings): the client update and the cache write are two     *)
(* separate critical sections, and tasks interleave between them.         *)
(*                                                                         *)
(* A coordinate is abstracted to its owner and a generation: each          *)
(* successful update of a client yields the next generation.  The Vivaldi *)
(* arithmetic is not modelled; whether an update is rejected is an input.  *)
(* The codec (TransformDelegate, not in src/) is modelled by what it does: *)
(* a coordinate needs CoordLen > 0 bytes, and encoding into a shorter      *)
(* buffer fails.                                                           *)
(***************************************************************************)
EXTENDS Naturals, Sequences

CONSTANTS
  Nodes,        \* ruserf nodes whose delegates are modelled
  Foreign,      \* peers of other builds, whose acks carry a coordinate
  CoordEnabled, \* the nodes with coordinates on (coord_core is Some)
  Tasks,        \* tasks that may complete pings concurrently on one node
  CoordLen,     \* bytes an encoded coordinate needs
  MaxGen        \* bound: successful updates of one client

ASSUME NodesAssumption ==
  /\ Nodes # {} /\ Nodes \cap Foreign = {} /\ CoordEnabled \subseteq Nodes
ASSUME CoordLenAssumption == CoordLen \in Nat \ {0}
ASSUME MaxGenAssumption == MaxGen \in Nat

Peers == Nodes \cup Foreign
Coord == [of : Peers, gen : 0 .. MaxGen]
NoCoord == [of |-> "none", gen |-> 0]

PING_VERSION == 1
OtherVersion == 2        \* any other first byte

VARIABLES
  coord,   \* coord[n]: the coordinate of n's Vivaldi client
  cache,   \* cache[n][p]: n's cached coordinate of p, or NoCoord
  task,    \* task[n][t]: idle, or between the update and the cache write
  last     \* ghost: the last completed ping of each node

vars == <<coord, cache, task, last>>

Outcomes == {"none", "empty", "disabled", "bad_version", "decode_error",
             "rejected", "updated"}
Idle == [at |-> "idle", peer |-> "none", sent |-> NoCoord, after |-> NoCoord]
TaskState == [at : {"cache"}, peer : Peers, sent : Coord, after : Coord]
               \cup {Idle}
LastPing == [peer : Peers \cup {"none"}, outcome : Outcomes,
             sent : Coord \cup {NoCoord}, other : Coord \cup {NoCoord}]

TypeOK ==
  /\ coord \in [Nodes -> Coord]
  /\ cache \in [Nodes -> [Peers -> Coord \cup {NoCoord}]]
  /\ task \in [Nodes -> [Tasks -> TaskState]]
  /\ last \in [Nodes -> LastPing]

(***************************************************************************)
(* The codec.  A payload is a sequence of items: the version byte, then    *)
(* the coordinate (one item standing for its CoordLen encoded bytes).      *)
(***************************************************************************)

\* encode_coordinate into a slice of `room` bytes: it fits, or fails.
EncodeFits(room) == CoordLen <= room

\* decode_coordinate(&payload[1..]): it needs the coordinate's bytes after
\* the version byte.
DecodeOk(payload) == Len(payload) >= 2

(***************************************************************************)
(* ack_payload: an empty Vec gets the version byte, and the coordinate is  *)
(* encoded into buf[1..], a slice of length Len(buf) - 1 = 0.  The encode *)
(* error is logged and the version byte alone is returned.                 *)
(***************************************************************************)
AckPayload(n) ==
  IF n \in CoordEnabled
    THEN LET buf == <<PING_VERSION>>
         IN IF EncodeFits(Len(buf) - 1) THEN Append(buf, coord[n]) ELSE buf
    ELSE << >>

\* The acks a node may receive from peer p.
Acks(p) ==
  IF p \in Nodes
    THEN {AckPayload(p)}
    ELSE {<< >>, <<PING_VERSION>>, <<OtherVersion>>}
         \cup {<<v, c>> : v \in {PING_VERSION, OtherVersion},
                          c \in {x \in Coord : x.of = p}}

(***************************************************************************)
(* notify_ping_complete up to the client update, in one step: the early   *)
(* returns on an empty payload, disabled coordinates, a foreign version    *)
(* and a decode error; then `before = get_coordinate()` and                *)
(* `update(node.id(), &before, rtt)`, which fails (logged and counted) or  *)
(* advances the client; on success the task goes on to the cache write.   *)
(***************************************************************************)
Done(n, p, outcome, sent, other) ==
  last' = [last EXCEPT ![n] = [peer |-> p, outcome |-> outcome,
                               sent |-> sent, other |-> other]]

PingComplete(n, t, p, payload) ==
  /\ task[n][t] = Idle
  /\ CASE payload = << >> ->
            Done(n, p, "empty", NoCoord, NoCoord) /\ UNCHANGED <<coord, task>>
       [] n \notin CoordEnabled ->
            Done(n, p, "disabled", NoCoord, NoCoord) /\ UNCHANGED <<coord, task>>
       [] payload[1] # PING_VERSION ->
            Done(n, p, "bad_version", NoCoord, NoCoord) /\ UNCHANGED <<coord, task>>
       [] ~DecodeOk(payload) ->
            Done(n, p, "decode_error", NoCoord, NoCoord) /\ UNCHANGED <<coord, task>>
       [] OTHER ->
            LET sent == payload[2]
                before == coord[n]
                after == [before EXCEPT !.gen = @ + 1]
            IN \/ Done(n, p, "rejected", sent, before) /\ UNCHANGED <<coord, task>>
               \/ /\ coord[n].gen < MaxGen
                  /\ coord' = [coord EXCEPT ![n] = after]
                  /\ task' = [task EXCEPT ![n][t] = [at |-> "cache", peer |-> p,
                                                     sent |-> sent, after |-> after]]
                  /\ Done(n, p, "updated", sent, before)
  /\ UNCHANGED cache

\* A faulty cache write that stores the update's result `after` for the
\* local node instead of reading the client again under the lock.
CacheWriteAfter(n, t) ==
  LET tk == task[n][t]
  IN /\ tk.at = "cache"
     /\ cache' = [cache EXCEPT ![n][tk.peer] = tk.sent, ![n][n] = tk.after]
     /\ task' = [task EXCEPT ![n][t] = Idle]
     /\ UNCHANGED <<coord, last>>

(***************************************************************************)
(* Under the cache's write lock: insert the peer's coordinate, and set    *)
(* the local node's entry to the client's coordinate read now.            *)
(***************************************************************************)
CacheWrite(n, t) ==
  LET tk == task[n][t]
  IN /\ tk.at = "cache"
     /\ cache' = [cache EXCEPT ![n][tk.peer] = tk.sent, ![n][n] = coord[n]]
     /\ task' = [task EXCEPT ![n][t] = Idle]
     /\ UNCHANGED <<coord, last>>

Init ==
  /\ coord = [n \in Nodes |-> [of |-> n, gen |-> 0]]
  /\ cache = [n \in Nodes |-> [p \in Peers |-> NoCoord]]
  /\ task = [n \in Nodes |-> [t \in Tasks |-> Idle]]
  /\ last = [n \in Nodes |-> [peer |-> "none", outcome |-> "none",
                              sent |-> NoCoord, other |-> NoCoord]]

Next ==
  \E n \in Nodes, t \in Tasks :
    \/ \E p \in Peers \ {n} : \E payload \in Acks(p) : PingComplete(n, t, p, payload)
    \/ CacheWrite(n, t)

Spec == Init /\ [][Next]_vars

-----------------------------------------------------------------------------
(* Whenever no ping completion is between its client update and its cache *)
(* write, a node's cached coordinate of itself is its client's current    *)
(* coordinate, however the updates and cache writes of concurrent pings   *)
(* interleaved.                                                            *)
CacheSelfCurrent ==
  \A n \in Nodes :
    (\A t \in Tasks : task[n][t].at = "idle") /\ cache[n][n] # NoCoord
      => cache[n][n] = coord[n]

(* A ping between two ruserf nodes with coordinates on delivers the peer's *)
(* coordinate: it is not dropped as undecodable (what the ack_payload      *)
(* comment and the spec's note on it intend).                              *)
CoordinatesExchanged ==
  \A n \in CoordEnabled :
    last[n].peer \in CoordEnabled => last[n].outcome # "decode_error"

(* The client update is fed the coordinate the pinged peer sent, as        *)
(* Vivaldi's update(node, other, rtt) expects.                             *)
UpdateUsesPeerCoordinate ==
  \A n \in Nodes :
    last[n].outcome \in {"updated", "rejected"} => last[n].other = last[n].sent

=============================================================================
