------------------------ MODULE PingCoordinates_proofs ------------------------
(***************************************************************************)
(* Proofs about the coordinate cache of notify_ping_complete, for any     *)
(* number of nodes, peers and concurrent tasks and any bound on updates.  *)
(***************************************************************************)
EXTENDS PingCoordinates, TLAPS

\* A ruserf node's ack carries at most the version byte: the coordinate is
\* encoded into the empty slice buf[1..] and never fits.
LEMMA AckPayloadShape ==
  ASSUME NEW p \in Nodes
  PROVE  AckPayload(p) \in {<<PING_VERSION>>, << >>}
<1>1. ~EncodeFits(Len(<<PING_VERSION>>) - 1)
  BY CoordLenAssumption DEF EncodeFits, PING_VERSION
<1>2. QED
  BY <1>1 DEF AckPayload

\* The coordinate an accepted ack carries is a coordinate of the model;
\* only the acks of other builds get that far.
LEMMA AckCoord ==
  ASSUME NEW p \in Peers, NEW payload \in Acks(p),
         payload # << >>, payload[1] = PING_VERSION, DecodeOk(payload)
  PROVE  payload[2] \in Coord
<1>1. CASE p \in Nodes
  <2>1. payload \in {<<PING_VERSION>>, << >>}
    BY <1>1, AckPayloadShape DEF Acks
  <2>2. Len(payload) < 2
    BY <2>1
  <2>3. QED
    BY <2>2 DEF DecodeOk
<1>2. CASE p \notin Nodes
  <2>1. CASE payload \in {<< >>, <<PING_VERSION>>, <<OtherVersion>>}
    BY <2>1 DEF DecodeOk
  <2>2. CASE \E v \in {PING_VERSION, OtherVersion}, c \in {x \in Coord : x.of = p} :
               payload = <<v, c>>
    BY <2>2
  <2>3. QED
    BY <1>2, <2>1, <2>2 DEF Acks
<1>3. QED
  BY <1>1, <1>2

\* Every step keeps the variables in their types.
LEMMA TypeStep == TypeOK /\ [Next]_vars => TypeOK'
<1> SUFFICES ASSUME TypeOK, [Next]_vars PROVE TypeOK'
  OBVIOUS
<1>1. ASSUME NEW n \in Nodes, NEW t \in Tasks, NEW p \in Peers \ {n},
             NEW payload \in Acks(p), PingComplete(n, t, p, payload)
      PROVE  TypeOK'
  <2> DEFINE rec(o, s, x) == [peer |-> p, outcome |-> o, sent |-> s, other |-> x]
  <2>1. ASSUME NEW o \in Outcomes, NEW s \in Coord \cup {NoCoord},
               NEW x \in Coord \cup {NoCoord}, Done(n, p, o, s, x)
        PROVE  last' \in [Nodes -> LastPing]
    BY <2>1 DEF Done, TypeOK, LastPing, Peers
  <2>2. CASE payload = << >> \/ n \notin CoordEnabled \/ payload[1] # PING_VERSION
                \/ ~DecodeOk(payload)
    <3>1. UNCHANGED <<coord, task, cache>>
      BY <1>1, <2>2 DEF PingComplete
    <3>2. \E o \in Outcomes : Done(n, p, o, NoCoord, NoCoord)
      BY <1>1, <2>2 DEF PingComplete, Outcomes
    <3>3. QED
      BY <3>1, <3>2, <2>1 DEF TypeOK
  <2>3. CASE ~(payload = << >> \/ n \notin CoordEnabled \/ payload[1] # PING_VERSION
                 \/ ~DecodeOk(payload))
    <3> DEFINE sent == payload[2]
               after == [coord[n] EXCEPT !.gen = @ + 1]
    <3>1. sent \in Coord
      BY <2>3, AckCoord
    <3>2. coord[n] \in Coord
      BY DEF TypeOK
    <3>3. \/ Done(n, p, "rejected", sent, coord[n]) /\ UNCHANGED <<coord, task, cache>>
          \/ /\ coord[n].gen < MaxGen
             /\ coord' = [coord EXCEPT ![n] = after]
             /\ task' = [task EXCEPT ![n][t] = [at |-> "cache", peer |-> p,
                                                sent |-> sent, after |-> after]]
             /\ Done(n, p, "updated", sent, coord[n])
             /\ UNCHANGED cache
      BY <1>1, <2>3 DEF PingComplete
    <3>4. CASE Done(n, p, "rejected", sent, coord[n]) /\ UNCHANGED <<coord, task, cache>>
      BY <3>1, <3>2, <3>4, <2>1 DEF TypeOK, Outcomes
    <3>5. CASE /\ coord[n].gen < MaxGen
               /\ coord' = [coord EXCEPT ![n] = after]
               /\ task' = [task EXCEPT ![n][t] = [at |-> "cache", peer |-> p,
                                                  sent |-> sent, after |-> after]]
               /\ Done(n, p, "updated", sent, coord[n])
               /\ UNCHANGED cache
      <4>1. after \in Coord
        BY <3>2, <3>5, MaxGenAssumption DEF Coord
      <4>2. coord' \in [Nodes -> Coord]
        BY <3>5, <4>1 DEF TypeOK
      <4>3. task' \in [Nodes -> [Tasks -> TaskState]]
        BY <3>1, <3>5, <4>1 DEF TypeOK, TaskState, Peers
      <4>4. last' \in [Nodes -> LastPing]
        BY <3>1, <3>2, <3>5, <2>1 DEF Outcomes
      <4>5. QED
        BY <3>5, <4>2, <4>3, <4>4 DEF TypeOK
    <3>6. QED
      BY <3>3, <3>4, <3>5
  <2>4. QED
    BY <2>2, <2>3
<1>2. ASSUME NEW n \in Nodes, NEW t \in Tasks, CacheWrite(n, t) PROVE TypeOK'
  <2>1. task[n][t] \in [at : {"cache"}, peer : Peers, sent : Coord, after : Coord]
    BY <1>2 DEF CacheWrite, TypeOK, TaskState, Idle
  <2>2. QED
    BY <1>2, <2>1 DEF CacheWrite, TypeOK, TaskState, Idle
<1>3. CASE UNCHANGED vars
  BY <1>3 DEF vars, TypeOK
<1>4. QED
  BY <1>1, <1>2, <1>3 DEF Next

\* The initial state is well typed.
LEMMA InitType == Init => TypeOK
BY MaxGenAssumption DEF Init, TypeOK, Coord, Peers, TaskState, Idle, LastPing,
                        Outcomes

\* The variables of notify_ping_complete always have their types.
THEOREM TypeCorrect == Spec => []TypeOK
BY InitType, TypeStep, PTL DEF Spec

-----------------------------------------------------------------------------
(***************************************************************************)
(* CacheSelfCurrent is inductive together with TypeOK: a ping completion  *)
(* that moves the client leaves its own task at the cache write, so no    *)
(* state with every task idle sees the cache behind the client; the cache *)
(* write reads the client again under the lock.                            *)
(***************************************************************************)
IInv == TypeOK /\ CacheSelfCurrent

\* A ping completion leaves the cache alone; it either changes nothing but
\* the ghost, or moves the client and parks its task at the cache write.
LEMMA PingEffect ==
  ASSUME TypeOK, NEW n \in Nodes, NEW t \in Tasks, NEW p \in Peers \ {n},
         NEW payload \in Acks(p), PingComplete(n, t, p, payload)
  PROVE  /\ UNCHANGED cache
         /\ \/ UNCHANGED <<coord, task>>
            \/ \E c, r : /\ coord' = [coord EXCEPT ![n] = c]
                        /\ task' = [task EXCEPT ![n][t] = r]
                        /\ r.at = "cache"
<1>1. UNCHANGED cache
  BY DEF PingComplete
<1>2. CASE payload = << >> \/ n \notin CoordEnabled \/ payload[1] # PING_VERSION
             \/ ~DecodeOk(payload)
  BY <1>1, <1>2 DEF PingComplete
<1>3. CASE ~(payload = << >> \/ n \notin CoordEnabled \/ payload[1] # PING_VERSION
              \/ ~DecodeOk(payload))
  <2> DEFINE after == [coord[n] EXCEPT !.gen = @ + 1]
             r == [at |-> "cache", peer |-> p, sent |-> payload[2], after |-> after]
  <2>1. \/ UNCHANGED <<coord, task>>
        \/ coord' = [coord EXCEPT ![n] = after] /\ task' = [task EXCEPT ![n][t] = r]
    BY <1>3 DEF PingComplete
  <2>2. r.at = "cache"
    OBVIOUS
  <2>3. QED
    BY <1>1, <2>1, <2>2
<1>4. QED
  BY <1>2, <1>3

LEMMA IInvStep == IInv /\ [Next]_vars => IInv'
<1> SUFFICES ASSUME IInv, [Next]_vars PROVE IInv'
  OBVIOUS
<1>1. TypeOK'
  BY TypeStep DEF IInv
<1>2. ASSUME NEW n \in Nodes, NEW t \in Tasks, NEW p \in Peers \ {n},
             NEW payload \in Acks(p), PingComplete(n, t, p, payload)
      PROVE  CacheSelfCurrent'
  <2>1. CASE UNCHANGED <<coord, task, cache>>
    BY <2>1 DEF CacheSelfCurrent, IInv
  <2>2. CASE /\ UNCHANGED cache
             /\ \E c, r : /\ coord' = [coord EXCEPT ![n] = c]
                         /\ task' = [task EXCEPT ![n][t] = r]
                         /\ r.at = "cache"
    <3>1. PICK c, r : /\ coord' = [coord EXCEPT ![n] = c]
                      /\ task' = [task EXCEPT ![n][t] = r]
                      /\ r.at = "cache"
      BY <2>2
    <3>2. task'[n][t].at = "cache"
      BY <3>1 DEF IInv, TypeOK
    <3>3. \A m \in Nodes \ {n} : coord'[m] = coord[m] /\ task'[m] = task[m]
      BY <3>1 DEF IInv, TypeOK
    <3>4. QED
      BY <2>2, <3>2, <3>3 DEF CacheSelfCurrent, IInv
  <2>3. QED
    BY <1>2, <2>1, <2>2, PingEffect DEF IInv
<1>3. ASSUME NEW n \in Nodes, NEW t \in Tasks, CacheWrite(n, t)
      PROVE  CacheSelfCurrent'
  <2> DEFINE tk == task[n][t]
  <2>1. /\ cache' = [cache EXCEPT ![n][tk.peer] = tk.sent, ![n][n] = coord[n]]
        /\ UNCHANGED coord
    BY <1>3 DEF CacheWrite
  <2>2. cache \in [Nodes -> [Peers -> Coord \cup {NoCoord}]] /\ n \in Peers
    BY DEF IInv, TypeOK, Peers
  <2>4. cache'[n][n] = coord[n] /\ UNCHANGED coord
    BY <2>1, <2>2
  <2>5. \A m \in Nodes \ {n} : cache'[m] = cache[m] /\ task'[m] = task[m]
    BY <1>3 DEF CacheWrite, IInv, TypeOK
  <2>6. QED
    BY <2>4, <2>5 DEF CacheSelfCurrent, IInv
<1>4. CASE UNCHANGED vars
  <2>1. coord' = coord /\ cache' = cache /\ task' = task
    BY <1>4 DEF vars
  <2>2. QED
    BY <1>1, <2>1 DEF CacheSelfCurrent, IInv
<1>5. QED
  BY <1>1, <1>2, <1>3, <1>4 DEF Next, IInv

(* Whatever interleaving of concurrent ping completions memberlist        *)
(* produces, a node whose tasks are all idle caches its own coordinate as *)
(* the client's current one.                                               *)
THEOREM CacheSafety == Spec => []CacheSelfCurrent
<1>1. Init => IInv
  BY InitType DEF Init, IInv, CacheSelfCurrent, Peers
<1>2. QED
  BY <1>1, IInvStep, PTL DEF Spec, IInv
=============================================================================
