----------------------------- MODULE SessionProofs -----------------------------
(***************************************************************************)
(* Proofs about what serves a session: the chain of promises its calls wait  *)
(* on (KeyedQueue), and the replies made of them, across shutdowns, crashes  *)
(* and starts (Replies).  For every set of calls and keys, of messages,      *)
(* sessions and reactions, and for every bound.                              *)
(*                                                                         *)
(* MutualExclusion is not inductive: it follows from the way the chain of    *)
(* `prev` links the pending calls of a key, which ChainInv states.  About    *)
(* the replies BasicInv says where registry, edits and operations of the     *)
(* file come from; on it stand FileInv, MarksInv and WaitInv.               *)
(***************************************************************************)
EXTENDS KeyedQueue, Replies, SequenceTheorems, WellFoundedInduction, TLAPS

-----------------------------------------------------------------------------
(* The calls of a key. *)

(* d arrived on the key of c before c did. *)
Before(d, c) == stage[d] # "idle" /\ KeyOf[d] = KeyOf[c] /\ ticket[d] < ticket[c]

(* Tickets number the arrivals. *)
TicketsOrdered ==
  /\ \A c \in Call : ticket[c] <= clock
  /\ \A c, d \in Call :
       stage[c] # "idle" /\ stage[d] # "idle" /\ ticket[c] = ticket[d] => c = d

(* A call that got through `await prev` has nobody unfinished before it. *)
EarlierAreDone ==
  \A c, d \in Call : stage[c] \in {"running", "done"} /\ Before(d, c) => stage[d] = "done"

(* A waiting call awaits its immediate predecessor, or all before it are done. *)
ChainedToPredecessor ==
  \A c \in Call :
    stage[c] = "waiting" =>
      IF prev[c] = NoCall
      THEN \A d \in Call : Before(d, c) => stage[d] = "done"
      ELSE /\ Before(prev[c], c)
           /\ \A d \in Call : Before(d, c) => d = prev[c] \/ Before(d, prev[c])

(* The entry of a key is its latest arrival, and there is none when all settled. *)
EntryIsLatest ==
  \A k \in Key :
    IF tails[k] = NoCall
    THEN \A c \in Call : KeyOf[c] = k => stage[c] \in {"idle", "done"}
    ELSE /\ stage[tails[k]] \in {"waiting", "running"}
         /\ \A c \in Call : KeyOf[c] = k /\ stage[c] # "idle" => ticket[c] <= ticket[tails[k]]

ChainInv ==
  /\ QueueTypeOK
  /\ TicketsOrdered
  /\ EarlierAreDone
  /\ ChainedToPredecessor
  /\ EntryIsLatest

-----------------------------------------------------------------------------
(* The chain invariant holds when the queue is new: no call, no entry. *)
LEMMA InitChain == QueueInit => ChainInv
  BY KeyOfAssumption, NoCallAssumption
  DEF QueueInit, ChainInv, QueueTypeOK, Stages, TicketsOrdered, EarlierAreDone,
      ChainedToPredecessor, EntryIsLatest, Before

(* run() is called: the new call chains behind the latest arrival. *)
LEMMA EnqueueChainInv ==
  ASSUME ChainInv, NEW e \in Call, Enqueue(e)
  PROVE  ChainInv'
<1> USE KeyOfAssumption, NoCallAssumption
<1>1. /\ stage' \in [Call -> Stages]
      /\ stage'[e] = "waiting"
      /\ \A c \in Call : c # e => stage'[c] = stage[c]
      /\ stage[e] = "idle"
  BY DEF ChainInv, QueueTypeOK, Enqueue, Stages
<1>2. /\ ticket' \in [Call -> Nat]
      /\ clock' = clock + 1
      /\ clock \in Nat
      /\ ticket'[e] = clock + 1
      /\ \A c \in Call : c # e => ticket'[c] = ticket[c]
      /\ \A c \in Call : ticket[c] \in Nat /\ ticket[c] <= clock
  BY DEF ChainInv, QueueTypeOK, TicketsOrdered, Enqueue
<1>3. /\ tails' \in [Key -> Call \cup {NoCall}]
      /\ tails'[KeyOf[e]] = e
      /\ \A k \in Key : k # KeyOf[e] => tails'[k] = tails[k]
      /\ prev' \in [Call -> Call \cup {NoCall}]
      /\ prev'[e] = tails[KeyOf[e]]
      /\ \A c \in Call : c # e => prev'[c] = prev[c]
  BY DEF ChainInv, QueueTypeOK, Enqueue
<1>4. QueueTypeOK'
  BY <1>1, <1>2, <1>3 DEF ChainInv, QueueTypeOK
<1>5. TicketsOrdered'
  BY <1>1, <1>2 DEF ChainInv, TicketsOrdered
<1>6. \A c, d \in Call : c # e => (Before(d, c)' <=> Before(d, c))
  BY <1>1, <1>2 DEF Before
<1>7. \A d \in Call : Before(d, e)' <=> (d # e /\ stage[d] # "idle" /\ KeyOf[d] = KeyOf[e])
  BY <1>1, <1>2 DEF Before
<1>8. EarlierAreDone'
  BY <1>1, <1>6 DEF ChainInv, EarlierAreDone, Before
<1>9. ChainedToPredecessor'
  <2> SUFFICES ASSUME NEW c \in Call, stage'[c] = "waiting"
               PROVE  IF prev'[c] = NoCall
                      THEN \A d \in Call : Before(d, c)' => stage'[d] = "done"
                      ELSE /\ Before(prev[c], c)'
                           /\ \A d \in Call :
                                Before(d, c)' => d = prev'[c] \/ Before(d, prev[c])'
    BY DEF ChainedToPredecessor, Before
  <2>1. CASE c # e
    <3>1. stage[c] = "waiting" /\ prev'[c] = prev[c]
      BY <2>1, <1>1, <1>3
    <3>2. prev[c] # e
      BY <3>1, <1>1 DEF ChainInv, ChainedToPredecessor, Before
    <3> QED
      BY <2>1, <3>1, <3>2, <1>1, <1>6 DEF ChainInv, QueueTypeOK, ChainedToPredecessor, Before
  <2>2. CASE c = e /\ tails[KeyOf[e]] = NoCall
    BY <2>2, <1>1, <1>3, <1>7 DEF ChainInv, QueueTypeOK, EntryIsLatest, Stages
  <2>3. CASE c = e /\ tails[KeyOf[e]] # NoCall
    <3>0. PICK p \in Call : p = tails[KeyOf[e]]
      BY <2>3 DEF ChainInv, QueueTypeOK
    <3>1. KeyOf[p] = KeyOf[e] /\ stage[p] # "idle" /\ p # e /\ prev'[e] = p /\ p # NoCall
      BY <2>3, <3>0, <1>1, <1>3 DEF ChainInv, QueueTypeOK, EntryIsLatest
    <3>2. \A d \in Call : KeyOf[d] = KeyOf[e] /\ stage[d] # "idle" => ticket[d] <= ticket[p]
      BY <2>3, <3>0 DEF ChainInv, EntryIsLatest
    <3>3. \A d \in Call : KeyOf[d] = KeyOf[e] /\ stage[d] # "idle" /\ d # p => ticket[d] < ticket[p]
      BY <3>1, <3>2, <1>2 DEF ChainInv, TicketsOrdered
    <3>4. Before(p, e)'
      BY <3>1, <1>7
    <3>5. \A d \in Call : Before(d, e)' => d = p \/ Before(d, p)
      BY <3>1, <3>3, <1>7 DEF Before
    <3>6. \A d \in Call : Before(d, p)' <=> Before(d, p)
      BY <3>1, <1>6
    <3>7. Before(prev[c], c)'
      BY <2>3, <3>1, <3>4 DEF Before
    <3>8. \A d \in Call : Before(d, c)' => d = prev'[c] \/ Before(d, prev[c])'
      BY <2>3, <3>1, <3>5, <3>6 DEF Before
    <3> QED
      BY <2>3, <3>1, <3>7, <3>8
  <2> QED BY <2>1, <2>2, <2>3
<1>10. EntryIsLatest'
  <2> SUFFICES ASSUME NEW k \in Key
               PROVE  IF tails'[k] = NoCall
                      THEN \A c \in Call : KeyOf[c] = k => stage'[c] \in {"idle", "done"}
                      ELSE /\ stage'[tails'[k]] \in {"waiting", "running"}
                           /\ \A c \in Call :
                                KeyOf[c] = k /\ stage'[c] # "idle"
                                  => ticket'[c] <= ticket'[tails'[k]]
    BY DEF EntryIsLatest
  <2>1. CASE k = KeyOf[e]
    <3>1. \A c \in Call : ticket'[c] <= ticket'[e]
      BY <1>2
    <3> QED BY <2>1, <3>1, <1>1, <1>3
  <2>2. CASE k # KeyOf[e]
    <3>1. tails'[k] = tails[k] /\ tails[k] # e /\ tails[k] \in Call \cup {NoCall}
      BY <2>2, <1>3 DEF ChainInv, QueueTypeOK
    <3>2. \A c \in Call : KeyOf[c] = k => stage'[c] = stage[c] /\ ticket'[c] = ticket[c]
      BY <2>2, <1>1, <1>2
    <3>3. tails[k] # NoCall => KeyOf[tails[k]] = k
      BY DEF ChainInv, QueueTypeOK
    <3> QED BY <3>1, <3>2, <3>3 DEF ChainInv, EntryIsLatest
  <2> QED BY <2>1, <2>2
<1> QED BY <1>4, <1>5, <1>8, <1>9, <1>10 DEF ChainInv

(* `await prev` returns: everything before the call is settled by then. *)
LEMMA StartChainInv ==
  ASSUME ChainInv, NEW e \in Call, Start(e)
  PROVE  ChainInv'
<1> USE KeyOfAssumption, NoCallAssumption
<1>1. /\ stage' \in [Call -> Stages]
      /\ stage'[e] = "running"
      /\ \A c \in Call : c # e => stage'[c] = stage[c]
      /\ stage[e] = "waiting"
      /\ UNCHANGED <<tails, prev, ticket, clock>>
  BY DEF ChainInv, QueueTypeOK, Start, Stages
<1>2. \A c, d \in Call : Before(d, c)' <=> Before(d, c)
  BY <1>1 DEF Before
<1>3. \A d \in Call : Before(d, e) => stage[d] = "done"
  <2>1. CASE prev[e] = NoCall
    BY <2>1, <1>1 DEF ChainInv, ChainedToPredecessor
  <2>2. CASE prev[e] # NoCall
    <3>1. prev[e] \in Call /\ stage[prev[e]] = "done"
      BY <2>2 DEF ChainInv, QueueTypeOK, Start, TailSettled
    <3>2. \A d \in Call : Before(d, prev[e]) => stage[d] = "done"
      BY <3>1 DEF ChainInv, EarlierAreDone
    <3>3. \A d \in Call : Before(d, e) => d = prev[e] \/ Before(d, prev[e])
      BY <2>2, <1>1 DEF ChainInv, ChainedToPredecessor
    <3> QED BY <3>1, <3>2, <3>3
  <2> QED BY <2>1, <2>2
<1>4. QueueTypeOK'
  BY <1>1 DEF ChainInv, QueueTypeOK
<1>5. TicketsOrdered'
  BY <1>1 DEF ChainInv, TicketsOrdered
<1>6. EarlierAreDone'
  <2> SUFFICES ASSUME NEW c \in Call, NEW d \in Call,
                      stage'[c] \in {"running", "done"}, Before(d, c)
               PROVE  stage'[d] = "done"
    BY <1>2 DEF EarlierAreDone
  <2>1. stage[d] = "done"
    BY <1>1, <1>3 DEF ChainInv, EarlierAreDone
  <2> QED BY <2>1, <1>1
<1>7. ChainedToPredecessor'
  <2>1. \A c \in Call : stage'[c] = "waiting" => stage[c] = "waiting"
    BY <1>1
  <2>2. \A d \in Call : stage[d] = "done" => stage'[d] = "done"
    BY <1>1
  <2>3. \A c \in Call : stage[c] = "waiting" /\ prev[c] # NoCall => prev[c] \in Call
    BY DEF ChainInv, QueueTypeOK
  <2> SUFFICES ASSUME NEW c \in Call, stage'[c] = "waiting"
               PROVE  IF prev'[c] = NoCall
                      THEN \A d \in Call : Before(d, c)' => stage'[d] = "done"
                      ELSE /\ Before(prev[c], c)'
                           /\ \A d \in Call :
                                Before(d, c)' => d = prev'[c] \/ Before(d, prev[c])'
    BY DEF ChainedToPredecessor, Before
  <2>4. CASE prev[c] = NoCall
    <3>1. \A d \in Call : Before(d, c) => stage[d] = "done"
      BY <2>1, <2>4 DEF ChainInv, ChainedToPredecessor
    <3> QED BY <3>1, <2>2, <2>4, <1>1, <1>2
  <2>5. CASE prev[c] # NoCall
    <3>1. /\ Before(prev[c], c)
          /\ \A d \in Call : Before(d, c) => d = prev[c] \/ Before(d, prev[c])
      BY <2>1, <2>5 DEF ChainInv, ChainedToPredecessor
    <3>2. prev'[c] = prev[c] /\ prev[c] \in Call
      BY <2>1, <2>3, <2>5, <1>1
    <3> QED BY <3>1, <3>2, <2>5, <1>2
  <2> QED BY <2>4, <2>5
<1>8. EntryIsLatest'
  BY <1>1 DEF ChainInv, EntryIsLatest, QueueTypeOK
<1> QED BY <1>4, <1>5, <1>6, <1>7, <1>8 DEF ChainInv

(* fn settles: the entry goes when nobody arrived behind the call. *)
LEMMA FinishChainInv ==
  ASSUME ChainInv, NEW e \in Call, Finish(e)
  PROVE  ChainInv'
<1> USE KeyOfAssumption, NoCallAssumption
<1>1. /\ stage' \in [Call -> Stages]
      /\ stage'[e] = "done"
      /\ \A c \in Call : c # e => stage'[c] = stage[c]
      /\ stage[e] = "running"
      /\ UNCHANGED <<prev, ticket, clock>>
  BY DEF ChainInv, QueueTypeOK, Finish, Stages
<1>2. tails' = TailsAfter(e)
  BY DEF Finish
<1>3. \A c, d \in Call : Before(d, c)' <=> Before(d, c)
  BY <1>1 DEF Before
<1>4. QueueTypeOK'
  BY <1>1, <1>2 DEF ChainInv, QueueTypeOK, TailsAfter
<1>5. TicketsOrdered'
  BY <1>1 DEF ChainInv, TicketsOrdered
<1>6. EarlierAreDone'
  <2> SUFFICES ASSUME NEW c \in Call, NEW d \in Call,
                      stage'[c] \in {"running", "done"}, Before(d, c)
               PROVE  stage'[d] = "done"
    BY <1>3 DEF EarlierAreDone
  <2>1. stage[c] \in {"running", "done"}
    BY <1>1
  <2> QED BY <2>1, <1>1 DEF ChainInv, EarlierAreDone
<1>7. ChainedToPredecessor'
  <2> SUFFICES ASSUME NEW c \in Call, stage'[c] = "waiting"
               PROVE  IF prev'[c] = NoCall
                      THEN \A d \in Call : Before(d, c)' => stage'[d] = "done"
                      ELSE /\ Before(prev[c], c)'
                           /\ \A d \in Call :
                                Before(d, c)' => d = prev'[c] \/ Before(d, prev[c])'
    BY DEF ChainedToPredecessor, Before
  <2>1. stage[c] = "waiting" /\ prev'[c] = prev[c]
    BY <1>1
  <2>2. CASE prev[c] = NoCall
    <3>1. \A d \in Call : Before(d, c) => stage[d] = "done"
      BY <2>1, <2>2 DEF ChainInv, ChainedToPredecessor
    <3> QED BY <3>1, <2>1, <2>2, <1>1, <1>3
  <2>3. CASE prev[c] # NoCall
    <3>1. /\ Before(prev[c], c)
          /\ \A d \in Call : Before(d, c) => d = prev[c] \/ Before(d, prev[c])
      BY <2>1, <2>3 DEF ChainInv, ChainedToPredecessor
    <3>2. prev[c] \in Call
      BY <2>3 DEF ChainInv, QueueTypeOK
    <3> QED BY <3>1, <3>2, <2>1, <2>3, <1>3
  <2> QED BY <2>2, <2>3
<1>8. EntryIsLatest'
  <2> SUFFICES ASSUME NEW k \in Key
               PROVE  IF tails'[k] = NoCall
                      THEN \A c \in Call : KeyOf[c] = k => stage'[c] \in {"idle", "done"}
                      ELSE /\ stage'[tails'[k]] \in {"waiting", "running"}
                           /\ \A c \in Call :
                                KeyOf[c] = k /\ stage'[c] # "idle"
                                  => ticket'[c] <= ticket'[tails'[k]]
    BY DEF EntryIsLatest
  <2>1. \A c \in Call : (stage'[c] = "idle") <=> (stage[c] = "idle")
    BY <1>1
  <2>2. CASE k = KeyOf[e] /\ tails[k] = e
    <3>1. tails'[k] = NoCall
      BY <2>2, <1>2 DEF TailsAfter
    <3>2. \A c \in Call : KeyOf[c] = k /\ stage[c] # "idle" => ticket[c] <= ticket[e]
      BY <2>2 DEF ChainInv, EntryIsLatest, QueueTypeOK
    <3>3. \A c \in Call : KeyOf[c] = k /\ stage[c] # "idle" /\ c # e => Before(c, e)
      BY <2>2, <3>2, <1>1 DEF ChainInv, TicketsOrdered, QueueTypeOK, Before
    <3>4. \A c \in Call : KeyOf[c] = k /\ stage[c] # "idle" /\ c # e => stage[c] = "done"
      BY <3>3, <1>1 DEF ChainInv, EarlierAreDone
    <3> QED BY <3>1, <3>4, <1>1, <2>1
  <2>3. CASE ~(k = KeyOf[e] /\ tails[k] = e)
    <3>1. tails'[k] = tails[k]
      BY <2>3, <1>2 DEF TailsAfter
    <3>2. CASE tails[k] = NoCall
      BY <3>1, <3>2, <1>1 DEF ChainInv, EntryIsLatest
    <3>3. CASE tails[k] # NoCall
      <4>1. tails[k] \in Call /\ KeyOf[tails[k]] = k
        BY <3>3 DEF ChainInv, QueueTypeOK
      <4>2. tails[k] # e
        BY <2>3, <4>1
      <4> QED BY <3>1, <3>3, <4>1, <4>2, <2>1, <1>1 DEF ChainInv, EntryIsLatest
    <3> QED BY <3>2, <3>3
  <2> QED BY <2>2, <2>3
<1> QED BY <1>4, <1>5, <1>6, <1>7, <1>8 DEF ChainInv

(* Every step of the queue keeps the chain invariant. *)
LEMMA NextChain == ChainInv /\ [QueueNext]_queueVars => ChainInv'
<1> SUFFICES ASSUME ChainInv, [QueueNext]_queueVars PROVE ChainInv'
  OBVIOUS
<1>1. ASSUME NEW c \in Call, Enqueue(c) PROVE ChainInv'
  BY <1>1, EnqueueChainInv
<1>2. ASSUME NEW c \in Call, Start(c) PROVE ChainInv'
  BY <1>2, StartChainInv
<1>3. ASSUME NEW c \in Call, Finish(c) PROVE ChainInv'
  BY <1>3, FinishChainInv
<1>4. CASE UNCHANGED queueVars
  BY <1>4 DEF queueVars, ChainInv, QueueTypeOK, TicketsOrdered, EarlierAreDone,
              ChainedToPredecessor, EntryIsLatest, Before
<1> QED BY <1>1, <1>2, <1>3, <1>4 DEF QueueNext, AllDone

(* The promise chain links the pending calls of each key in arrival order. *)
THEOREM ChainInvariant == QueueSpec => []ChainInv
  BY InitChain, NextChain, PTL DEF QueueSpec

-----------------------------------------------------------------------------
(* The map only ever holds calls of its own key, and so does every chain. *)
THEOREM QueueTypeCorrect == QueueSpec => []QueueTypeOK
<1>1. ChainInv => QueueTypeOK
  BY DEF ChainInv
<1> QED BY <1>1, ChainInvariant, PTL

(* No two fns of one key are ever in progress together. *)
THEOREM KeyMutualExclusion == QueueSpec => []MutualExclusion
<1>1. ChainInv => MutualExclusion
  <2> SUFFICES ASSUME ChainInv, NEW c \in Call, NEW d \in Call, c # d,
                      stage[c] = "running", stage[d] = "running", KeyOf[c] = KeyOf[d]
               PROVE  FALSE
    BY DEF MutualExclusion
  <2>1. ticket[c] \in Nat /\ ticket[d] \in Nat /\ ticket[c] # ticket[d]
    BY DEF ChainInv, QueueTypeOK, TicketsOrdered
  <2>2. Before(c, d) \/ Before(d, c)
    BY <2>1 DEF Before
  <2> QED BY <2>2 DEF ChainInv, EarlierAreDone
<1> QED BY <1>1, ChainInvariant, PTL

(* An entry stands for the latest pending call of its key, and only for one. *)
THEOREM NoLeakedEntry == QueueSpec => []EntryIffPending
<1>1. ChainInv => EntryIffPending
  BY KeyOfAssumption, NoCallAssumption
  DEF ChainInv, QueueTypeOK, Stages, EntryIsLatest, EntryIffPending, Pending
<1> QED BY <1>1, ChainInvariant, PTL

(* The promise chain implements the FIFO lock: a call is granted only when   *)
(* every earlier call of its key is done.                                    *)
THEOREM ImplementsFifoLock == QueueSpec => ServesInOrder
<1>1. QueueInit => Fifo!Init
  BY DEF QueueInit, Fifo!Init
<1>2. ChainInv /\ [QueueNext]_queueVars => [Fifo!Next]_(Fifo!vars)
  <2> SUFFICES ASSUME ChainInv, [QueueNext]_queueVars PROVE [Fifo!Next]_(Fifo!vars)
    OBVIOUS
  <2>1. ASSUME NEW c \in Call, Enqueue(c) PROVE Fifo!Request(c)
    BY <2>1 DEF Enqueue, Fifo!Request
  <2>2. ASSUME NEW c \in Call, Start(c) PROVE Fifo!Grant(c)
    <3>1. ChainInv'
      BY <2>2, StartChainInv
    <3>2. stage' = [stage EXCEPT ![c] = "running"] /\ UNCHANGED <<ticket, clock>>
      BY <2>2 DEF Start
    <3>3. stage[c] = "waiting"
      BY <2>2 DEF Start
    <3>4. \A d \in Fifo!Earlier(c) : stage[d] = "done"
      <4> SUFFICES ASSUME NEW d \in Call, stage[d] # "idle", KeyOf[d] = KeyOf[c],
                          ticket[d] < ticket[c]
                   PROVE  stage[d] = "done"
        BY DEF Fifo!Earlier
      <4>1. d # c
        BY DEF ChainInv, QueueTypeOK
      <4>2. stage'[d] = stage[d] /\ stage'[c] = "running"
        BY <4>1, <3>2 DEF ChainInv, QueueTypeOK
      <4>3. Before(d, c)'
        BY <4>2, <3>2 DEF Before
      <4> QED BY <4>2, <4>3, <3>1 DEF ChainInv, EarlierAreDone
    <3> QED BY <3>2, <3>3, <3>4 DEF Fifo!Grant
  <2>3. ASSUME NEW c \in Call, Finish(c) PROVE Fifo!Finish(c)
    BY <2>3 DEF Finish, Fifo!Finish
  <2>4. CASE UNCHANGED queueVars
    BY <2>4 DEF queueVars, Fifo!vars
  <2> QED BY <2>1, <2>2, <2>3, <2>4 DEF QueueNext, AllDone, Fifo!Next
<1> QED BY <1>1, <1>2, ChainInvariant, PTL DEF QueueSpec, ServesInOrder, Fifo!Spec

-----------------------------------------------------------------------------
(* The replies: the shape of the state. *)

(* Where a call can be, and what it is. *)
Places ==
  {"none", "queued", "placed", "sent", "stream", "editing", "erring", "reporting",
   "suppressing", "discarding", "deleting", "answered", "closing", "failed", "sending",
   "outer", "outcome", "over", "dead"}

TurnState == [at : Places, batch : Seq(Msg), depth : 0..MaxDepth, final : BOOLEAN,
              held : BOOLEAN]

(* The operations that are put into persistQueue. *)
Operation == {Op(op, r) : op \in {"add", "remove"}, r \in Reply} \cup {Op("clear", <<>>)}

(* The sets the variables take their values from. *)
Shape ==
  /\ buffer \in [Session -> Seq(Msg)]
  /\ turn \in [Msg -> TurnState]
  /\ shown \in [Reply -> Shown] /\ flight \in [Reply -> Seq(Edit)]
  /\ registry \subseteq Reply /\ queue \in Seq(Operation)
  /\ file \subseteq Reply /\ orphans \subseteq Reply /\ due \subseteq Msg
  /\ runs \in [Msg -> {"none", "running", "done", "interrupted", "posted"}]
  /\ boot \in {"off", "login", "post", "cleaning", "up"}
  /\ stop \in {"no", "stopping", "drained", "clearing"}

(* A nonempty set of natural numbers has a least element. *)
LEMMA LeastNumber ==
  ASSUME NEW T, T \subseteq Nat, T # {}
  PROVE  \E n \in T : \A k \in T : n <= k
<1>1. PICK n \in T : \A k \in T : ~(<<k, n>> \in OpToRel(<, Nat))
  BY NatLessThanWellFounded, WFMin, Zenon
<1>2. \A k \in T : ~(<<k, n>> \in {ss \in Nat \X Nat : ss[1] < ss[2]})
  BY <1>1 DEF OpToRel
<1>3. \A k \in T : ~(k < n)
  BY <1>2
<1> QED
  BY <1>3

(* What a call takes from a buffer that is not empty is a part of it. *)
LEMMA ChunkOfBuffer ==
  ASSUME NEW b \in Seq(Msg), b # <<>>
  PROVE  Chunk(b) \in Seq(Msg)
<1> DEFINE Good(n) ==
             IF b[1] \in Command THEN n = 1
             ELSE /\ \A k \in 1..n : b[k] \notin Command
                  /\ n < Len(b) => b[n + 1] \in Command
           Stops == {n \in 1..Len(b) : n < Len(b) => b[n + 1] \in Command}
<1>0. Len(b) \in Nat /\ Len(b) >= 1 /\ b[1] \in Msg /\ \A k \in 1..Len(b) : b[k] \in Msg
  BY EmptySeq, ElementOfSeq, LenProperties
<1>1. \E n \in 1..Len(b) : Good(n)
  <2>1. CASE b[1] \in Command
    BY <2>1, <1>0
  <2>2. CASE b[1] \notin Command
    <3>1. Len(b) \in Stops /\ Stops \subseteq Nat
      BY <1>0
    <3> HIDE DEF Stops
    <3>2. PICK n \in Stops : \A k \in Stops : n <= k
      BY <3>1, LeastNumber
    <3> USE DEF Stops
    <3>3. ASSUME NEW k \in 1..n, b[k] \in Command PROVE FALSE
      <4>1. k # 1 /\ k - 1 \in 1..Len(b) /\ k - 1 < n /\ (k - 1) + 1 = k
        BY <2>2, <3>2, <3>3, <1>0
      <4>2. k - 1 \in Stops
        BY <4>1, <3>3
      <4>3. n <= k - 1 /\ n \in Nat /\ k - 1 \in Nat
        BY <4>1, <4>2, <3>1, <3>2
      <4> QED
        BY <4>1, <4>3
    <3> QED
      BY <2>2, <3>2, <3>3
  <2> QED
    BY <2>1, <2>2
<1>2. PICK n \in 1..Len(b) : n = CHOOSE i \in 1..Len(b) : Good(i)
  BY <1>1
<1>3. Chunk(b) = SubSeq(b, 1, n)
  BY <1>2 DEF Chunk
<1>4. \A i \in 1..n : b[i] \in Msg
  BY <1>0
<1>5. n \in Int /\ 1 \in Int
  BY <1>0
<1> QED
  BY <1>3, <1>4, <1>5, SubSeqProperties

-----------------------------------------------------------------------------
(* Where a turn holds the disposer of an entry, and where it awaits an edit. *)
Holding ==
  {"stream", "editing", "erring", "reporting", "suppressing", "discarding", "deleting",
   "answered", "closing", "failed"}

Awaiting == {"editing", "erring", "reporting", "suppressing", "discarding", "deleting", "outer"}

(* The registry has the current replies of the turns that will dispose them. *)
RegistryIsHeld ==
  /\ \A m \in Msg : turn[m].held => turn[m].at \in Holding
  /\ registry = IF Down THEN {} ELSE {Current(m) : m \in {c \in Msg : turn[c].held}}

(* The k-th edit on its way is one the turn asked for. *)
Own(r, k) == flight[r][k] \notin Mark

(* Of its own edits a turn has one on its way, to its current reply, and      *)
(* awaits it.                                                                *)
EditsAwaited ==
  \A r \in Reply : \A k \in 1..Len(flight[r]) : Own(r, k) =>
    /\ turn[r[1]].at \in Awaiting /\ r = Current(r[1])
    /\ \A l \in 1..Len(flight[r]) : Own(r, l) => l = k

(* A reply whose turn has not come to it yet. *)
Unborn(r) ==
  \/ turn[r[1]].at \in {"none", "queued"}
  \/ Alive(r[1]) /\ r[2] > turn[r[1]].depth

(* No operation that waits is about the reply. *)
Unnamed(r) == \A k \in 1..Len(queue) : queue[k] \notin {Op("add", r), Op("remove", r)}

(* Channel, file and queue know nothing of such a reply. *)
UnbornIsNowhere ==
  \A r \in Reply : Unborn(r) =>
    shown[r] = "absent" /\ flight[r] = <<>> /\ r \notin file /\ Unnamed(r)

(* A call begins with its first reply, and follows up while it may. *)
Depths ==
  \A m \in Msg :
    /\ turn[m].at \in {"none", "queued"} => turn[m].depth = 0
    /\ turn[m].at = "sending" => turn[m].depth < MaxDepth

BasicInv == Shape /\ RegistryIsHeld /\ EditsAwaited /\ UnbornIsNowhere /\ Depths

(* The part of a turn's state an own step of it leaves to all other turns. *)
OthersStay(m) == \A n \in Msg : n # m => turn'[n] = turn[n]

(* What the state of a call is made of, and its current reply. *)
LEMMA TurnFields ==
  ASSUME Shape, NEW m \in Msg
  PROVE  /\ turn[m].at \in Places /\ turn[m].batch \in Seq(Msg) /\ turn[m].depth \in 0..MaxDepth
         /\ turn[m].final \in BOOLEAN /\ turn[m].held \in BOOLEAN /\ Current(m) \in Reply
         /\ turn[m].depth \in Nat /\ SessionOf[m] \in Session
BY MsgAssumption, BoundsAssumption DEF Shape, TurnState, Current, Reply

(* A reply is a call and a depth. *)
LEMMA ReplyParts ==
  ASSUME NEW r \in Reply
  PROVE  /\ r[1] \in Msg /\ r[2] \in 0..MaxDepth /\ r[2] \in Nat /\ r = <<r[1], r[2]>>
         /\ 0 \in 0..MaxDepth /\ \A m \in Msg : <<m, 0>> \in Reply
BY BoundsAssumption DEF Reply

(* A sequence of edits with one more at its end. *)
LEMMA EditAppended ==
  ASSUME NEW s \in Seq(Edit), NEW e \in Edit
  PROVE  /\ Append(s, e) \in Seq(Edit) /\ Len(Append(s, e)) = Len(s) + 1 /\ Len(s) \in Nat
         /\ Append(s, e)[Len(s) + 1] = e
         /\ \A k \in 1..Len(s) : Append(s, e)[k] = s[k] /\ k \in Nat
OBVIOUS

(* And with its first one taken. *)
LEMMA EditTaken ==
  ASSUME NEW s \in Seq(Edit), s # <<>>
  PROVE  /\ Tail(s) \in Seq(Edit) /\ Len(Tail(s)) = Len(s) - 1 /\ Len(s) \in Nat /\ Len(s) >= 1
         /\ Head(s) = s[1] /\ Head(s) \in Edit
         /\ \A k \in 1..Len(Tail(s)) : Tail(s)[k] = s[k + 1] /\ k + 1 \in 1..Len(s)
<1>1. Len(s) \in Nat /\ Len(s) >= 1 /\ \A k \in 1..Len(s) : s[k] \in Edit
  BY EmptySeq, LenProperties, ElementOfSeq
<1>2. Head(s) = s[1]
  OBVIOUS
<1> QED
  BY <1>1, <1>2, HeadTailProperties

(* Marks may be added, as long as the turns that await an edit stay. *)
LEMMA MarksAwaited ==
  ASSUME BasicInv, Shape',
         \A n \in Msg : turn[n].at \in Awaiting =>
           turn'[n].at = turn[n].at /\ turn'[n].depth = turn[n].depth,
         \A r \in Reply : \/ flight'[r] = flight[r]
                          \/ \E mark \in Mark : flight'[r] = Append(flight[r], mark)
  PROVE  EditsAwaited'
<1> SUFFICES ASSUME NEW r \in Reply, NEW k \in 1..Len(flight'[r]), flight'[r][k] \notin Mark
             PROVE  /\ turn'[r[1]].at \in Awaiting /\ r = <<r[1], turn'[r[1]].depth>>
                    /\ \A l \in 1..Len(flight'[r]) : flight'[r][l] \notin Mark => l = k
  BY DEF EditsAwaited, Own, Current
<1>0. flight[r] \in Seq(Edit) /\ Len(flight[r]) \in Nat /\ r[1] \in Msg
  BY ReplyParts, LenProperties DEF BasicInv, Shape
<1>2. \A l \in 1..Len(flight'[r]) : flight'[r][l] \notin Mark
         => l \in 1..Len(flight[r]) /\ flight[r][l] \notin Mark
  <2>1. CASE flight'[r] = flight[r]
    BY <2>1
  <2>2. ASSUME NEW mark \in Mark, flight'[r] = Append(flight[r], mark)
        PROVE  \A l \in 1..Len(flight'[r]) : flight'[r][l] \notin Mark
                 => l \in 1..Len(flight[r]) /\ flight[r][l] \notin Mark
    <3>1. mark \in Edit
      BY DEF Edit
    <3>2. ASSUME NEW l \in 1..Len(flight'[r]), flight'[r][l] \notin Mark
          PROVE  l \in 1..Len(flight[r]) /\ flight[r][l] \notin Mark
      BY <1>0, <2>2, <3>1, <3>2, EditAppended
    <3> QED
      BY <3>2
  <2> QED
    BY <2>1, <2>2
<1>1. k \in 1..Len(flight[r]) /\ flight[r][k] \notin Mark
  BY <1>2
<1> QED
  BY <1>0, <1>1, <1>2 DEF BasicInv, EditsAwaited, Own, Current

(* A turn that awaits nothing asks for an edit. *)
LEMMA AskAwaited ==
  ASSUME BasicInv, NEW m \in Msg, NEW at \in Awaiting, NEW e \in Edit \ Mark,
         turn[m].at \notin Awaiting, OthersStay(m),
         turn'[m].at = at, turn'[m].depth = turn[m].depth,
         flight' = [flight EXCEPT ![Current(m)] = Append(@, e)]
  PROVE  EditsAwaited'
<1> SUFFICES ASSUME NEW r \in Reply, NEW k \in 1..Len(flight'[r]), flight'[r][k] \notin Mark
             PROVE  /\ turn'[r[1]].at \in Awaiting /\ r = <<r[1], turn'[r[1]].depth>>
                    /\ \A l \in 1..Len(flight'[r]) : flight'[r][l] \notin Mark => l = k
  BY DEF EditsAwaited, Own, Current
<1>0. flight[r] \in Seq(Edit) /\ Len(flight[r]) \in Nat /\ r[1] \in Msg /\ e \in Edit
  BY ReplyParts, LenProperties DEF BasicInv, Shape
<1>1. CASE r = Current(m)
  <2>0. r[1] = m /\ r = <<m, turn[m].depth>>
    BY <1>1 DEF Current
  <2>1. flight'[r] = Append(flight[r], e)
    BY <1>1 DEF BasicInv, Shape
  <2>2. \A l \in 1..Len(flight[r]) : flight[r][l] \in Mark
    BY <2>0, <1>0 DEF BasicInv, EditsAwaited, Own
  <2>3. \A l \in 1..Len(flight'[r]) : flight'[r][l] \notin Mark => l = Len(flight[r]) + 1
    BY <2>1, <2>2, <1>0, EditAppended
  <2> QED
    BY <2>0, <2>3
<1>2. CASE r # Current(m)
  <2>1. flight'[r] = flight[r]
    BY <1>2 DEF BasicInv, Shape
  <2>2. turn[r[1]].at \in Awaiting /\ r = Current(r[1])
    BY <2>1 DEF BasicInv, EditsAwaited, Own
  <2>3. r[1] # m
    BY <2>2
  <2> QED
    BY <2>1, <2>2, <2>3, <1>0 DEF BasicInv, EditsAwaited, Own, Current, OthersStay
<1> QED
  BY <1>1, <1>2

(* Operations of different kinds or of different replies are different. *)
LEMMA OpsDistinct ==
  ASSUME NEW r \in Reply, NEW s
  PROVE  /\ Op("add", r) = Op("add", s) => r = s
         /\ Op("remove", r) = Op("remove", s) => r = s
         /\ Op("add", r) # Op("remove", s) /\ Op("remove", r) # Op("add", s)
         /\ Op("clear", s) # Op("add", r) /\ Op("clear", s) # Op("remove", r)
BY DEF Op

(* The queue with one more operation. *)
LEMMA OperationAppended ==
  ASSUME NEW q \in Seq(Operation), NEW o \in Operation
  PROVE  /\ Append(q, o) \in Seq(Operation) /\ Len(Append(q, o)) = Len(q) + 1 /\ Len(q) \in Nat
         /\ Append(q, o)[Len(q) + 1] = o
         /\ \A k \in 1..Len(q) : Append(q, o)[k] = q[k] /\ k \in Nat
OBVIOUS

(* And with its first one taken. *)
LEMMA OperationTaken ==
  ASSUME NEW q \in Seq(Operation), q # <<>>
  PROVE  /\ Tail(q) \in Seq(Operation) /\ Len(Tail(q)) = Len(q) - 1 /\ Len(q) \in Nat /\ Len(q) >= 1
         /\ Head(q) = q[1] /\ Head(q) \in Operation
         /\ \A k \in 1..Len(Tail(q)) : Tail(q)[k] = q[k + 1] /\ k + 1 \in 1..Len(q)
<1>1. Len(q) \in Nat /\ Len(q) >= 1 /\ \A k \in 1..Len(q) : q[k] \in Operation
  BY EmptySeq, LenProperties, ElementOfSeq
<1>2. Head(q) = q[1]
  OBVIOUS
<1> QED
  BY <1>1, <1>2, HeadTailProperties

(* What an operation takes from the file. *)
Removes(o, r) == o.op = "clear" \/ (o.op = "remove" /\ r \in o.of)

(* What an operation makes of the file: its reply is added or removed. *)
LEMMA ResultOfReplies ==
  ASSUME Shape, NEW o \in Operation
  PROVE  /\ Result(o) \subseteq Reply
         /\ \A r \in Reply : r \in Result(o) <=> o = Op("add", r) \/ (r \in file /\ ~Removes(o, r))
<1>1. CASE o = Op("clear", <<>>)
  BY <1>1 DEF Result, Op, Removes
<1>2. ASSUME NEW s \in Reply, o = Op("add", s)
      PROVE  /\ Result(o) \subseteq Reply
             /\ \A r \in Reply : r \in Result(o) <=> o = Op("add", r) \/ (r \in file /\ ~Removes(o, r))
  <2>1. Result(o) = file \cup {s} /\ \A r \in Reply : ~Removes(o, r)
    BY <1>2 DEF Result, Op, Removes
  <2> QED
    BY <1>2, <2>1, OpsDistinct DEF Shape
<1>3. ASSUME NEW s \in Reply, o = Op("remove", s)
      PROVE  /\ Result(o) \subseteq Reply
             /\ \A r \in Reply : r \in Result(o) <=> o = Op("add", r) \/ (r \in file /\ ~Removes(o, r))
  <2>1. Result(o) = file \ {s} /\ \A r \in Reply : Removes(o, r) <=> r = s
    BY <1>3 DEF Result, Op, Removes
  <2> QED
    BY <1>3, <2>1, OpsDistinct DEF Shape
<1> QED
  BY <1>1, <1>2, <1>3 DEF Operation

(* The turn goes to another place and keeps everything else. *)
LEMMA AtSet ==
  ASSUME Shape, NEW m \in Msg, NEW at \in Places, turn' = [turn EXCEPT ![m].at = at]
  PROVE  /\ turn' \in [Msg -> TurnState] /\ OthersStay(m) /\ turn'[m].at = at
         /\ turn'[m].depth = turn[m].depth /\ turn'[m].final = turn[m].final
         /\ turn'[m].held = turn[m].held
<1>0. turn[m] \in TurnState
  BY DEF Shape
<1> DEFINE new == [turn[m] EXCEPT !.at = at]
<1>4. new \in TurnState
  BY <1>0 DEF TurnState
<1>5. turn' = [turn EXCEPT ![m] = new]
  OBVIOUS
<1> HIDE DEF new
<1>6. turn' \in [Msg -> TurnState] /\ turn'[m] = new
  BY <1>4, <1>5 DEF Shape
<1> USE DEF new
<1>1. turn' \in [Msg -> TurnState] /\ turn'[m] = [turn[m] EXCEPT !.at = at]
  BY <1>6
<1>2. OthersStay(m)
  BY DEF Shape, OthersStay
<1>3. turn[m] \in TurnState
  BY DEF Shape
<1> QED
  BY <1>1, <1>2, <1>3 DEF TurnState

(* The turn gives up the disposer of its entry. *)
LEMMA ReleasedSet ==
  ASSUME Shape, NEW m \in Msg, NEW at \in Places,
         turn' = [turn EXCEPT ![m].at = at, ![m].held = FALSE]
  PROVE  /\ turn' \in [Msg -> TurnState] /\ OthersStay(m) /\ turn'[m].at = at
         /\ turn'[m].depth = turn[m].depth /\ turn'[m].final = turn[m].final /\ ~turn'[m].held
<1>0. turn[m] \in TurnState
  BY DEF Shape
<1> DEFINE new == [turn[m] EXCEPT !.at = at, !.held = FALSE]
<1>4. new \in TurnState
  BY <1>0 DEF TurnState
<1>5. turn' = [turn EXCEPT ![m] = new]
  OBVIOUS
<1> HIDE DEF new
<1>6. turn' \in [Msg -> TurnState] /\ turn'[m] = new
  BY <1>4, <1>5 DEF Shape
<1> USE DEF new
<1>1. turn' \in [Msg -> TurnState] /\ turn'[m] = [turn[m] EXCEPT !.at = at, !.held = FALSE]
  BY <1>6
<1>2. OthersStay(m)
  BY DEF Shape, OthersStay
<1>3. turn[m] \in TurnState
  BY DEF Shape
<1> QED
  BY <1>1, <1>2, <1>3 DEF TurnState

(* The turn goes to another place and notes whether its reply is final. *)
LEMMA FinalSet ==
  ASSUME Shape, NEW m \in Msg, NEW at \in Places, NEW f \in BOOLEAN,
         turn' = [turn EXCEPT ![m].at = at, ![m].final = f]
  PROVE  /\ turn' \in [Msg -> TurnState] /\ OthersStay(m) /\ turn'[m].at = at
         /\ turn'[m].depth = turn[m].depth /\ turn'[m].final = f /\ turn'[m].held = turn[m].held
<1>0. turn[m] \in TurnState
  BY DEF Shape
<1> DEFINE new == [turn[m] EXCEPT !.at = at, !.final = f]
<1>4. new \in TurnState
  BY <1>0 DEF TurnState
<1>5. turn' = [turn EXCEPT ![m] = new]
  OBVIOUS
<1> HIDE DEF new
<1>6. turn' \in [Msg -> TurnState] /\ turn'[m] = new
  BY <1>4, <1>5 DEF Shape
<1> USE DEF new
<1>1. turn' \in [Msg -> TurnState] /\ turn'[m] = [turn[m] EXCEPT !.at = at, !.final = f]
  BY <1>6
<1>2. OthersStay(m)
  BY DEF Shape, OthersStay
<1>3. turn[m] \in TurnState
  BY DEF Shape
<1> QED
  BY <1>1, <1>2, <1>3 DEF TurnState

(* The turn is over, and its locals are gone. *)
LEMMA OverSet ==
  ASSUME Shape, NEW m \in Msg, Over(m)
  PROVE  /\ turn' \in [Msg -> TurnState] /\ OthersStay(m) /\ turn'[m].at = "over"
         /\ turn'[m].depth = 0 /\ ~turn'[m].held
<1>1. [Asleep EXCEPT !.at = "over"] \in TurnState
  <2>1. <<>> \in Seq(Msg) /\ 0 \in 0..MaxDepth /\ "over" \in Places
    BY BoundsAssumption DEF Places
  <2>2. Asleep \in TurnState
    BY <2>1 DEF TurnState, Asleep, Places
  <2> QED
    BY <2>1, <2>2 DEF TurnState
<1>2. turn' = [turn EXCEPT ![m] = [Asleep EXCEPT !.at = "over"]]
  BY DEF Over
<1>3. turn' \in [Msg -> TurnState] /\ turn'[m] = [Asleep EXCEPT !.at = "over"] /\ OthersStay(m)
  BY <1>1, <1>2 DEF Shape, OthersStay
<1> QED
  BY <1>3 DEF Asleep

(* The registry follows when nothing of it changes. *)
LEMMA HeldStays ==
  ASSUME BasicInv, UNCHANGED <<registry, stop>>,
         \A n \in Msg : /\ turn'[n].held = turn[n].held
                        /\ turn[n].held => turn'[n].depth = turn[n].depth /\ turn'[n].at \in Holding
  PROVE  RegistryIsHeld'
<1> DEFINE Regs == {Current(n) : n \in {c \in Msg : turn[c].held}}
<1>0. ASSUME NEW n \in Msg, turn[n].held
      PROVE  turn'[n].held /\ turn'[n].depth = turn[n].depth /\ Current(n)' = Current(n)
  <2>1. turn'[n].held /\ turn'[n].depth = turn[n].depth
    BY <1>0
  <2> QED
    BY <2>1 DEF Current
<1>1. Regs' = Regs
  <2>1. ASSUME NEW r \in Regs' PROVE r \in Regs
    <3>1. PICK n \in Msg : turn'[n].held /\ r = <<n, turn'[n].depth>>
      BY DEF Current
    <3>2. turn[n].held /\ r = Current(n)
      BY <3>1, <1>0 DEF Current
    <3> QED
      BY <3>2
  <2>2. ASSUME NEW r \in Regs PROVE r \in Regs'
    <3>1. PICK n \in Msg : turn[n].held /\ r = Current(n)
      OBVIOUS
    <3>2. turn'[n].held /\ r = Current(n)'
      BY <3>1, <1>0
    <3> QED
      BY <3>2
  <2> QED
    BY <2>1, <2>2
<1>2. \A n \in Msg : turn'[n].held => turn'[n].at \in Holding
  OBVIOUS
<1>3. Down' = Down
  BY DEF Down
<1> HIDE DEF Regs
<1>4. registry = IF Down THEN {} ELSE Regs
  BY DEF BasicInv, RegistryIsHeld, Regs
<1>5. registry' = IF Down' THEN {} ELSE Regs'
  BY <1>1, <1>3, <1>4
<1> QED
  BY <1>2, <1>5 DEF RegistryIsHeld, Regs

(* The disposer of the turn's entry is called. *)
LEMMA DisposeHeld ==
  ASSUME BasicInv, NEW m \in Msg, Dispose(m), ~turn'[m].held, OthersStay(m), UNCHANGED stop
  PROVE  RegistryIsHeld' /\ registry' \subseteq registry
<1> DEFINE Regs == {Current(n) : n \in {c \in Msg : turn[c].held}}
<1>1. turn[m].held \in BOOLEAN
  BY TurnFields DEF BasicInv
<1>2. \A n \in Msg : turn'[n].held => n # m /\ turn[n].held /\ turn'[n].at \in Holding
  BY DEF OthersStay, BasicInv, RegistryIsHeld
<1>3. Regs' = Regs \ {Current(m)}
  <2>1. ASSUME NEW r \in Regs' PROVE r \in Regs \ {Current(m)}
    <3>1. PICK n \in Msg : turn'[n].held /\ r = <<n, turn'[n].depth>>
      BY DEF Current
    <3>2. n # m /\ turn[n].held /\ r = Current(n)
      BY <3>1, <1>2 DEF OthersStay, Current
    <3> QED
      BY <3>2 DEF Current
  <2>2. ASSUME NEW r \in Regs \ {Current(m)} PROVE r \in Regs'
    <3>1. PICK n \in Msg : turn[n].held /\ r = Current(n)
      OBVIOUS
    <3>2. n # m /\ turn'[n] = turn[n]
      BY <3>1 DEF OthersStay
    <3> QED
      BY <3>1, <3>2 DEF Current
  <2> QED
    BY <2>1, <2>2
<1>4. ~turn[m].held => Current(m) \notin Regs
  BY DEF Current
<1>5. CASE turn[m].held
  BY <1>2, <1>3, <1>5 DEF Dispose, BasicInv, RegistryIsHeld, Down
<1>6. CASE ~turn[m].held
  BY <1>2, <1>3, <1>4, <1>6 DEF Dispose, BasicInv, RegistryIsHeld, Down
<1> QED
  BY <1>1, <1>5, <1>6

(* The operations the disposer leaves in the queue name its reply only. *)
LEMMA DisposeNames ==
  ASSUME Shape, NEW m \in Msg, Dispose(m)
  PROVE  /\ queue' \in Seq(Operation)
         /\ \A r \in Reply : r # Current(m) /\ Unnamed(r) => Unnamed(r)'
<1>1. turn[m].held \in BOOLEAN /\ Current(m) \in Reply
  BY TurnFields
<1>2. CASE turn[m].held
  <2>1. queue' = Append(queue, Op("remove", Current(m))) /\ Op("remove", Current(m)) \in Operation
    BY <1>1, <1>2 DEF Dispose, Operation
  <2>2. queue \in Seq(Operation)
    BY DEF Shape
  <2> QED
    BY <1>1, <2>1, <2>2, OperationAppended, OpsDistinct DEF Unnamed
<1>3. CASE ~turn[m].held
  BY <1>3 DEF Dispose, Shape, Unnamed
<1> QED
  BY <1>1, <1>2, <1>3

(* A reply that is unborn after a step of a turn was unborn before it. *)
LEMMA UnbornShrinks ==
  ASSUME Shape, NEW m \in Msg, OthersStay(m), NEW r \in Reply, Unborn(r)',
         \/ turn[m].at \in {"none", "queued"}
         \/ /\ Alive(m) /\ turn'[m].at \notin {"none", "queued"}
            /\ Alive(m)' => turn'[m].depth \in {turn[m].depth, turn[m].depth + 1}
  PROVE  Unborn(r)
<1>1. r[1] \in Msg /\ r[2] \in Nat
  BY ReplyParts
<1>2. CASE r[1] # m
  BY <1>1, <1>2 DEF Unborn, OthersStay, Alive
<1>3. CASE r[1] = m /\ turn[m].at \in {"none", "queued"}
  BY <1>3 DEF Unborn
<1>4. CASE r[1] = m /\ turn[m].at \notin {"none", "queued"}
  <2>1. Alive(m)' /\ r[2] > turn'[m].depth /\ turn'[m].depth \in {turn[m].depth, turn[m].depth + 1}
    BY <1>4 DEF Unborn
  <2>2. turn[m].depth \in Nat
    BY TurnFields
  <2>3. r[2] > turn[m].depth
    BY <1>1, <2>1, <2>2
  <2> QED
    BY <1>4, <2>1, <2>3 DEF Unborn
<1> QED
  BY <1>2, <1>3, <1>4

(* An own step of a turn that touches its current reply only. *)
LEMMA TurnMoves ==
  ASSUME BasicInv, NEW m \in Msg, OthersStay(m), Alive(m),
         turn'[m].at \notin {"none", "queued"},
         Alive(m)' => turn'[m].depth = turn[m].depth,
         turn'[m].at = "sending" => turn'[m].depth < MaxDepth,
         UNCHANGED file,
         \A r \in Reply \ {Current(m)} :
           /\ shown[r] = "absent" => shown'[r] = "absent"
           /\ flight'[r] = flight[r] /\ (Unnamed(r) => Unnamed(r)')
  PROVE  UnbornIsNowhere' /\ Depths'
<1>1. ASSUME NEW r \in Reply, Unborn(r)'
      PROVE  shown'[r] = "absent" /\ flight'[r] = <<>> /\ r \notin file' /\ Unnamed(r)'
  <2>1. Unborn(r)
    BY <1>1, UnbornShrinks DEF BasicInv
  <2>2. turn[m].depth \in Nat
    BY TurnFields DEF BasicInv
  <2>3. r # Current(m)
    <3> SUFFICES ASSUME r = <<m, turn[m].depth>> PROVE FALSE
      BY DEF Current
    <3> QED
      BY <2>1, <2>2 DEF Unborn, Alive
  <2> QED
    BY <2>1, <2>3 DEF BasicInv, UnbornIsNowhere
<1>2. UnbornIsNowhere'
  BY <1>1 DEF UnbornIsNowhere
<1>3. Depths'
  BY DEF BasicInv, Depths, OthersStay
<1> QED
  BY <1>2, <1>3

(* A message arrives. *)
LEMMA ArriveBasic ==
  ASSUME BasicInv, NEW m \in Msg, Arrive(m)
  PROVE  BasicInv'
<1>1. turn' = [turn EXCEPT ![m].at = "queued"] /\ turn[m].at = "none" /\ Shape
  BY DEF Arrive, BasicInv
<1>2. /\ turn' \in [Msg -> TurnState] /\ OthersStay(m) /\ turn'[m].at = "queued"
      /\ turn'[m].depth = turn[m].depth /\ turn'[m].held = turn[m].held /\ turn'[m].final = turn[m].final
  BY <1>1, AtSet DEF Places
<1>3. buffer' \in [Session -> Seq(Msg)]
  <2>1. SessionOf[m] \in Session /\ buffer \in [Session -> Seq(Msg)]
    BY <1>1, TurnFields DEF Shape
  <2>2. buffer' = buffer \/ buffer' = [buffer EXCEPT ![SessionOf[m]] = Append(@, m)]
    BY DEF Arrive
  <2>3. Append(buffer[SessionOf[m]], m) \in Seq(Msg)
    BY <2>1
  <2> QED
    BY <2>1, <2>2, <2>3
<1>4. Shape'
  BY <1>1, <1>2, <1>3 DEF Shape, Arrive, discord, disk, start
<1>5. ~turn[m].held
  BY <1>1 DEF BasicInv, RegistryIsHeld, Holding
<1>6. RegistryIsHeld'
  BY <1>2, <1>5, HeldStays DEF Arrive, OthersStay, BasicInv, RegistryIsHeld
<1>7. EditsAwaited'
  BY <1>1, <1>2, <1>4, MarksAwaited DEF Arrive, OthersStay, Awaiting, discord
<1>8. UnbornIsNowhere'
  BY <1>1, <1>2, UnbornShrinks DEF BasicInv, UnbornIsNowhere, Unnamed, Arrive, discord, disk
<1>9. Depths'
  BY <1>1, <1>2 DEF BasicInv, Depths, OthersStay
<1> QED
  BY <1>4, <1>6, <1>7, <1>8, <1>9 DEF BasicInv

(* A call takes its batch and sends a placeholder, or finds nothing to do. *)
LEMMA BeginBasic ==
  ASSUME BasicInv, NEW m \in Msg, Begin(m)
  PROVE  BasicInv'
<1> DEFINE s == SessionOf[m]
           batch == Batch(m)
           rest == SubSeq(buffer[s], Len(batch) + 1, Len(buffer[s]))
           place == [turn EXCEPT ![m].at = "placed", ![m].batch = batch]
<1>1. /\ turn[m].at = "queued"
      /\ UNCHANGED <<flight, registry, queue, file, runs, boot, due, orphans, stop>>
      /\ buffer' = IF m \in Reaction THEN buffer ELSE [buffer EXCEPT ![s] = rest]
      /\ \/ turn' = place /\ shown' = [shown EXCEPT ![<<m, 0>>] = "waiting"]
         \/ Over(m) /\ shown' = shown
  BY DEF Begin, disk, start
<1>2. Shape /\ s \in Session /\ buffer[s] \in Seq(Msg) /\ <<m, 0>> \in Reply
  BY TurnFields, ReplyParts DEF BasicInv, Shape, Reply
<1>3. batch \in Seq(Msg)
  <2>1. CASE m \in Reaction
    BY <2>1 DEF Batch
  <2>2. CASE m \notin Reaction /\ buffer[s] = <<>>
    BY <2>2 DEF Batch
  <2>3. CASE m \notin Reaction /\ buffer[s] # <<>>
    BY <2>3, <1>2, ChunkOfBuffer DEF Batch
  <2> QED
    BY <2>1, <2>2, <2>3
<1>4. rest \in Seq(Msg)
  <2>1. Len(batch) \in Nat /\ Len(buffer[s]) \in Nat /\ \A k \in 1..Len(buffer[s]) : buffer[s][k] \in Msg
    BY <1>2, <1>3, LenProperties, ElementOfSeq
  <2> HIDE DEF batch, s
  <2>2. \A k \in (Len(batch) + 1) .. Len(buffer[s]) : buffer[s][k] \in Msg
    BY <2>1
  <2>3. Len(batch) + 1 \in Int /\ Len(buffer[s]) \in Int
    BY <2>1
  <2> QED
    BY <2>2, <2>3, SubSeqProperties
<1>5. buffer' \in [Session -> Seq(Msg)]
  BY <1>1, <1>2, <1>4 DEF Shape
<1>6. ~turn[m].held /\ turn[m].depth = 0
  BY <1>1 DEF BasicInv, RegistryIsHeld, Holding, Depths
<1>7. /\ turn' \in [Msg -> TurnState] /\ OthersStay(m) /\ turn'[m].at \in {"placed", "over"}
      /\ turn'[m].depth = 0 /\ ~turn'[m].held
  <2>1. CASE turn' = place
    <3>1. turn[m] \in TurnState
      BY <1>2 DEF Shape
    <3> DEFINE new == [turn[m] EXCEPT !.at = "placed", !.batch = batch]
    <3>2. "placed" \in Places
      BY DEF Places
    <3> HIDE DEF batch
    <3>3. new \in TurnState /\ new.at = "placed" /\ new.depth = turn[m].depth /\ new.held = turn[m].held
      BY <3>1, <3>2, <1>3 DEF TurnState
    <3>4. turn' = [turn EXCEPT ![m] = new]
      BY <2>1
    <3> HIDE DEF new
    <3>5. turn' \in [Msg -> TurnState] /\ OthersStay(m) /\ turn'[m] = new
      BY <3>3, <3>4, <1>2 DEF Shape, OthersStay
    <3> QED
      BY <3>3, <3>5, <1>6
  <2>2. CASE Over(m)
    BY <2>2, <1>2, OverSet
  <2> QED
    BY <1>1, <2>1, <2>2
<1>8. Shape'
  <2>1. shown' \in [Reply -> Shown]
    BY <1>1, <1>2 DEF Shape, Shown
  <2> QED
    BY <2>1, <1>1, <1>2, <1>5, <1>7 DEF Shape
<1>9. RegistryIsHeld'
  <2>1. \A n \in Msg : /\ turn'[n].held = turn[n].held
                       /\ turn[n].held => turn'[n].depth = turn[n].depth /\ turn'[n].at \in Holding
    <3>1. turn'[m].held = turn[m].held
      BY <1>2, <1>6, <1>7 DEF Shape, TurnState
    <3> QED
      BY <3>1, <1>6, <1>7 DEF OthersStay, BasicInv, RegistryIsHeld
  <2> QED
    BY <2>1, <1>1, HeldStays
<1>10. EditsAwaited'
  <2>1. \A n \in Msg : turn[n].at \in Awaiting =>
             turn'[n].at = turn[n].at /\ turn'[n].depth = turn[n].depth
    BY <1>1, <1>7 DEF OthersStay, Awaiting
  <2>2. \A r \in Reply : flight'[r] = flight[r]
    BY <1>1
  <2> QED
    BY <2>1, <2>2, <1>8, MarksAwaited
<1>11. UnbornIsNowhere'
  <2>1. ASSUME NEW r \in Reply, Unborn(r)'
        PROVE  shown'[r] = "absent" /\ flight'[r] = <<>> /\ r \notin file' /\ Unnamed(r)'
    <3>1. Unborn(r)
      BY <1>1, <1>2, <1>7, <2>1, UnbornShrinks
    <3>2. r # <<m, 0>>
      BY <1>7, <2>1 DEF Unborn, Alive
    <3>3. shown'[r] = shown[r]
      BY <1>1, <1>2, <3>2 DEF Shape
    <3> QED
      BY <3>1, <3>3, <1>1 DEF BasicInv, UnbornIsNowhere, Unnamed
  <2> QED
    BY <2>1 DEF UnbornIsNowhere
<1>12. Depths'
  BY <1>7 DEF BasicInv, Depths, OthersStay
<1> QED
  BY <1>8, <1>9, <1>10, <1>11, <1>12 DEF BasicInv

(* What the steps of a turn leave alone. *)
still == <<buffer, runs, boot, due, orphans, stop, file>>

(* The edit a turn asks for keeps the shape of what is on its way. *)
LEMMA FlightAppended ==
  ASSUME Shape, NEW r \in Reply, NEW e \in Edit, flight' = [flight EXCEPT ![r] = Append(@, e)]
  PROVE  /\ flight' \in [Reply -> Seq(Edit)] /\ flight'[r] = Append(flight[r], e)
         /\ \A x \in Reply : x # r => flight'[x] = flight[x]
<1>1. flight[r] \in Seq(Edit)
  BY DEF Shape
<1>2. Append(flight[r], e) \in Seq(Edit)
  BY <1>1
<1> QED
  BY <1>2 DEF Shape

(* A turn asks for an edit; the disposer may have been called. *)
LEMMA AskBasic ==
  ASSUME BasicInv, NEW m \in Msg, NEW at \in Awaiting, NEW e \in {"text", "gone"},
         Alive(m), turn[m].at \notin Awaiting, OthersStay(m), turn' \in [Msg -> TurnState],
         turn'[m].at = at, turn'[m].depth = turn[m].depth,
         flight' = [flight EXCEPT ![Current(m)] = Append(@, e)],
         UNCHANGED <<still, shown>>, registry' \subseteq Reply,
         queue' \in Seq(Operation), \A r \in Reply : r # Current(m) /\ Unnamed(r) => Unnamed(r)'
  PROVE  Shape' /\ EditsAwaited' /\ UnbornIsNowhere' /\ Depths'
<1>1. Shape /\ Current(m) \in Reply
  BY TurnFields DEF BasicInv
<1>2. e \in Edit /\ e \in Edit \ Mark
  BY DEF Edit, Mark
<1>3. /\ flight' \in [Reply -> Seq(Edit)]
      /\ \A x \in Reply : x # Current(m) => flight'[x] = flight[x]
  BY <1>1, <1>2, FlightAppended
<1>4. Shape'
  BY <1>1, <1>3 DEF Shape, still
<1>5. EditsAwaited'
  BY <1>2, AskAwaited
<1>6. UnbornIsNowhere' /\ Depths'
  BY <1>3, TurnMoves DEF Awaiting, still
<1> QED
  BY <1>4, <1>5, <1>6

(* A turn goes on without an edit; the disposer may have been called. *)
LEMMA MoveBasic ==
  ASSUME BasicInv, NEW m \in Msg, Alive(m), turn[m].at \notin Awaiting, OthersStay(m),
         turn' \in [Msg -> TurnState],
         turn'[m].at \notin {"none", "queued"}, turn'[m].at = "sending" => turn'[m].depth < MaxDepth,
         Alive(m)' => turn'[m].depth = turn[m].depth,
         UNCHANGED <<still, flight>>, registry' \subseteq Reply, shown' \in [Reply -> Shown],
         \A r \in Reply \ {Current(m)} : shown[r] = "absent" => shown'[r] = "absent",
         queue' \in Seq(Operation), \A r \in Reply : r # Current(m) /\ Unnamed(r) => Unnamed(r)'
  PROVE  Shape' /\ EditsAwaited' /\ UnbornIsNowhere' /\ Depths'
<1>1. Shape'
  BY DEF BasicInv, Shape, still
<1>2. EditsAwaited'
  <2>1. \A n \in Msg : turn[n].at \in Awaiting =>
             turn'[n].at = turn[n].at /\ turn'[n].depth = turn[n].depth
    BY DEF OthersStay
  <2> QED
    BY <1>1, <2>1, MarksAwaited
<1>3. UnbornIsNowhere' /\ Depths'
  BY TurnMoves DEF still
<1> QED
  BY <1>1, <1>2, <1>3

(* What the queue names, when nothing is added to it. *)
LEMMA QueueKept ==
  ASSUME Shape, UNCHANGED queue
  PROVE  queue' \in Seq(Operation) /\ \A r \in Reply : Unnamed(r) => Unnamed(r)'
BY DEF Shape, Unnamed

(* A turn asks for an edit and does nothing else. *)
LEMMA AskOnly ==
  ASSUME BasicInv, NEW m \in Msg, NEW at \in Awaiting, NEW e \in {"text", "gone"},
         Alive(m), turn[m].at \notin Awaiting, Asks(m, at, e),
         UNCHANGED <<still, shown, registry, queue>>, turn[m].held => at \in Holding
  PROVE  BasicInv'
<1>1. Shape /\ registry' \subseteq Reply /\ at \in Places
  BY DEF BasicInv, Shape, Awaiting, Places
<1>2. turn' = [turn EXCEPT ![m].at = at] /\ flight' = [flight EXCEPT ![Current(m)] = Append(@, e)]
  BY DEF Asks
<1>3. /\ turn' \in [Msg -> TurnState] /\ OthersStay(m) /\ turn'[m].at = at
      /\ turn'[m].depth = turn[m].depth /\ turn'[m].held = turn[m].held
  BY <1>1, <1>2, AtSet
<1>4. RegistryIsHeld'
  BY <1>3, HeldStays DEF OthersStay, still, BasicInv, RegistryIsHeld
<1> QED
  BY <1>1, <1>2, <1>3, <1>4, AskBasic, QueueKept DEF BasicInv

(* A turn goes to another place and does nothing else. *)
LEMMA AtOnly ==
  ASSUME BasicInv, NEW m \in Msg, NEW at \in Places \ {"none", "queued", "sending"},
         Alive(m), turn[m].at \notin Awaiting, turn' = [turn EXCEPT ![m].at = at],
         UNCHANGED <<still, flight, shown, registry, queue>>, turn[m].held => at \in Holding
  PROVE  BasicInv'
<1>1. Shape /\ registry' \subseteq Reply /\ shown' \in [Reply -> Shown]
  BY DEF BasicInv, Shape
<1>3. /\ turn' \in [Msg -> TurnState] /\ OthersStay(m) /\ turn'[m].at = at
      /\ turn'[m].depth = turn[m].depth /\ turn'[m].held = turn[m].held
  BY <1>1, AtSet
<1>4. RegistryIsHeld'
  BY <1>3, HeldStays DEF OthersStay, still, BasicInv, RegistryIsHeld
<1> QED
  BY <1>1, <1>3, <1>4, MoveBasic, QueueKept DEF BasicInv

(* The answer is edited in, or left to the drain. *)
LEMMA AnswerBasic ==
  ASSUME BasicInv, NEW m \in Msg, Answer(m)
  PROVE  BasicInv'
<1>1. /\ turn[m].at = "stream" /\ Alive(m) /\ Shape /\ UNCHANGED <<still, shown, registry, queue>>
      /\ turn[m].at \notin Awaiting
  BY DEF Answer, OwnStep, disk, start, still, BasicInv, inbox, Alive, Awaiting
<1>2. registry' \subseteq Reply
  BY <1>1 DEF Shape
<1>3. CASE Down
  <2>1. turn' = [turn EXCEPT ![m].at = "answered", ![m].final = TRUE] /\ UNCHANGED flight
    BY <1>3 DEF Answer
  <2>2. /\ turn' \in [Msg -> TurnState] /\ OthersStay(m) /\ turn'[m].at = "answered"
        /\ turn'[m].depth = turn[m].depth /\ turn'[m].held = turn[m].held
    BY <1>1, <2>1, FinalSet DEF Places
  <2>3. RegistryIsHeld'
    BY <1>1, <2>2, HeldStays DEF OthersStay, still, Holding, BasicInv, RegistryIsHeld
  <2> QED
    BY <1>1, <1>2, <2>1, <2>2, <2>3, MoveBasic, QueueKept DEF BasicInv, Shape
<1>4. CASE ~Down
  <2>1. Asks(m, "editing", "text") /\ "editing" \in Awaiting \cap Holding
    BY <1>4 DEF Answer, Awaiting, Holding
  <2> QED
    BY <1>1, <2>1, AskOnly
<1> QED
  BY <1>3, <1>4

(* An empty reply is deleted. *)
LEMMA SuppressBasic ==
  ASSUME BasicInv, NEW m \in Msg, Suppress(m)
  PROVE  BasicInv'
<1>1. /\ Alive(m) /\ UNCHANGED <<still, shown, registry, queue>> /\ turn[m].at \notin Awaiting
      /\ Asks(m, "suppressing", "gone") /\ "suppressing" \in Awaiting \cap Holding
  BY DEF Suppress, OwnStep, disk, start, still, inbox, Alive, Awaiting, Holding
<1> QED
  BY <1>1, AskOnly

(* An error of the runtime, shown in a reaction's reply. *)
LEMMA RuntimeErrorBasic ==
  ASSUME BasicInv, NEW m \in Msg, RuntimeError(m)
  PROVE  BasicInv'
<1>1. /\ Alive(m) /\ UNCHANGED <<still, shown, registry, queue>> /\ turn[m].at \notin Awaiting
      /\ "reporting" \in Awaiting \cap Holding
      /\ "closing" \in Holding /\ "closing" \in Places \ {"none", "queued", "sending"}
  BY DEF RuntimeError, OwnStep, disk, start, still, inbox, Alive, Awaiting, Holding, Places
<1>2. CASE Down
  BY <1>1, <1>2, AtOnly DEF RuntimeError
<1>3. CASE ~Down
  BY <1>1, <1>3, AskOnly DEF RuntimeError
<1> QED
  BY <1>2, <1>3

(* The inner catch. *)
LEMMA ThrownBasic ==
  ASSUME BasicInv, NEW m \in Msg, Alive(m), turn[m].at \notin Awaiting, Thrown(m),
         UNCHANGED <<still, shown, registry, queue>>
  PROVE  BasicInv'
<1>1. /\ "erring" \in Awaiting \cap Holding /\ "failed" \in Holding
      /\ "failed" \in Places \ {"none", "queued", "sending"}
  BY DEF Awaiting, Holding, Places
<1>2. CASE Down
  BY <1>1, <1>2, AtOnly DEF Thrown
<1>3. CASE ~Down
  BY <1>1, <1>3, AskOnly DEF Thrown
<1> QED
  BY <1>2, <1>3

(* The runtime fails. *)
LEMMA ThrowBasic ==
  ASSUME BasicInv, NEW m \in Msg, Throw(m)
  PROVE  BasicInv'
<1>1. /\ Alive(m) /\ UNCHANGED <<still, shown, registry, queue>> /\ turn[m].at \notin Awaiting
      /\ Thrown(m)
  BY DEF Throw, OwnStep, disk, start, still, inbox, Alive, Awaiting
<1> QED
  BY <1>1, ThrownBasic

(* The outer catch of a reply that is not registered. *)
LEMMA ThrowEarlyBasic ==
  ASSUME BasicInv, NEW m \in Msg, ThrowEarly(m)
  PROVE  BasicInv'
<1>1. /\ Alive(m) /\ UNCHANGED <<still, shown, registry, queue>> /\ turn[m].at \notin Awaiting
      /\ ~turn[m].held
  BY DEF ThrowEarly, disk, start, still, inbox, Alive, Awaiting, BasicInv, RegistryIsHeld, Holding
<1>2. CASE Down
  <2>1. turn' = [turn EXCEPT ![m].at = "outcome"] /\ UNCHANGED flight
    BY <1>2 DEF ThrowEarly
  <2>2. "outcome" \in Places \ {"none", "queued", "sending"}
    BY DEF Places
  <2> QED
    BY <1>1, <2>1, <2>2, AtOnly
<1>3. CASE ~Down
  <2>1. Asks(m, "outer", "text") /\ "outer" \in Awaiting
    BY <1>3 DEF ThrowEarly, Awaiting
  <2> QED
    BY <1>1, <2>1, AskOnly
<1> QED
  BY <1>2, <1>3

(* A follow-up begins: the reply before it is settled and disposed. *)
LEMMA FollowUpBasic ==
  ASSUME BasicInv, NEW m \in Msg, FollowUp(m)
  PROVE  BasicInv'
<1>1. /\ turn[m].at = "answered" /\ Alive(m) /\ Shape /\ UNCHANGED <<still, shown, flight>>
      /\ turn[m].at \notin Awaiting /\ turn[m].depth < MaxDepth /\ Dispose(m)
      /\ turn' = [turn EXCEPT ![m].at = "sending", ![m].held = FALSE]
  BY DEF FollowUp, discord, start, still, BasicInv, inbox, Alive, Awaiting
<1>2. /\ turn' \in [Msg -> TurnState] /\ OthersStay(m) /\ turn'[m].at = "sending"
      /\ turn'[m].depth = turn[m].depth /\ ~turn'[m].held
  BY <1>1, ReleasedSet DEF Places
<1>3. RegistryIsHeld' /\ registry' \subseteq Reply
  BY <1>1, <1>2, DisposeHeld DEF still, Shape
<1>4. /\ queue' \in Seq(Operation)
      /\ \A r \in Reply : r # Current(m) /\ Unnamed(r) => Unnamed(r)'
  BY <1>1, DisposeNames
<1>5. shown' \in [Reply -> Shown]
  BY <1>1 DEF Shape
<1> QED
  BY <1>1, <1>2, <1>3, <1>4, <1>5, MoveBasic DEF BasicInv

(* The finally block disposes; the outer catch may follow. *)
LEMMA CloseBasic ==
  ASSUME BasicInv, NEW m \in Msg, Close(m)
  PROVE  BasicInv'
<1>1. /\ Alive(m) /\ Shape /\ UNCHANGED <<still, shown>>
      /\ turn[m].at \notin Awaiting /\ Dispose(m)
  BY DEF Close, start, still, BasicInv, inbox, Alive, Awaiting
<1>2. /\ queue' \in Seq(Operation)
      /\ \A r \in Reply : r # Current(m) /\ Unnamed(r) => Unnamed(r)'
  BY <1>1, DisposeNames
<1>3. shown' \in [Reply -> Shown]
  BY <1>1 DEF Shape
<1>4. ASSUME NEW at \in {"outer", "outcome"}, turn' = [turn EXCEPT ![m].at = at, ![m].held = FALSE]
      PROVE  /\ turn' \in [Msg -> TurnState] /\ OthersStay(m) /\ turn'[m].at = at
             /\ turn'[m].depth = turn[m].depth /\ ~turn'[m].held
             /\ RegistryIsHeld' /\ registry' \subseteq Reply
  <2>1. at \in Places
    BY DEF Places
  <2>2. /\ turn' \in [Msg -> TurnState] /\ OthersStay(m) /\ turn'[m].at = at
        /\ turn'[m].depth = turn[m].depth /\ ~turn'[m].held
    BY <1>1, <1>4, <2>1, ReleasedSet
  <2> QED
    BY <1>1, <2>2, DisposeHeld DEF still, Shape
<1>5. CASE /\ turn' = [turn EXCEPT ![m].at = "outer", ![m].held = FALSE]
           /\ flight' = [flight EXCEPT ![Current(m)] = Append(@, "text")]
  <2>1. "outer" \in Awaiting
    BY DEF Awaiting
  <2> QED
    BY <1>1, <1>2, <1>4, <1>5, <2>1, AskBasic DEF BasicInv
<1>6. CASE turn' = [turn EXCEPT ![m].at = "outcome", ![m].held = FALSE] /\ UNCHANGED flight
  BY <1>1, <1>2, <1>3, <1>4, <1>6, MoveBasic DEF BasicInv
<1> QED
  BY <1>5, <1>6 DEF Close

(* The reply is registered, or marked at once after the drain. *)
LEMMA RegisterBasic ==
  ASSUME BasicInv, NEW m \in Msg, Register(m)
  PROVE  BasicInv'
<1> DEFINE r == Current(m)
           t == [turn[m] EXCEPT !.at = "stream", !.final = FALSE, !.held = ~Down]
<1>1. /\ Alive(m) /\ Shape /\ UNCHANGED <<buffer, shown, boot, due, orphans, stop, file>>
      /\ turn[m].at \notin Awaiting /\ ~turn[m].held /\ turn[m].at \in {"placed", "sent"}
  BY DEF Register, start, BasicInv, RegistryIsHeld, inbox, Alive, Awaiting, Holding
<1>2. r \in Reply /\ turn[m] \in TurnState /\ turn[m].depth \in Nat
  BY <1>1, TurnFields DEF Shape
<1>3. turn' = [turn EXCEPT ![m] = t]
  BY DEF Register
<1>4. t \in TurnState /\ t.at = "stream" /\ t.depth = turn[m].depth /\ t.held = ~Down
  BY <1>2 DEF TurnState, Places, Down
<1> HIDE DEF t
<1>5. /\ turn' \in [Msg -> TurnState] /\ OthersStay(m) /\ turn'[m].at = "stream"
      /\ turn'[m].depth = turn[m].depth /\ turn'[m].held = ~Down
  BY <1>1, <1>3, <1>4 DEF Shape, OthersStay
<1>6. runs' \in [Msg -> {"none", "running", "done", "interrupted", "posted"}]
  BY <1>1 DEF Register, Shape
<1>7. CASE Down
  <2>1. flight' = [flight EXCEPT ![r] = Append(@, "restarting")] /\ UNCHANGED <<registry, queue>>
    BY <1>7 DEF Register
  <2>2. "restarting" \in Edit /\ "restarting" \in Mark
    BY DEF Edit, Mark
  <2>3. /\ flight' \in [Reply -> Seq(Edit)] /\ flight'[r] = Append(flight[r], "restarting")
        /\ \A x \in Reply : x # r => flight'[x] = flight[x]
    BY <1>1, <1>2, <2>1, <2>2, FlightAppended
  <2>4. Shape'
    BY <1>1, <1>5, <1>6, <2>1, <2>3 DEF Shape
  <2>5. EditsAwaited'
    <3>1. \A n \in Msg : turn[n].at \in Awaiting =>
               turn'[n].at = turn[n].at /\ turn'[n].depth = turn[n].depth
      BY <1>1, <1>5 DEF OthersStay
    <3>2. \A x \in Reply : flight'[x] = flight[x] \/ \E mark \in Mark : flight'[x] = Append(flight[x], mark)
      BY <2>2, <2>3
    <3> QED
      BY <2>4, <3>1, <3>2, MarksAwaited
  <2>6. RegistryIsHeld'
    <3>1. ~turn'[m].held
      BY <1>5, <1>7
    <3>2. turn'[m].held = turn[m].held
      BY <1>1, <1>2, <1>5, <1>7 DEF TurnState
    <3> QED
      BY <1>1, <1>5, <2>1, <3>1, <3>2, HeldStays DEF OthersStay, BasicInv, RegistryIsHeld
  <2>7. UnbornIsNowhere' /\ Depths'
    BY <1>1, <1>5, <2>1, <2>3, TurnMoves, QueueKept
  <2> QED
    BY <2>4, <2>5, <2>6, <2>7 DEF BasicInv
<1>8. CASE ~Down
  <2>1. registry' = registry \cup {r} /\ queue' = Append(queue, Op("add", r)) /\ UNCHANGED flight
    BY <1>8 DEF Register
  <2>2. Op("add", r) \in Operation /\ queue \in Seq(Operation)
    BY <1>1, <1>2 DEF Operation, Shape
  <2>3. queue' \in Seq(Operation) /\ \A x \in Reply : x # r /\ Unnamed(x) => Unnamed(x)'
    BY <1>2, <2>1, <2>2, OperationAppended, OpsDistinct DEF Unnamed
  <2>4. registry' \subseteq Reply
    BY <1>1, <1>2, <2>1 DEF Shape
  <2>5. Shape'
    BY <1>1, <1>5, <1>6, <2>1, <2>3, <2>4 DEF Shape
  <2>6. EditsAwaited'
    <3>1. \A n \in Msg : turn[n].at \in Awaiting =>
               turn'[n].at = turn[n].at /\ turn'[n].depth = turn[n].depth
      BY <1>1, <1>5 DEF OthersStay
    <3> QED
      BY <2>1, <2>5, <3>1, MarksAwaited
  <2>7. UnbornIsNowhere' /\ Depths'
    BY <1>1, <1>5, <2>1, <2>3, TurnMoves
  <2>8. RegistryIsHeld'
    <3> DEFINE Regs == {Current(n) : n \in {c \in Msg : turn[c].held}}
    <3>1. turn'[m].held /\ Current(m)' = r
      BY <1>5, <1>8 DEF Current
    <3>2. \A n \in Msg : n # m => (turn'[n].held <=> turn[n].held) /\ Current(n)' = Current(n)
      BY <1>5 DEF OthersStay, Current
    <3>3. Regs' = Regs \cup {r}
      <4>1. ASSUME NEW x \in Regs' PROVE x \in Regs \cup {r}
        <5>1. PICK n \in Msg : turn'[n].held /\ x = Current(n)'
          OBVIOUS
        <5>2. CASE n = m
          BY <3>1, <5>1, <5>2
        <5>3. CASE n # m
          <6>1. turn[n].held /\ x = Current(n)
            BY <3>2, <5>1, <5>3
          <6> QED
            BY <6>1
        <5> QED
          BY <5>2, <5>3
      <4>2. ASSUME NEW x \in Regs PROVE x \in Regs'
        <5>1. PICK n \in Msg : turn[n].held /\ x = Current(n)
          OBVIOUS
        <5>2. n # m
          BY <1>1, <5>1
        <5>3. turn'[n].held /\ x = Current(n)'
          BY <3>2, <5>1, <5>2
        <5> QED
          BY <5>3
      <4>3. r \in Regs'
        BY <3>1
      <4> QED
        BY <4>1, <4>2, <4>3
    <3>4. ~Down'
      BY <1>1, <1>8 DEF Down
    <3>5. \A n \in Msg : turn'[n].held => turn'[n].at \in Holding
      BY <1>5 DEF OthersStay, BasicInv, RegistryIsHeld, Holding
    <3> HIDE DEF Regs
    <3>6. registry = Regs
      BY <1>8 DEF BasicInv, RegistryIsHeld, Regs
    <3>7. registry' = Regs'
      BY <2>1, <3>3, <3>6
    <3> QED
      BY <3>4, <3>5, <3>7 DEF RegistryIsHeld, Regs
  <2> QED
    BY <2>5, <2>6, <2>7, <2>8 DEF BasicInv
<1> QED
  BY <1>7, <1>8

(* The placeholder of a follow-up is sent, or cannot be sent. *)
LEMMA SendBasic ==
  ASSUME BasicInv, NEW m \in Msg, Send(m)
  PROVE  BasicInv'
<1> DEFINE next == <<m, turn[m].depth + 1>>
           t == [turn[m] EXCEPT !.at = "sent", !.depth = @ + 1]
<1>1. /\ turn[m].at = "sending" /\ Alive(m) /\ Shape /\ UNCHANGED <<still, registry, queue>>
      /\ turn[m].at \notin Awaiting /\ ~turn[m].held
  BY DEF Send, start, still, disk, BasicInv, RegistryIsHeld, inbox, Alive, Awaiting, Holding
<1>2. turn[m] \in TurnState /\ turn[m].depth \in Nat /\ turn[m].depth < MaxDepth
  BY <1>1, TurnFields DEF Shape, BasicInv, Depths
<1>3. CASE Thrown(m) /\ UNCHANGED shown
  BY <1>1, <1>3, ThrownBasic
<1>4. CASE /\ turn' = [turn EXCEPT ![m].at = "sent", ![m].depth = @ + 1]
           /\ shown' = [shown EXCEPT ![next] = "waiting"] /\ UNCHANGED flight
  <2>1. turn' = [turn EXCEPT ![m] = t]
    BY <1>4
  <2>2. t \in TurnState /\ t.at = "sent" /\ t.depth = turn[m].depth + 1 /\ t.held = turn[m].held
    <3>1. turn[m].depth + 1 \in 0..MaxDepth /\ "sent" \in Places
      BY <1>2, BoundsAssumption DEF Places
    <3> QED
      BY <1>2, <3>1 DEF TurnState
  <2> HIDE DEF t
  <2>3. /\ turn' \in [Msg -> TurnState] /\ OthersStay(m) /\ turn'[m].at = "sent"
        /\ turn'[m].depth = turn[m].depth + 1 /\ turn'[m].held = turn[m].held
    BY <1>1, <2>1, <2>2 DEF Shape, OthersStay
  <2>4. next \in Reply
    BY <1>2, BoundsAssumption DEF Reply
  <2>5. shown' \in [Reply -> Shown] /\ \A x \in Reply : x # next => shown'[x] = shown[x]
    BY <1>1, <1>4, <2>4 DEF Shape, Shown
  <2>6. Shape'
    BY <1>1, <1>4, <2>3, <2>5 DEF Shape, still
  <2>7. EditsAwaited'
    <3>1. \A n \in Msg : turn[n].at \in Awaiting =>
               turn'[n].at = turn[n].at /\ turn'[n].depth = turn[n].depth
      BY <1>1, <2>3 DEF OthersStay
    <3> QED
      BY <1>4, <2>6, <3>1, MarksAwaited
  <2>8. RegistryIsHeld'
    BY <1>1, <2>3, HeldStays DEF OthersStay, still, BasicInv, RegistryIsHeld
  <2>9. UnbornIsNowhere'
    <3>1. ASSUME NEW r \in Reply, Unborn(r)'
          PROVE  shown'[r] = "absent" /\ flight'[r] = <<>> /\ r \notin file' /\ Unnamed(r)'
      <4>1. Unborn(r)
        BY <1>1, <2>3, <3>1, UnbornShrinks
      <4>2. r # next
        <5> SUFFICES ASSUME r = next PROVE FALSE
          OBVIOUS
        <5>1. r[1] = m /\ r[2] = turn[m].depth + 1
          OBVIOUS
        <5> QED
          BY <1>2, <2>3, <3>1, <5>1 DEF Unborn
      <4> QED
        BY <1>1, <1>4, <2>5, <4>1, <4>2 DEF BasicInv, UnbornIsNowhere, Unnamed, still
    <3> QED
      BY <3>1 DEF UnbornIsNowhere
  <2>10. Depths'
    BY <2>3 DEF BasicInv, Depths, OthersStay
  <2> QED
    BY <2>6, <2>7, <2>8, <2>9, <2>10 DEF BasicInv
<1> QED
  BY <1>3, <1>4 DEF Send

(* What a settled reply says is forgotten; a placeholder stays a placeholder. *)
LEMMA SettledShown ==
  ASSUME Shape, NEW S
  PROVE  /\ Settled(S) \in [Reply -> Shown]
         /\ \A r \in Reply : /\ shown[r] \in {"absent", "waiting"} => Settled(S)[r] = shown[r]
                             /\ Settled(S)[r] = shown[r] \/ Settled(S)[r] = "gone"
                             /\ Settled(S)[r] = "waiting" => shown[r] = "waiting"
BY DEF Settled, Shape, Shown, Edit

(* The turn is over. *)
LEMMA CompleteBasic ==
  ASSUME BasicInv, NEW m \in Msg, Complete(m)
  PROVE  BasicInv'
<1>1. /\ Alive(m) /\ Shape
      /\ UNCHANGED <<buffer, boot, due, orphans, stop, file, flight, queue, registry>>
      /\ turn[m].at \notin Awaiting /\ Over(m) /\ ~turn[m].held
  BY DEF Complete, start, disk, BasicInv, RegistryIsHeld, Alive, Awaiting, Holding
<1>2. /\ turn' \in [Msg -> TurnState] /\ OthersStay(m) /\ turn'[m].at = "over"
      /\ turn'[m].depth = 0 /\ ~turn'[m].held
  BY <1>1, OverSet
<1>3. /\ shown' \in [Reply -> Shown]
      /\ \A r \in Reply : shown[r] = "absent" => shown'[r] = "absent"
  BY <1>1, SettledShown DEF Complete
<1>4. runs' \in [Msg -> {"none", "running", "done", "interrupted", "posted"}]
  BY <1>1 DEF Complete, Shape
<1>5. Shape'
  BY <1>1, <1>2, <1>3, <1>4 DEF Shape
<1>6. EditsAwaited'
  <2>1. \A n \in Msg : turn[n].at \in Awaiting =>
             turn'[n].at = turn[n].at /\ turn'[n].depth = turn[n].depth
    BY <1>1, <1>2 DEF OthersStay
  <2> QED
    BY <1>1, <1>5, <2>1, MarksAwaited
<1>7. RegistryIsHeld'
  <2>1. turn'[m].held = turn[m].held
    BY <1>1, <1>2, <1>5 DEF Shape, TurnState
  <2> QED
    BY <1>1, <1>2, <2>1, HeldStays DEF OthersStay, BasicInv, RegistryIsHeld
<1>8. UnbornIsNowhere' /\ Depths'
  BY <1>1, <1>2, <1>3, TurnMoves, QueueKept DEF Alive
<1> QED
  BY <1>5, <1>6, <1>7, <1>8 DEF BasicInv

(* What a turn does when its edit has settled. *)
LEMMA AfterPlaces ==
  ASSUME NEW m \in Msg, turn[m].at \in Awaiting, NEW ok \in BOOLEAN
  PROVE  /\ After(m, ok) \in Places \ {"none", "queued", "sending", "over", "dead"}
         /\ turn[m].at \in Holding => After(m, ok) \in Holding
         /\ turn[m].at = "outer" => After(m, ok) = "outcome"
         /\ \/ Says(After(m, ok)) = <<>>
            \/ After(m, ok) \in Awaiting /\ \E e \in {"text", "gone"} : Says(After(m, ok)) = <<e>>
         /\ Down => Says(After(m, ok)) = <<>>
<1>1. /\ After(m, ok) \in Places \ {"none", "queued", "sending", "over", "dead"}
      /\ turn[m].at \in Holding => After(m, ok) \in Holding
      /\ turn[m].at = "outer" => After(m, ok) = "outcome"
  BY DEF After, Awaiting, Holding, Places
<1>2. Down => After(m, ok) \notin {"erring", "deleting", "discarding"}
  BY DEF After, Awaiting
<1>3. CASE After(m, ok) = "erring"
  <2>1. Says(After(m, ok)) = <<"text">>
    BY <1>3 DEF Says
  <2> QED
    BY <1>1, <1>2, <1>3, <2>1 DEF Awaiting
<1>4. CASE After(m, ok) \in {"deleting", "discarding"}
  <2>1. Says(After(m, ok)) = <<"gone">>
    BY <1>4 DEF Says
  <2> QED
    BY <1>1, <1>2, <1>4, <2>1 DEF Awaiting
<1>5. CASE After(m, ok) \notin {"erring", "deleting", "discarding"}
  BY <1>1, <1>5 DEF Says
<1> QED
  BY <1>3, <1>4, <1>5

(* An edit settles, and its turn goes on; marks are awaited by no turn. *)
DeliverOwn(r, ok) ==
  LET m == r[1] IN
  /\ turn' = [turn EXCEPT ![m].at = After(m, ok), ![m].final = @ \/ ok]
  /\ flight' = [flight EXCEPT ![r] = Tail(@) \o Says(After(m, ok))]

DeliverMark(r) == UNCHANGED turn /\ flight' = [flight EXCEPT ![r] = Tail(@) \o <<>>]

(* The two cases of a delivery: a mark, or the edit a turn awaits. *)
LEMMA DeliverCases ==
  ASSUME BasicInv, NEW r \in Reply, Deliver(r)
  PROVE  /\ flight[r] # <<>> /\ flight[r] \in Seq(Edit)
         /\ UNCHANGED <<still, registry, queue, unlisted>>
         /\ \E ok \in BOOLEAN :
              /\ ok => shown[r] # "gone"
              /\ shown' = IF ok THEN [shown EXCEPT ![r] = flight[r][1]] ELSE shown
              /\ IF flight[r][1] \in Mark
                 THEN /\ DeliverMark(r)
                      /\ lost' = IF ok THEN lost \ {r} ELSE lost \cup {r}
                 ELSE /\ DeliverOwn(r, ok) /\ turn[r[1]].at \in Awaiting /\ r = Current(r[1])
                      /\ lost' = IF ok THEN lost \ {r}
                                 ELSE IF turn[r[1]].at \in {"reporting", "suppressing", "discarding",
                                                             "deleting", "outer"}
                                 THEN lost \cup {r} ELSE lost
<1>1. flight[r] \in Seq(Edit) /\ flight[r] # <<>>
  BY DEF Deliver, BasicInv, Shape
<1>2. Head(flight[r]) = flight[r][1] /\ Len(flight[r]) \in Nat /\ Len(flight[r]) >= 1
  BY <1>1, EditTaken
<1>3. flight[r][1] \notin Mark => turn[r[1]].at \in Awaiting /\ r = Current(r[1])
  BY <1>2 DEF BasicInv, EditsAwaited, Own
<1>4. UNCHANGED <<still, registry, queue, unlisted>>
  BY DEF Deliver, still, inbox, disk, start
<1>5. CASE flight[r][1] \in Mark
  BY <1>1, <1>2, <1>4, <1>5 DEF Deliver, DeliverMark
<1>6. CASE flight[r][1] \notin Mark
  BY <1>1, <1>2, <1>3, <1>4, <1>6 DEF Deliver, DeliverOwn
<1> QED
  BY <1>5, <1>6

(* What is on its way after a delivery: the rest, and what the turn asks next. *)
LEMMA FlightDelivered ==
  ASSUME Shape, NEW r \in Reply, flight[r] # <<>>, NEW says,
         \/ says = <<>>
         \/ \E e \in {"text", "gone"} : says = <<e>>,
         flight' = [flight EXCEPT ![r] = Tail(@) \o says]
  PROVE  /\ flight' \in [Reply -> Seq(Edit)]
         /\ \A x \in Reply : x # r => flight'[x] = flight[x]
         /\ Len(flight[r]) \in Nat /\ Len(flight[r]) >= 1
         /\ says = <<>> => Len(flight'[r]) = Len(flight[r]) - 1
         /\ says # <<>> => Len(flight'[r]) = Len(flight[r]) /\ flight'[r][Len(flight[r])] \notin Mark
         /\ \A k \in 1..(Len(flight[r]) - 1) :
              flight'[r][k] = flight[r][k + 1] /\ k + 1 \in 1..Len(flight[r])
<1> DEFINE rest == Tail(flight[r])
<1>1. flight[r] \in Seq(Edit)
  BY DEF Shape
<1>2. /\ rest \in Seq(Edit) /\ Len(rest) = Len(flight[r]) - 1
      /\ Len(flight[r]) \in Nat /\ Len(flight[r]) >= 1
      /\ \A k \in 1..Len(rest) : rest[k] = flight[r][k + 1] /\ k + 1 \in 1..Len(flight[r])
  BY <1>1, EditTaken
<1> HIDE DEF rest
<1>3. CASE says = <<>>
  <2>1. rest \o says = rest
    BY <1>2, <1>3, ConcatEmptySeq
  <2>2. flight' \in [Reply -> Seq(Edit)] /\ flight'[r] = rest /\ \A x \in Reply : x # r => flight'[x] = flight[x]
    BY <1>2, <2>1 DEF Shape, rest
  <2> QED
    BY <1>2, <1>3, <2>2
<1>4. ASSUME NEW e \in {"text", "gone"}, says = <<e>>
      PROVE  /\ flight' \in [Reply -> Seq(Edit)]
             /\ \A x \in Reply : x # r => flight'[x] = flight[x]
             /\ Len(flight'[r]) = Len(flight[r]) /\ flight'[r][Len(flight[r])] \notin Mark
             /\ \A k \in 1..(Len(flight[r]) - 1) : flight'[r][k] = flight[r][k + 1]
  <2>1. e \in Edit /\ e \notin Mark /\ <<e>> \in Seq(Edit) /\ Len(<<e>>) = 1 /\ <<e>>[1] = e
    BY DEF Edit, Mark
  <2>2. rest \o <<e>> = Append(rest, e)
    BY <1>2, <2>1, AppendIsConcat
  <2>3. /\ Append(rest, e) \in Seq(Edit) /\ Len(Append(rest, e)) = Len(rest) + 1
        /\ Append(rest, e)[Len(rest) + 1] = e
        /\ \A k \in 1..Len(rest) : Append(rest, e)[k] = rest[k]
    BY <1>2, <2>1, EditAppended
  <2>4. /\ flight' \in [Reply -> Seq(Edit)] /\ flight'[r] = Append(rest, e)
        /\ \A x \in Reply : x # r => flight'[x] = flight[x]
    BY <1>4, <2>2, <2>3 DEF Shape, rest
  <2> QED
    BY <1>2, <2>1, <2>3, <2>4
<1> QED
  BY <1>2, <1>3, <1>4

(* Discord applies or refuses an edit. *)
LEMMA DeliverBasic ==
  ASSUME BasicInv, NEW r \in Reply, Deliver(r)
  PROVE  BasicInv'
<1> DEFINE m == r[1]
<1>0. Shape /\ m \in Msg
  BY ReplyParts DEF BasicInv
<1>1. PICK ok \in BOOLEAN :
        /\ ok => shown[r] # "gone"
        /\ shown' = IF ok THEN [shown EXCEPT ![r] = flight[r][1]] ELSE shown
        /\ IF flight[r][1] \in Mark
           THEN DeliverMark(r)
           ELSE DeliverOwn(r, ok) /\ turn[m].at \in Awaiting /\ r = Current(m)
  BY DeliverCases
<1>2. flight[r] # <<>> /\ flight[r] \in Seq(Edit) /\ UNCHANGED <<still, registry, queue>>
  BY DeliverCases
<1>3. flight[r][1] \in Edit
  BY <1>2, EditTaken
<1>4. shown' \in [Reply -> Shown] /\ \A x \in Reply : x # r => shown'[x] = shown[x]
  BY <1>0, <1>1, <1>3 DEF Shape, Shown
<1>5. ~Unborn(r)
  BY <1>2 DEF BasicInv, UnbornIsNowhere
<1>6. CASE flight[r][1] \in Mark
  <2>1. UNCHANGED turn /\ flight' = [flight EXCEPT ![r] = Tail(@) \o <<>>]
    BY <1>1, <1>6 DEF DeliverMark
  <2>2. /\ flight' \in [Reply -> Seq(Edit)]
        /\ \A x \in Reply : x # r => flight'[x] = flight[x]
        /\ Len(flight[r]) \in Nat /\ Len(flight'[r]) = Len(flight[r]) - 1
        /\ \A k \in 1..(Len(flight[r]) - 1) :
             flight'[r][k] = flight[r][k + 1] /\ k + 1 \in 1..Len(flight[r])
    BY <1>0, <1>2, <2>1, FlightDelivered
  <2>3. Shape'
    BY <1>0, <1>2, <1>4, <2>1, <2>2 DEF Shape, still
  <2>4. RegistryIsHeld'
    BY <1>2, <2>1, HeldStays DEF still, BasicInv, RegistryIsHeld
  <2>5. EditsAwaited'
    <3>1. ASSUME NEW x \in Reply, NEW k \in 1..Len(flight'[x]), flight'[x][k] \notin Mark
          PROVE  /\ turn[x[1]].at \in Awaiting /\ x = Current(x[1])
                 /\ \A l \in 1..Len(flight'[x]) : flight'[x][l] \notin Mark => l = k
      <4>1. CASE x # r
        BY <2>2, <3>1, <4>1 DEF BasicInv, EditsAwaited, Own
      <4>2. CASE x = r
        <5>1. k + 1 \in 1..Len(flight[r]) /\ flight[r][k + 1] \notin Mark /\ k \in Nat
          BY <2>2, <3>1, <4>2
        <5>2. /\ turn[r[1]].at \in Awaiting /\ r = Current(r[1])
              /\ \A l \in 1..Len(flight[r]) : flight[r][l] \notin Mark => l = k + 1
          BY <5>1 DEF BasicInv, EditsAwaited, Own
        <5>3. ASSUME NEW l \in 1..Len(flight'[r]), flight'[r][l] \notin Mark PROVE l = k
          <6>1. l + 1 \in 1..Len(flight[r]) /\ flight[r][l + 1] \notin Mark /\ l \in Nat
            BY <2>2, <5>3
          <6> QED
            BY <5>1, <5>2, <6>1
        <5> QED
          BY <4>2, <5>2, <5>3
      <4> QED
        BY <4>1, <4>2
    <3> QED
      BY <2>1, <3>1 DEF EditsAwaited, Own, Current
  <2>6. UnbornIsNowhere'
    BY <1>2, <1>4, <1>5, <2>1, <2>2 DEF BasicInv, UnbornIsNowhere, Unborn, Unnamed, Alive, still
  <2>7. Depths'
    BY <2>1 DEF BasicInv, Depths
  <2> QED
    BY <2>3, <2>4, <2>5, <2>6, <2>7 DEF BasicInv
<1>7. CASE flight[r][1] \notin Mark
  <2> DEFINE after == After(m, ok)
  <2>1. /\ turn' = [turn EXCEPT ![m].at = after, ![m].final = @ \/ ok]
        /\ flight' = [flight EXCEPT ![r] = Tail(@) \o Says(after)]
        /\ turn[m].at \in Awaiting /\ r = Current(m)
    BY <1>1, <1>7 DEF DeliverOwn
  <2>2. /\ after \in Places \ {"none", "queued", "sending", "over", "dead"}
        /\ turn[m].at \in Holding => after \in Holding
        /\ \/ Says(after) = <<>>
           \/ after \in Awaiting /\ \E e \in {"text", "gone"} : Says(after) = <<e>>
    BY <1>0, <2>1, AfterPlaces
  <2> HIDE DEF after
  <2>3. /\ turn' \in [Msg -> TurnState] /\ OthersStay(m) /\ turn'[m].at = after
        /\ turn'[m].depth = turn[m].depth /\ turn'[m].held = turn[m].held
    <3>1. turn[m].final \in BOOLEAN
      BY <1>0, TurnFields
    <3>2. turn' = [turn EXCEPT ![m].at = after, ![m].final = turn[m].final \/ ok]
      BY <2>1
    <3> QED
      BY <1>0, <2>2, <3>1, <3>2, FinalSet
  <2>4. /\ flight' \in [Reply -> Seq(Edit)]
        /\ \A x \in Reply : x # r => flight'[x] = flight[x]
        /\ Len(flight[r]) \in Nat /\ Len(flight[r]) >= 1
        /\ Says(after) = <<>> => Len(flight'[r]) = Len(flight[r]) - 1
        /\ Says(after) # <<>> => Len(flight'[r]) = Len(flight[r]) /\ flight'[r][Len(flight[r])] \notin Mark
        /\ \A k \in 1..(Len(flight[r]) - 1) :
             flight'[r][k] = flight[r][k + 1] /\ k + 1 \in 1..Len(flight[r])
    BY <1>0, <1>2, <2>1, <2>2, FlightDelivered
  <2>5. Shape'
    BY <1>0, <1>2, <1>4, <2>3, <2>4 DEF Shape, still
  <2>6. RegistryIsHeld'
    BY <1>2, <2>2, <2>3, HeldStays DEF OthersStay, still, BasicInv, RegistryIsHeld
  <2>7. EditsAwaited'
    <3>1. \A l \in 1..Len(flight[r]) : flight[r][l] \notin Mark => l = 1
      BY <1>7, <2>4 DEF BasicInv, EditsAwaited, Own
    <3>2. ASSUME NEW k \in 1..Len(flight'[r]), flight'[r][k] \notin Mark
          PROVE  k = Len(flight[r]) /\ Says(after) # <<>>
      <4>1. CASE k \in 1..(Len(flight[r]) - 1)
        <5>1. flight[r][k + 1] \notin Mark /\ k + 1 \in 1..Len(flight[r]) /\ k \in Nat /\ k >= 1
          BY <2>4, <3>2, <4>1
        <5>2. k + 1 = 1
          BY <3>1, <5>1
        <5> QED
          BY <5>1, <5>2
      <4>2. CASE k \notin 1..(Len(flight[r]) - 1)
        BY <2>4, <3>2, <4>2
      <4> QED
        BY <4>1, <4>2
    <3>3. ASSUME NEW x \in Reply, NEW k \in 1..Len(flight'[x]), flight'[x][k] \notin Mark
          PROVE  /\ turn'[x[1]].at \in Awaiting /\ x = <<x[1], turn'[x[1]].depth>>
                 /\ \A l \in 1..Len(flight'[x]) : flight'[x][l] \notin Mark => l = k
      <4>1. CASE x # r
        <5>1. /\ turn[x[1]].at \in Awaiting /\ x = Current(x[1])
              /\ \A l \in 1..Len(flight'[x]) : flight'[x][l] \notin Mark => l = k
          BY <2>4, <3>3, <4>1 DEF BasicInv, EditsAwaited, Own
        <5>2. x[1] # m /\ x[1] \in Msg
          BY <2>1, <4>1, <5>1, ReplyParts
        <5> QED
          BY <2>3, <5>1, <5>2 DEF OthersStay, Current
      <4>2. CASE x = r
        <5>1. after \in Awaiting
          BY <2>2, <3>2, <3>3, <4>2
        <5>2. x = <<m, turn[m].depth>>
          BY <2>1, <4>2 DEF Current
        <5> QED
          BY <2>3, <3>2, <3>3, <4>2, <5>1, <5>2
      <4> QED
        BY <4>1, <4>2
    <3> QED
      BY <3>3 DEF EditsAwaited, Own, Current
  <2>8. UnbornIsNowhere' /\ Depths'
    <3>1. Alive(m)
      BY <2>1 DEF Alive, Awaiting
    <3>2. \A x \in Reply \ {Current(m)} :
           /\ shown[x] = "absent" => shown'[x] = "absent"
           /\ flight'[x] = flight[x] /\ (Unnamed(x) => Unnamed(x)')
      BY <1>0, <1>2, <1>4, <2>1, <2>4, QueueKept
    <3> QED
      BY <1>0, <1>2, <2>2, <2>3, <3>1, <3>2, TurnMoves DEF still
  <2> QED
    BY <2>5, <2>6, <2>7, <2>8 DEF BasicInv
<1> QED
  BY <1>6, <1>7

(* A step outside the turns: marks may be added to replies that are born.    *)
LEMMA QuietBasic ==
  ASSUME BasicInv, Shape', RegistryIsHeld', UNCHANGED <<turn, shown>>,
         \A r \in Reply : \/ flight'[r] = flight[r]
                          \/ \E mark \in Mark : flight'[r] = Append(flight[r], mark),
         \A r \in Reply : Unborn(r) => flight'[r] = flight[r] /\ r \notin file' /\ Unnamed(r)'
  PROVE  BasicInv'
<1>1. EditsAwaited'
  BY MarksAwaited
<1>2. \A r \in Reply : Unborn(r)' => Unborn(r)
  BY DEF Unborn, Alive
<1>3. UnbornIsNowhere'
  BY <1>2 DEF BasicInv, UnbornIsNowhere
<1>4. Depths'
  BY DEF BasicInv, Depths
<1> QED
  BY <1>1, <1>3, <1>4 DEF BasicInv

(* The registry when neither the turns nor the flag change. *)
LEMMA RegistryKept ==
  ASSUME BasicInv, UNCHANGED <<turn, registry>>, Down' = Down
  PROVE  RegistryIsHeld'
BY DEF BasicInv, RegistryIsHeld, Current

(* What is marked gets the mark behind the edits on their way. *)
LEMMA MarkedFlight ==
  ASSUME Shape, NEW S, NEW mark \in Mark, flight' = Marked(S, mark)
  PROVE  /\ flight' \in [Reply -> Seq(Edit)]
         /\ \A r \in Reply : flight'[r] = IF r \in S THEN Append(flight[r], mark) ELSE flight[r]
<1>1. mark \in Edit
  BY DEF Edit
<1>2. \A r \in Reply : flight[r] \in Seq(Edit) /\ Append(flight[r], mark) \in Seq(Edit)
  BY <1>1, EditAppended DEF Shape
<1> QED
  BY <1>2 DEF Marked

(* A registered reply is the current one of a turn that holds its disposer. *)
LEMMA RegisteredHeld ==
  ASSUME BasicInv, NEW r \in registry
  PROVE  /\ r \in Reply /\ r[1] \in Msg /\ r = Current(r[1]) /\ ~Down
         /\ turn[r[1]].held /\ turn[r[1]].at \in Holding /\ ~Unborn(r)
<1>1. ~Down /\ r \in Reply /\ \E m \in Msg : turn[m].held /\ r = Current(m)
  BY DEF BasicInv, RegistryIsHeld, Shape
<1>2. PICK m \in Msg : turn[m].held /\ r = Current(m)
  BY <1>1
<1>3. r[1] = m /\ r[2] = turn[m].depth /\ turn[m].depth \in Nat /\ turn[m].at \in Holding
  BY <1>2, TurnFields DEF Current, BasicInv, RegistryIsHeld
<1> QED
  BY <1>1, <1>2, <1>3 DEF Unborn, Holding

(* One operation of the file is done. *)
LEMMA OperationDone ==
  ASSUME BasicInv, queue # <<>>, queue' = Tail(queue), file' = Result(Head(queue))
  PROVE  /\ file' \subseteq Reply /\ queue' \in Seq(Operation)
         /\ \A r \in Reply : Unnamed(r) => Unnamed(r)' /\ (r \in file' => r \in file)
<1>1. /\ Shape /\ queue \in Seq(Operation) /\ Head(queue) = queue[1] /\ Head(queue) \in Operation
      /\ queue' \in Seq(Operation) /\ Len(queue) \in Nat /\ Len(queue) >= 1
      /\ \A k \in 1..Len(queue') : queue'[k] = queue[k + 1] /\ k + 1 \in 1..Len(queue)
  BY OperationTaken DEF BasicInv, Shape
<1>2. file' \subseteq Reply /\ \A r \in Reply : r \in file' => r \in file \/ queue[1] = Op("add", r)
  BY <1>1, ResultOfReplies
<1>3. 1 \in 1..Len(queue)
  BY <1>1
<1> QED
  BY <1>1, <1>2, <1>3 DEF Unnamed

(* An operation of the file is done. *)
LEMMA PersistBasic ==
  ASSUME BasicInv, Persist
  PROVE  BasicInv'
<1>1. /\ file' \subseteq Reply /\ queue' \in Seq(Operation)
      /\ \A r \in Reply : Unborn(r) => r \notin file' /\ Unnamed(r)'
  BY OperationDone DEF Persist, BasicInv, UnbornIsNowhere
<1>2. UNCHANGED <<buffer, turn, shown, flight, registry, runs, boot, due, orphans, stop>>
  BY DEF Persist, inbox, discord, start
<1>3. Shape'
  BY <1>1, <1>2 DEF BasicInv, Shape
<1>4. RegistryIsHeld'
  BY <1>2, RegistryKept DEF Down
<1> QED
  BY <1>1, <1>2, <1>3, <1>4, QuietBasic

(* A step that leaves turns, channel, registry, queue and file alone. *)
LEMMA ElsewhereBasic ==
  ASSUME BasicInv, Shape', Down' = Down, UNCHANGED <<turn, discord, registry, disk>>
  PROVE  BasicInv'
<1>1. RegistryIsHeld'
  BY RegistryKept
<1>2. \A r \in Reply : Unborn(r) => r \notin file' /\ Unnamed(r)'
  BY DEF BasicInv, UnbornIsNowhere, Unnamed, disk
<1>3. \A r \in Reply : flight'[r] = flight[r]
  BY DEF discord
<1> QED
  BY <1>1, <1>2, <1>3, QuietBasic DEF discord

(* The steps of the start and of the signal handler that touch no reply. *)
LEMMA StartBasic ==
  ASSUME BasicInv, Boot \/ Sweep \/ (\E m \in Msg : Post(m)) \/ Stop \/ UNCHANGED vars
  PROVE  BasicInv'
<1>1. Shape /\ due \subseteq Msg
  BY DEF BasicInv, Shape
<1>2. CASE Boot
  BY <1>1, <1>2, ElsewhereBasic DEF Boot, Shape, Down, discord, disk, inbox
<1>3. CASE Sweep
  <2>1. runs' \in [Msg -> {"none", "running", "done", "interrupted", "posted"}] /\ due' \subseteq Msg
    BY <1>1, <1>3 DEF Sweep, Shape
  <2> QED
    BY <1>1, <1>3, <2>1, ElsewhereBasic DEF Sweep, Shape, Down, discord, disk, inbox
<1>4. ASSUME NEW m \in Msg, Post(m) PROVE BasicInv'
  <2>1. runs' \in [Msg -> {"none", "running", "done", "interrupted", "posted"}] /\ due' \subseteq Msg
    BY <1>1, <1>4 DEF Post, Shape
  <2> QED
    BY <1>1, <1>4, <2>1, ElsewhereBasic DEF Post, Shape, Down, discord, disk, inbox
<1>5. CASE Stop
  BY <1>1, <1>5, ElsewhereBasic DEF Stop, Shape, Down, discord, disk, inbox, start
<1>6. CASE UNCHANGED vars
  BY <1>1, <1>6, ElsewhereBasic DEF Shape, Down, discord, disk, inbox, start, vars
<1> QED
  BY <1>2, <1>3, <1>4, <1>5, <1>6

(* The drain marks what is registered and empties the registry. *)
LEMMA DrainBasic ==
  ASSUME BasicInv, Drain
  PROVE  BasicInv'
<1>1. /\ flight' = Marked(registry, "restarting") /\ "restarting" \in Mark /\ Shape
      /\ registry' = {} /\ stop' = "drained"
      /\ UNCHANGED <<buffer, turn, shown, queue, file, runs, boot, due, orphans>>
  BY DEF Drain, Mark, BasicInv, inbox, disk, start
<1>2. /\ flight' \in [Reply -> Seq(Edit)]
      /\ \A r \in Reply : flight'[r] = IF r \in registry THEN Append(flight[r], "restarting") ELSE flight[r]
  BY <1>1, MarkedFlight
<1>3. Shape'
  BY <1>1, <1>2 DEF Shape
<1>4. RegistryIsHeld'
  BY <1>1 DEF BasicInv, RegistryIsHeld, Down
<1>5. \A r \in Reply : Unborn(r) => r \notin registry /\ r \notin file' /\ Unnamed(r)'
  BY <1>1, RegisteredHeld DEF BasicInv, UnbornIsNowhere, Unnamed
<1> QED
  BY <1>1, <1>2, <1>3, <1>4, <1>5, QuietBasic

(* The clean-up marks what it finds in the file. *)
LEMMA LoadBasic ==
  ASSUME BasicInv, Load
  PROVE  BasicInv'
<1>1. /\ flight' = Marked(file, "restarted") /\ "restarted" \in Mark /\ Shape /\ orphans' = file
      /\ boot' \in {"up", "cleaning"}
      /\ UNCHANGED <<buffer, turn, shown, registry, queue, file, runs, due, stop>>
  BY DEF Load, Mark, BasicInv, inbox, disk
<1>2. /\ flight' \in [Reply -> Seq(Edit)]
      /\ \A r \in Reply : flight'[r] = IF r \in file THEN Append(flight[r], "restarted") ELSE flight[r]
  BY <1>1, MarkedFlight
<1>3. Shape'
  BY <1>1, <1>2 DEF Shape
<1>4. RegistryIsHeld'
  BY <1>1, RegistryKept DEF Down
<1>5. \A r \in Reply : Unborn(r) => r \notin file /\ Unnamed(r)'
  BY <1>1 DEF BasicInv, UnbornIsNowhere, Unnamed
<1> QED
  BY <1>1, <1>2, <1>3, <1>4, <1>5, QuietBasic

(* The shutdown asks for the file to be cleared. *)
LEMMA ClearBasic ==
  ASSUME BasicInv, Clear
  PROVE  BasicInv'
<1>1. /\ queue' = Append(queue, Op("clear", <<>>)) /\ Shape /\ queue \in Seq(Operation)
      /\ stop = "drained" /\ stop' = "clearing"
      /\ UNCHANGED <<buffer, turn, shown, flight, registry, file, runs, boot, due, orphans>>
  BY DEF Clear, BasicInv, Shape, inbox, discord, start
<1>2. Op("clear", <<>>) \in Operation
  BY DEF Operation
<1>3. queue' \in Seq(Operation) /\ \A r \in Reply : Unnamed(r) => Unnamed(r)'
  BY <1>1, <1>2, OperationAppended, OpsDistinct DEF Unnamed
<1>4. Shape'
  BY <1>1, <1>3 DEF Shape
<1>5. RegistryIsHeld'
  BY <1>1, RegistryKept DEF Down
<1> QED
  BY <1>1, <1>3, <1>4, <1>5, QuietBasic DEF BasicInv, UnbornIsNowhere

(* The clean-up unlinks the file. *)
LEMMA UnlinkBasic ==
  ASSUME BasicInv, Unlink
  PROVE  BasicInv'
<1>1. /\ Shape /\ boot' = "up" /\ orphans' = {}
      /\ UNCHANGED <<buffer, turn, shown, flight, registry, runs, due, stop>>
  BY DEF Unlink, BasicInv, inbox, discord
<1>2. /\ file' \subseteq Reply /\ queue' \in Seq(Operation)
      /\ \A r \in Reply : Unborn(r) => r \notin file' /\ Unnamed(r)'
  <2>1. CASE file' = {} /\ UNCHANGED queue
    BY <1>1, <2>1, QueueKept DEF BasicInv, UnbornIsNowhere
  <2>2. CASE queue # <<>> /\ file' = Result(Head(queue)) /\ queue' = Tail(queue)
    BY <2>2, OperationDone DEF BasicInv, UnbornIsNowhere
  <2> QED
    BY <2>1, <2>2 DEF Unlink
<1>3. Shape'
  BY <1>1, <1>2 DEF Shape
<1>4. RegistryIsHeld'
  BY <1>1, RegistryKept DEF Down
<1> QED
  BY <1>1, <1>2, <1>3, <1>4, QuietBasic

(* What a turn that never began is. *)
LEMMA AsleepTurn ==
  /\ Asleep \in TurnState /\ Asleep.at = "none" /\ Asleep.depth = 0 /\ ~Asleep.held
  /\ [Asleep EXCEPT !.at = "dead"] \in TurnState
<1>1. <<>> \in Seq(Msg) /\ 0 \in 0..MaxDepth /\ "none" \in Places /\ "dead" \in Places
  BY BoundsAssumption DEF Places
<1>2. Asleep \in TurnState
  BY <1>1 DEF TurnState, Asleep
<1> QED
  BY <1>1, <1>2 DEF TurnState, Asleep

(* The process ends: every turn that had begun is dead. *)
LEMMA DiesBasic ==
  ASSUME BasicInv, NEW S, Dies(S)
  PROVE  BasicInv'
<1>1. /\ Shape /\ turn' = [m \in Msg |-> IF turn[m].at = "none" THEN Asleep
                                        ELSE [Asleep EXCEPT !.at = "dead"]]
      /\ buffer' = [s \in Session |-> <<>>] /\ flight' = [r \in Reply |-> <<>>] /\ registry' = {}
      /\ queue' = <<>> /\ boot' = "off" /\ due' = {} /\ orphans' = {} /\ stop' = "no"
      /\ shown' = Settled(Reply) /\ UNCHANGED <<file, runs>>
  BY DEF Dies, BasicInv
<1>2. \A m \in Msg : /\ turn'[m] \in TurnState /\ ~turn'[m].held /\ turn'[m].depth = 0
                     /\ turn'[m].at = IF turn[m].at = "none" THEN "none" ELSE "dead"
  BY <1>1, AsleepTurn DEF Asleep
<1>3. turn' \in [Msg -> TurnState]
  BY <1>1, <1>2
<1>4. Shape'
  <2>1. /\ <<>> \in Seq(Edit) /\ <<>> \in Seq(Operation) /\ <<>> \in Seq(Msg)
        /\ shown' \in [Reply -> Shown]
    BY <1>1, SettledShown
  <2> QED
    BY <1>1, <1>3, <2>1 DEF Shape
<1>5. RegistryIsHeld'
  BY <1>1, <1>2 DEF RegistryIsHeld
<1>6. EditsAwaited'
  BY <1>1 DEF EditsAwaited, Own
<1>7. UnbornIsNowhere'
  <2>1. ASSUME NEW r \in Reply, Unborn(r)'
        PROVE  shown'[r] = "absent" /\ flight'[r] = <<>> /\ r \notin file' /\ Unnamed(r)'
    <3>1. turn[r[1]].at = "none"
      BY <1>2, <2>1, ReplyParts DEF Unborn, Alive
    <3>2. shown[r] = "absent" /\ r \notin file
      BY <3>1 DEF BasicInv, UnbornIsNowhere, Unborn
    <3> QED
      BY <1>1, <3>2, SettledShown DEF Unnamed
  <2> QED
    BY <2>1 DEF UnbornIsNowhere
<1>8. Depths'
  BY <1>2 DEF Depths
<1> QED
  BY <1>4, <1>5, <1>6, <1>7, <1>8 DEF BasicInv

(* Nothing has happened. *)
LEMMA InitBasic ==
  ASSUME Init
  PROVE  BasicInv
<1>1. \A m \in Msg : turn[m] = Asleep
  BY DEF Init
<1>2. Shape
  BY AsleepTurn DEF Init, Shape, Shown
<1>3. RegistryIsHeld
  BY <1>1, AsleepTurn DEF Init, RegistryIsHeld
<1>4. EditsAwaited /\ UnbornIsNowhere
  BY DEF Init, EditsAwaited, UnbornIsNowhere, Unnamed
<1>5. Depths
  BY <1>1, AsleepTurn DEF Depths
<1> QED
  BY <1>2, <1>3, <1>4, <1>5 DEF BasicInv

(* Every own step of a turn. *)
LEMMA TurnBasic ==
  ASSUME BasicInv, NEW m \in Msg, Turn(m)
  PROVE  BasicInv'
BY BeginBasic, RegisterBasic, AnswerBasic, RuntimeErrorBasic, SuppressBasic, ThrowBasic,
   ThrowEarlyBasic, FollowUpBasic, SendBasic, CloseBasic, CompleteBasic DEF Turn

(* The cases of a step, for every proof about one. *)
LEMMA StepCases ==
  ASSUME [Next]_vars
  PROVE  \/ \E m \in Msg : Turn(m) \/ Arrive(m)
         \/ \E r \in Reply : Deliver(r)
         \/ Persist \/ Drain \/ Clear \/ Load \/ Unlink
         \/ Dies({}) \/ Dies(Unmarked(Reply, "restarting") \ file)
         \/ Boot \/ Sweep \/ (\E m \in Msg : Post(m)) \/ Stop \/ UNCHANGED vars
BY DEF Next, Step, Exit, Crash, AtRest

(* Every step preserves the basic invariant. *)
LEMMA NextBasic ==
  ASSUME BasicInv, [Next]_vars
  PROVE  BasicInv'
BY StepCases, TurnBasic, ArriveBasic, DeliverBasic, PersistBasic, DrainBasic, ClearBasic,
   LoadBasic, UnlinkBasic, DiesBasic, StartBasic

(* The basic invariant of the replies, for every set of messages and sessions. *)
THEOREM BasicInvariant == Spec => []BasicInv
<1>1. Init => BasicInv
  BY InitBasic
<1>2. BasicInv /\ [Next]_vars => BasicInv'
  BY NextBasic
<1> QED
  BY <1>1, <1>2, PTL DEF Spec

(* The state has its shape, and what is registered is the current reply of a *)
(* live turn that will dispose it: no path out of a turn leaves its channel  *)
(* in flight.                                                                *)
THEOREM RepliesTypeCorrect == Spec => []TypeOK
<1>1. BasicInv => TypeOK
  <2> SUFFICES ASSUME BasicInv PROVE TypeOK
    OBVIOUS
  <2>1. \A r \in Reply : flight[r] \in Seq(Edit) /\ \A k \in 1..Len(flight[r]) : flight[r][k] \in Edit
    BY ElementOfSeq DEF BasicInv, Shape
  <2> QED
    BY <2>1 DEF BasicInv, Shape, RegistryIsHeld, TypeOK
<1> QED
  BY <1>1, BasicInvariant, PTL

-----------------------------------------------------------------------------
(* The file of the replies in flight follows the registry: when the          *)
(* operations that wait have been done, it has every registered reply, and   *)
(* of the others only replies of an earlier process.                         *)

(* The k-th operation that waits puts the reply into the file; the zeroth is *)
(* what the file has by now.                                                 *)
Puts(k, r) == IF k = 0 THEN r \in file ELSE queue[k] = Op("add", r)

(* The reply is in the file when the operations that wait have been done. *)
Listed(r) ==
  \E k \in 0..Len(queue) : Puts(k, r) /\ \A l \in (k + 1)..Len(queue) : ~Removes(queue[l], r)

(* Every reply in flight will be in the file, or its entry was unlinked; and  *)
(* what will be there is in flight or of an earlier process.                 *)
FileInv ==
  /\ \A r \in registry : Listed(r) \/ r \in unlisted
  /\ \A r \in Reply : Listed(r) =>
       turn[r[1]].at = "dead" \/ (turn[r[1]].held /\ r = Current(r[1]))

(* An operation that starts to wait decides about its own reply. *)
LEMMA ListedAppended ==
  ASSUME Shape, NEW o \in Operation, queue' = Append(queue, o), UNCHANGED file, NEW r \in Reply
  PROVE  Listed(r)' <=> o = Op("add", r) \/ (Listed(r) /\ ~Removes(o, r))
<1>1. /\ queue' \in Seq(Operation) /\ Len(queue') = Len(queue) + 1 /\ Len(queue) \in Nat
      /\ queue'[Len(queue) + 1] = o
      /\ \A k \in 1..Len(queue) : queue'[k] = queue[k] /\ k \in Nat
  BY OperationAppended DEF Shape
<1>2. ASSUME Listed(r)' PROVE o = Op("add", r) \/ (Listed(r) /\ ~Removes(o, r))
  <2>1. \E k \in 0..(Len(queue) + 1) :
           /\ IF k = 0 THEN r \in file ELSE queue'[k] = Op("add", r)
           /\ \A l \in (k + 1)..(Len(queue) + 1) : ~Removes(queue'[l], r)
    BY <1>1, <1>2 DEF Listed, Puts, Removes
  <2>2. PICK k \in 0..(Len(queue) + 1) :
           /\ IF k = 0 THEN r \in file ELSE queue'[k] = Op("add", r)
           /\ \A l \in (k + 1)..(Len(queue) + 1) : ~Removes(queue'[l], r)
    BY <2>1
  <2>3. CASE k = Len(queue) + 1
    BY <1>1, <2>2, <2>3
  <2>4. CASE k # Len(queue) + 1
    <3>1. k \in 0..Len(queue) /\ Len(queue) + 1 \in (k + 1)..(Len(queue) + 1)
      BY <1>1, <2>4
    <3>2. Puts(k, r) /\ \A l \in (k + 1)..Len(queue) : ~Removes(queue[l], r)
      BY <1>1, <2>2, <3>1 DEF Puts
    <3>3. ~Removes(o, r)
      BY <1>1, <2>2, <3>1
    <3> QED
      BY <3>1, <3>2, <3>3 DEF Listed
  <2> QED
    BY <2>3, <2>4
<1>3. ASSUME o = Op("add", r) PROVE Listed(r)'
  <2>1. /\ Len(queue) + 1 \in 0..Len(queue') /\ queue'[Len(queue) + 1] = Op("add", r) /\ Len(queue) + 1 # 0
        /\ \A l \in (Len(queue) + 1 + 1)..Len(queue') : FALSE
    BY <1>1, <1>3
  <2> QED
    BY <2>1 DEF Listed, Puts
<1>4. ASSUME Listed(r), ~Removes(o, r) PROVE Listed(r)'
  <2>1. PICK k \in 0..Len(queue) : Puts(k, r) /\ \A l \in (k + 1)..Len(queue) : ~Removes(queue[l], r)
    BY <1>4 DEF Listed
  <2>2. k \in 0..Len(queue') /\ Puts(k, r)'
    BY <1>1, <2>1 DEF Puts
  <2>3. ASSUME NEW l \in (k + 1)..Len(queue') PROVE ~Removes(queue'[l], r)
    <3>1. CASE l = Len(queue) + 1
      BY <1>1, <1>4, <3>1
    <3>2. CASE l # Len(queue) + 1
      <4>1. l \in (k + 1)..Len(queue) /\ l \in 1..Len(queue)
        BY <1>1, <3>2
      <4> QED
        BY <1>1, <2>1, <4>1
    <3> QED
      BY <3>1, <3>2
  <2> QED
    BY <2>2, <2>3 DEF Listed, Removes
<1> QED
  BY <1>2, <1>3, <1>4

(* Doing the first of them changes nothing of it. *)
LEMMA ListedDone ==
  ASSUME Shape, queue # <<>>, queue' = Tail(queue), file' = Result(Head(queue)), NEW r \in Reply
  PROVE  Listed(r)' <=> Listed(r)
<1>1. /\ Len(queue') = Len(queue) - 1 /\ Len(queue) \in Nat /\ Len(queue) >= 1
      /\ Head(queue) = queue[1] /\ Head(queue) \in Operation
      /\ \A k \in 1..Len(queue') : queue'[k] = queue[k + 1]
  BY OperationTaken DEF Shape
<1>2. r \in file' <=> queue[1] = Op("add", r) \/ (r \in file /\ ~Removes(queue[1], r))
  BY <1>1, ResultOfReplies
<1>3. ASSUME NEW k \in 0..Len(queue')
      PROVE  (\A l \in (k + 1)..Len(queue') : ~Removes(queue'[l], r))
               <=> \A l \in (k + 2)..Len(queue) : ~Removes(queue[l], r)
  <2>1. ASSUME \A l \in (k + 1)..Len(queue') : ~Removes(queue'[l], r), NEW l \in (k + 2)..Len(queue)
        PROVE  ~Removes(queue[l], r)
    <3>1. l - 1 \in (k + 1)..Len(queue') /\ l - 1 \in 1..Len(queue') /\ (l - 1) + 1 = l
      BY <1>1
    <3> QED
      BY <1>1, <2>1, <3>1
  <2>2. ASSUME \A l \in (k + 2)..Len(queue) : ~Removes(queue[l], r), NEW l \in (k + 1)..Len(queue')
        PROVE  ~Removes(queue'[l], r)
    <3>1. l + 1 \in (k + 2)..Len(queue) /\ l \in 1..Len(queue')
      BY <1>1
    <3> QED
      BY <1>1, <2>2, <3>1
  <2> QED
    BY <2>1, <2>2
<1>4. ASSUME Listed(r)' PROVE Listed(r)
  <2>1. \E k \in 0..Len(queue') :
           /\ IF k = 0 THEN r \in file' ELSE queue'[k] = Op("add", r)
           /\ \A l \in (k + 1)..Len(queue') : ~Removes(queue'[l], r)
    BY <1>4 DEF Listed, Puts, Removes
  <2>2. PICK k \in 0..(Len(queue) - 1) :
           /\ IF k = 0 THEN r \in file' ELSE queue'[k] = Op("add", r)
           /\ \A l \in (k + 2)..Len(queue) : ~Removes(queue[l], r)
    BY <1>1, <1>3, <2>1
  <2>3. CASE k # 0 \/ queue[1] = Op("add", r)
    <3>1. k + 1 \in 0..Len(queue) /\ k + 1 # 0 /\ (k + 1) + 1 = k + 2 /\ queue[k + 1] = Op("add", r)
      BY <1>1, <2>2, <2>3
    <3> QED
      BY <2>2, <3>1 DEF Listed, Puts
  <2>4. CASE k = 0 /\ queue[1] # Op("add", r)
    <3>1. r \in file /\ ~Removes(queue[1], r)
      BY <1>2, <2>2, <2>4
    <3>2. \A l \in (0 + 1)..Len(queue) : ~Removes(queue[l], r)
      <4>1. ASSUME NEW l \in (0 + 1)..Len(queue) PROVE l = 1 \/ l \in (k + 2)..Len(queue)
        BY <1>1, <2>4
      <4> QED
        BY <2>2, <3>1, <4>1
    <3>3. 0 \in 0..Len(queue)
      BY <1>1
    <3> QED
      BY <3>1, <3>2, <3>3 DEF Listed, Puts
  <2> QED
    BY <2>3, <2>4
<1>5. ASSUME Listed(r) PROVE Listed(r)'
  <2>1. PICK k \in 0..Len(queue) : Puts(k, r) /\ \A l \in (k + 1)..Len(queue) : ~Removes(queue[l], r)
    BY <1>5 DEF Listed
  <2>2. CASE k \in {0, 1}
    <3>1. r \in file'
      <4>1. CASE k = 0
        <5>1. 1 \in (k + 1)..Len(queue)
          BY <1>1, <4>1
        <5> QED
          BY <1>2, <2>1, <4>1, <5>1 DEF Puts
      <4>2. CASE k = 1
        BY <1>2, <2>1, <4>2 DEF Puts
      <4> QED
        BY <2>2, <4>1, <4>2
    <3>2. \A l \in (0 + 2)..Len(queue) : ~Removes(queue[l], r)
      BY <1>1, <2>1, <2>2
    <3>3. 0 \in 0..Len(queue')
      BY <1>1
    <3>4. \A l \in (0 + 1)..Len(queue') : ~Removes(queue'[l], r)
      BY <1>3, <3>2, <3>3
    <3> QED
      BY <3>1, <3>3, <3>4 DEF Listed, Puts, Removes
  <2>3. CASE k \notin {0, 1}
    <3>1. /\ k - 1 \in 0..Len(queue') /\ k - 1 # 0 /\ k - 1 \in 1..Len(queue')
          /\ (k - 1) + 1 = k /\ (k - 1) + 2 = k + 1
      BY <1>1, <2>3
    <3>2. queue'[k - 1] = Op("add", r)
      BY <1>1, <2>1, <2>3, <3>1 DEF Puts
    <3>3. \A l \in ((k - 1) + 1)..Len(queue') : ~Removes(queue'[l], r)
      BY <1>3, <2>1, <3>1
    <3> QED
      BY <3>1, <3>2, <3>3 DEF Listed, Puts, Removes
  <2> QED
    BY <2>2, <2>3
<1> QED
  BY <1>4, <1>5

(* An own step of a turn leaves the other turns alone; a dead one has none.  *)
LEMMA TurnStep ==
  ASSUME BasicInv, NEW m \in Msg, Turn(m) \/ Arrive(m)
  PROVE  /\ OthersStay(m) /\ turn[m].at # "dead" /\ turn'[m].at # "dead"
         /\ UNCHANGED <<file, unlisted, stop, boot, orphans>>
<1>1. turn \in [Msg -> TurnState] /\ turn[m] \in TurnState
  BY DEF BasicInv, Shape
<1>2. CASE Begin(m) \/ Complete(m) \/ Arrive(m)
  BY <1>1, <1>2 DEF Begin, Complete, Arrive, Over, Asleep, TurnState, OthersStay, disk, start, history
<1>3. CASE Answer(m) \/ RuntimeError(m) \/ Suppress(m) \/ Throw(m) \/ ThrowEarly(m)
  BY <1>1, <1>3 DEF Answer, RuntimeError, Suppress, Throw, ThrowEarly, Thrown, Asks, OwnStep, TurnState, OthersStay,
     disk, start, history
<1>4. CASE Register(m) \/ FollowUp(m) \/ Send(m) \/ Close(m)
  BY <1>1, <1>4 DEF Register, FollowUp, Send, Close, Thrown, Asks, TurnState, OthersStay, disk,
     start, history
<1> QED
  BY <1>2, <1>3, <1>4 DEF Turn

(* The steps of a turn that neither register nor dispose. *)
LEMMA HeldKept ==
  ASSUME BasicInv, NEW m \in Msg,
         \/ Arrive(m) \/ Begin(m) \/ Answer(m) \/ RuntimeError(m) \/ Suppress(m)
         \/ Throw(m) \/ ThrowEarly(m) \/ Send(m) \/ Complete(m)
  PROVE  /\ UNCHANGED <<queue, registry>>
         /\ turn[m].held => turn'[m].held /\ turn'[m].depth = turn[m].depth
<1>1. Shape
  BY DEF BasicInv
<1>2. CASE Arrive(m) \/ Begin(m) \/ ThrowEarly(m) \/ Send(m) \/ Complete(m)
  <2>1. ~turn[m].held
    BY <1>2 DEF Arrive, Begin, ThrowEarly, Send, Complete, BasicInv, RegistryIsHeld, Holding
  <2>2. UNCHANGED <<queue, registry>>
    BY <1>2 DEF Arrive, Begin, ThrowEarly, Send, Complete, disk
  <2> QED
    BY <2>1, <2>2
<1>3. CASE Answer(m) \/ RuntimeError(m) \/ Suppress(m) \/ Throw(m)
  <2>1. UNCHANGED <<queue, registry>>
    BY <1>3 DEF Answer, RuntimeError, Suppress, Throw, OwnStep, disk
  <2>2. \/ turn' = [turn EXCEPT ![m].at = "answered", ![m].final = TRUE]
        \/ \E at \in {"editing", "reporting", "closing", "suppressing", "erring", "failed"} :
             turn' = [turn EXCEPT ![m].at = at]
    BY <1>3 DEF Answer, RuntimeError, Suppress, Throw, Thrown, Asks
  <2>3. CASE turn' = [turn EXCEPT ![m].at = "answered", ![m].final = TRUE]
    <3>1. "answered" \in Places /\ TRUE \in BOOLEAN
      BY DEF Places
    <3>2. turn'[m].depth = turn[m].depth /\ turn'[m].held = turn[m].held
      BY <1>1, <2>3, <3>1, FinalSet
    <3> QED
      BY <2>1, <3>2
  <2>4. ASSUME NEW at \in {"editing", "reporting", "closing", "suppressing", "erring", "failed"},
               turn' = [turn EXCEPT ![m].at = at]
        PROVE  turn'[m].depth = turn[m].depth /\ turn'[m].held = turn[m].held
    BY <1>1, <2>4, AtSet DEF Places
  <2> QED
    BY <2>1, <2>2, <2>3, <2>4
<1> QED
  BY <1>2, <1>3

(* A step that leaves queue and file alone. *)
LEMMA FileKept ==
  ASSUME FileInv, UNCHANGED <<queue, file, unlisted>>, registry' \subseteq registry,
         \A n \in Msg : /\ turn[n].at = "dead" => turn'[n].at = "dead"
                        /\ turn[n].held => turn'[n].held /\ turn'[n].depth = turn[n].depth
  PROVE  FileInv'
<1>1. \A r \in Reply : r[1] \in Msg
  BY ReplyParts
<1>2. \A r \in Reply : Listed(r)' <=> Listed(r)
  BY DEF Listed, Puts, Removes
<1>3. \A r \in registry' : Listed(r)' <=> Listed(r)
  BY DEF Listed, Puts, Removes
<1> QED
  BY <1>1, <1>2, <1>3 DEF FileInv, Current

(* The turn disposes of its entry. *)
LEMMA FileDisposed ==
  ASSUME BasicInv, FileInv, NEW m \in Msg, Dispose(m), OthersStay(m), turn[m].at # "dead",
         UNCHANGED <<file, unlisted>>
  PROVE  FileInv'
<1>1. Shape /\ Current(m) \in Reply /\ turn[m].held \in BOOLEAN
  BY TurnFields DEF BasicInv
<1>2. CASE turn[m].held
  <2>1. /\ registry' = registry \ {Current(m)} /\ queue' = Append(queue, Op("remove", Current(m)))
        /\ Op("remove", Current(m)) \in Operation
    BY <1>1, <1>2 DEF Dispose, Operation
  <2>2. \A r \in Reply : Removes(Op("remove", Current(m)), r) <=> r = Current(m)
    BY DEF Removes, Op
  <2>3. ASSUME NEW r \in Reply
        PROVE  Listed(r)' <=> Listed(r) /\ r # Current(m)
    BY <1>1, <2>1, <2>2, ListedAppended, OpsDistinct
  <2>4. ASSUME NEW r \in registry' PROVE Listed(r)' \/ r \in unlisted'
    BY <1>1, <2>1, <2>3 DEF FileInv, Shape
  <2>5. ASSUME NEW r \in Reply, Listed(r)'
        PROVE  turn'[r[1]].at = "dead" \/ (turn'[r[1]].held /\ r = Current(r[1])')
    <3>1. r[1] \in Msg /\ Listed(r) /\ r # Current(m)
      BY <2>3, <2>5, ReplyParts
    <3>2. r[1] # m
      BY <3>1 DEF FileInv
    <3> QED
      BY <3>1, <3>2 DEF FileInv, OthersStay, Current
  <2> QED
    BY <2>4, <2>5 DEF FileInv
<1>3. CASE ~turn[m].held
  <2>1. UNCHANGED <<queue, registry>>
    BY <1>3 DEF Dispose
  <2> QED
    BY <1>3, <2>1, FileKept DEF OthersStay
<1> QED
  BY <1>1, <1>2, <1>3

(* Every own step of a turn keeps file and registry together. *)
LEMMA FileTurn ==
  ASSUME BasicInv, FileInv, NEW m \in Msg, Turn(m) \/ Arrive(m)
  PROVE  FileInv'
<1>1. OthersStay(m) /\ turn[m].at # "dead" /\ UNCHANGED <<file, unlisted>> /\ Shape
  BY TurnStep DEF BasicInv
<1>2. CASE \/ Arrive(m) \/ Begin(m) \/ Answer(m) \/ RuntimeError(m) \/ Suppress(m)
           \/ Throw(m) \/ ThrowEarly(m) \/ Send(m) \/ Complete(m)
  BY <1>1, <1>2, HeldKept, FileKept DEF OthersStay
<1>3. CASE FollowUp(m) \/ Close(m)
  BY <1>1, <1>3, FileDisposed DEF FollowUp, Close
<1>4. CASE Register(m) /\ Down
  <2>1. UNCHANGED <<registry, queue>> /\ ~turn[m].held
    BY <1>4 DEF Register, BasicInv, RegistryIsHeld, Holding
  <2> QED
    BY <1>1, <2>1, FileKept DEF OthersStay
<1>5. CASE Register(m) /\ ~Down
  <2> DEFINE r == Current(m)
  <2>1. /\ registry' = registry \cup {r} /\ queue' = Append(queue, Op("add", r))
        /\ turn' = [turn EXCEPT ![m].at = "stream", ![m].final = FALSE, ![m].held = TRUE]
    BY <1>5 DEF Register
  <2>2. turn'[m].held /\ Current(m)' = r
    BY <1>1, <2>1 DEF Shape, TurnState, Current
  <2>3. r \in Reply /\ Op("add", r) \in Operation /\ r[1] = m
    BY <1>1, TurnFields DEF Operation, Current
  <2>4. \A x \in Reply : Listed(x)' <=> x = r \/ Listed(x)
    <3>1. \A x \in Reply : ~Removes(Op("add", r), x)
      BY DEF Removes, Op
    <3> QED
      BY <1>1, <2>1, <2>3, <3>1, ListedAppended, OpsDistinct
  <2>5. \A x \in registry' : Listed(x)' \/ x \in unlisted'
    BY <1>1, <2>1, <2>3, <2>4 DEF FileInv, Shape
  <2>6. ASSUME NEW x \in Reply, Listed(x)'
        PROVE  turn'[x[1]].at = "dead" \/ (turn'[x[1]].held /\ x = Current(x[1])')
    <3>1. CASE x = r
      BY <2>2, <2>3, <3>1
    <3>2. CASE x # r
      <4>1. Listed(x) /\ x[1] \in Msg /\ ~turn[m].held
        BY <1>5, <2>4, <2>6, <3>2, ReplyParts DEF Register, BasicInv, RegistryIsHeld, Holding
      <4>2. x[1] # m
        BY <1>1, <4>1 DEF FileInv
      <4> QED
        BY <1>1, <4>1, <4>2 DEF FileInv, OthersStay, Current
    <3> QED
      BY <3>1, <3>2
  <2> QED
    BY <2>5, <2>6 DEF FileInv
<1> QED
  BY <1>2, <1>3, <1>4, <1>5 DEF Turn

(* The operations of the file, and the unlink that passes them by. *)
LEMMA FileOperations ==
  ASSUME BasicInv, FileInv, Persist \/ Unlink
  PROVE  FileInv'
<1>1. Shape /\ registry \subseteq Reply /\ UNCHANGED <<turn, registry>>
  BY DEF BasicInv, Shape, Persist, Unlink
<1>2. CASE /\ queue # <<>> /\ queue' = Tail(queue) /\ file' = Result(Head(queue))
           /\ UNCHANGED unlisted
  <2>1. \A r \in Reply : Listed(r)' <=> Listed(r)
    BY <1>1, <1>2, ListedDone
  <2> QED
    BY <1>1, <1>2, <2>1 DEF FileInv, Current
<1>3. CASE file' = {} /\ unlisted' = unlisted \cup (registry \cap file) /\ UNCHANGED queue
  <2>0. Len(queue) \in Nat
    BY <1>1, LenProperties DEF Shape
  <2>1. ASSUME NEW r \in Reply, Listed(r)' PROVE Listed(r)
    <3>1. \E k \in 0..Len(queue) : k # 0 /\ Puts(k, r) /\ \A l \in (k + 1)..Len(queue) : ~Removes(queue[l], r)
      BY <1>3, <2>1 DEF Listed, Puts, Removes
    <3> QED
      BY <3>1 DEF Listed
  <2>2. ASSUME NEW r \in Reply, Listed(r), r \notin file PROVE Listed(r)'
    <3>1. \E k \in 0..Len(queue) : k # 0 /\ Puts(k, r) /\ \A l \in (k + 1)..Len(queue) : ~Removes(queue[l], r)
      BY <2>2 DEF Listed, Puts
    <3> QED
      BY <1>3, <3>1 DEF Listed, Puts, Removes
  <2>3. \A r \in registry' : Listed(r)' \/ r \in unlisted'
    BY <1>1, <1>3, <2>2 DEF FileInv
  <2>4. \A r \in Reply : Listed(r)' => turn'[r[1]].at = "dead" \/ (turn'[r[1]].held /\ r = Current(r[1])')
    BY <1>1, <2>1 DEF FileInv, Current
  <2> QED
    BY <2>3, <2>4 DEF FileInv
<1>4. CASE Persist
  BY <1>2, <1>4 DEF Persist
<1>5. CASE Unlink
  BY <1>2, <1>3, <1>5 DEF Unlink
<1> QED
  BY <1>4, <1>5

(* The shutdown clears the file. *)
LEMMA FileCleared ==
  ASSUME BasicInv, FileInv, Clear
  PROVE  FileInv'
<1>1. /\ Shape /\ queue' = Append(queue, Op("clear", <<>>)) /\ Op("clear", <<>>) \in Operation
      /\ UNCHANGED <<file, registry>> /\ Down
  BY DEF Clear, BasicInv, Operation, Down
<1>2. \A r \in Reply : Removes(Op("clear", <<>>), r)
  BY DEF Removes, Op
<1>3. \A r \in Reply : ~Listed(r)'
  BY <1>1, <1>2, ListedAppended, OpsDistinct
<1>4. registry' = {}
  BY <1>1 DEF BasicInv, RegistryIsHeld
<1> QED
  BY <1>3, <1>4 DEF FileInv

(* The process ends; what is in the file is a reply of a turn that is dead. *)
LEMMA FileLeft ==
  ASSUME BasicInv, FileInv, NEW S, Dies(S)
  PROVE  FileInv'
<1>1. registry' = {} /\ queue' = <<>> /\ file' = file
  BY DEF Dies
<1>2. ASSUME NEW r \in Reply, Listed(r)' PROVE turn'[r[1]].at = "dead"
  <2>1. r \in file
    BY <1>1, <1>2 DEF Listed, Puts
  <2>2. r[1] \in Msg /\ turn[r[1]].at # "none"
    BY <2>1, ReplyParts DEF BasicInv, UnbornIsNowhere, Unborn
  <2> QED
    BY <2>2 DEF Dies
<1> QED
  BY <1>1, <1>2 DEF FileInv

(* Every step does. *)
LEMMA NextFile ==
  ASSUME BasicInv, FileInv, [Next]_vars
  PROVE  FileInv'
<1>1. ASSUME NEW r \in Reply, Deliver(r) PROVE FileInv'
  <2>1. UNCHANGED <<queue, file, registry, unlisted>>
    BY <1>1 DEF Deliver, disk
  <2>2. \A n \in Msg : /\ turn[n].at = "dead" => turn'[n].at = "dead"
                       /\ turn[n].held => turn'[n].held /\ turn'[n].depth = turn[n].depth
    <3>1. PICK ok \in BOOLEAN :
            IF flight[r][1] \in Mark THEN UNCHANGED turn
            ELSE DeliverOwn(r, ok) /\ turn[r[1]].at \in Awaiting
      BY <1>1, DeliverCases DEF DeliverMark
    <3>2. CASE UNCHANGED turn
      BY <3>2
    <3>3. CASE DeliverOwn(r, ok) /\ turn[r[1]].at \in Awaiting
      <4>1. /\ turn' = [turn EXCEPT ![r[1]].at = After(r[1], ok), ![r[1]].final = turn[r[1]].final \/ ok]
            /\ r[1] \in Msg /\ Shape /\ turn[r[1]].final \in BOOLEAN
        BY <3>3, ReplyParts, TurnFields DEF DeliverOwn, BasicInv
      <4>2. After(r[1], ok) \in Places
        BY <3>3, <4>1, AfterPlaces
      <4>3. OthersStay(r[1]) /\ turn'[r[1]].depth = turn[r[1]].depth /\ turn'[r[1]].held = turn[r[1]].held
        BY <4>1, <4>2, FinalSet
      <4> QED
        BY <3>3, <4>1, <4>3 DEF OthersStay, Awaiting
    <3> QED
      BY <3>1, <3>2, <3>3
  <2> QED
    BY <2>1, <2>2, FileKept
<1>2. CASE \/ Drain \/ Load \/ Boot \/ Sweep \/ (\E m \in Msg : Post(m)) \/ Stop \/ UNCHANGED vars
  <2>1. UNCHANGED <<turn, queue, file, unlisted>> /\ registry' \subseteq registry
    BY <1>2 DEF Drain, Load, Boot, Sweep, Post, Stop, vars, disk, history
  <2> QED
    BY <2>1, FileKept
<1> QED
  BY <1>1, <1>2, StepCases, FileTurn, FileOperations, FileCleared, FileLeft

(* What the operations that wait leave in the file follows the registry. *)
THEOREM FileInvariant == Spec => []FileInv
<1>1. Init => FileInv
  <2> SUFFICES ASSUME Init PROVE FileInv
    OBVIOUS
  <2>1. registry = {} /\ queue = <<>> /\ file = {}
    BY DEF Init
  <2> QED
    BY <2>1 DEF FileInv, Listed, Puts
<1>2. BasicInv /\ FileInv /\ [Next]_vars => FileInv'
  BY NextFile
<1> QED
  BY <1>1, <1>2, BasicInvariant, PTL DEF Spec

(* Whenever no operation waits the file has the replies in flight, but for    *)
(* unlinked ones, and only replies of dead turns besides.                    *)
THEOREM FileFollows == Spec => []FileFollowsRegistry
<1>1. BasicInv /\ FileInv => FileFollowsRegistry
  <2> SUFFICES ASSUME BasicInv, FileInv, queue = <<>>
               PROVE  /\ registry \subseteq file \cup unlisted
                      /\ ~Down => \A r \in file \ registry : turn[r[1]].at = "dead"
    BY DEF FileFollowsRegistry
  <2>1. Len(queue) = 0
    OBVIOUS
  <2>2. \A r : Listed(r) <=> r \in file
    BY <2>1 DEF Listed, Puts
  <2>3. ASSUME ~Down, NEW r \in file \ registry PROVE turn[r[1]].at = "dead"
    <3>1. r \in Reply /\ Listed(r) /\ r[1] \in Msg
      BY <2>2, ReplyParts DEF BasicInv, Shape
    <3>2. r # Current(r[1]) \/ ~turn[r[1]].held
      BY <2>3, <3>1 DEF BasicInv, RegistryIsHeld
    <3> QED
      BY <3>1, <3>2 DEF FileInv
  <2> QED
    BY <2>2, <2>3 DEF FileInv
<1> QED
  BY <1>1, BasicInvariant, FileInvariant, PTL

-----------------------------------------------------------------------------
(* The mark of an interrupted reply stands.  Before the drain no reply has    *)
(* the mark; from then on nothing is asked behind it but other marks and a    *)
(* delete.                                                                    *)

(* The reply has the mark of the shutdown, or it is on its way. *)
Restarting(r) == shown[r] = "restarting" \/ Has(flight[r], "restarting")

(* What the reply will show when its edits have been applied. *)
Final(r) == IF flight[r] = <<>> THEN shown[r] ELSE flight[r][Len(flight[r])]

(* The mark will not be written over. *)
Stands(r) ==
  IF Down THEN Restarting(r) => Final(r) \in Mark \cup {"gone"} ELSE ~Restarting(r)

MarksInv == \A r \in Reply : Stands(r)

(* A reply that a step does not touch. *)
LEMMA UntouchedStands ==
  ASSUME NEW r \in Reply, Stands(r), Down' = Down, shown'[r] = shown[r], flight'[r] = flight[r]
  PROVE  Stands(r)'
BY DEF Stands, Restarting, Final, Has

(* An edit is asked for that leaves the mark standing. *)
LEMMA AskedStands ==
  ASSUME BasicInv, NEW r \in Reply, Stands(r), Down' = Down, shown'[r] = shown[r], NEW e \in Edit,
         flight'[r] = Append(flight[r], e),
         IF Down THEN e \in Mark \cup {"gone"} ELSE e # "restarting"
  PROVE  Stands(r)'
<1>1. /\ Len(flight'[r]) = Len(flight[r]) + 1 /\ Len(flight[r]) \in Nat
      /\ flight'[r][Len(flight[r]) + 1] = e
      /\ \A k \in 1..Len(flight[r]) : flight'[r][k] = flight[r][k]
  BY EditAppended DEF BasicInv, Shape
<1>2. CASE Down
  <2>1. flight'[r] # <<>>
    BY <1>1
  <2> QED
    BY <1>1, <1>2, <2>1 DEF Stands, Final
<1>3. CASE ~Down
  BY <1>1, <1>3 DEF Stands, Restarting, Has
<1> QED
  BY <1>2, <1>3

(* A reply without edits on their way shows something else. *)
LEMMA QuietStands ==
  ASSUME NEW r \in Reply, flight'[r] = <<>>, shown'[r] # "restarting"
  PROVE  Stands(r)'
BY DEF Stands, Restarting, Has

(* No own step of a turn writes over the mark. *)
LEMMA TurnMarks ==
  ASSUME BasicInv, MarksInv, NEW m \in Msg, Turn(m) \/ Arrive(m)
  PROVE  MarksInv'
<1> DEFINE c == Current(m)
<1>1. Shape /\ Down' = Down /\ c \in Reply /\ c = <<m, turn[m].depth>> /\ turn[m].depth \in Nat
  BY TurnStep, TurnFields DEF BasicInv, Down, Current
<1>2. ASSUME UNCHANGED <<shown, flight>> PROVE MarksInv'
  BY <1>1, <1>2, UntouchedStands DEF MarksInv
<1>3. ASSUME NEW e \in Edit, flight' = [flight EXCEPT ![c] = Append(@, e)], UNCHANGED shown,
             IF Down THEN e \in Mark \cup {"gone"} ELSE e # "restarting"
      PROVE  MarksInv'
  <2>1. flight'[c] = Append(flight[c], e) /\ \A x \in Reply : x # c => flight'[x] = flight[x]
    BY <1>1, <1>3, FlightAppended
  <2> QED
    BY <1>1, <1>3, <2>1, UntouchedStands, AskedStands DEF MarksInv
<1>4. ASSUME NEW r \in Reply, Unborn(r), shown' = [shown EXCEPT ![r] = "waiting"], UNCHANGED flight
      PROVE  MarksInv'
  <2>1. flight'[r] = <<>> /\ shown'[r] = "waiting" /\ \A x \in Reply : x # r => shown'[x] = shown[x]
    BY <1>1, <1>4 DEF BasicInv, UnbornIsNowhere, Shape
  <2> QED
    BY <1>1, <1>4, <2>1, UntouchedStands, QuietStands DEF MarksInv
<1>5. CASE Begin(m)
  <2>1. <<m, 0>> \in Reply /\ <<m, 0>>[1] = m /\ turn[m].at = "queued"
    BY <1>1, <1>5, ReplyParts DEF Begin
  <2>3. Unborn(<<m, 0>>)
    BY <2>1 DEF Unborn
  <2> QED
    BY <1>2, <1>4, <1>5, <2>1, <2>3 DEF Begin
<1>6. CASE Register(m)
  <2>1. CASE Down
    <3>1. "restarting" \in Edit /\ "restarting" \in Mark
      BY DEF Edit, Mark
    <3> QED
      BY <1>3, <1>6, <2>1, <3>1 DEF Register
  <2>2. CASE ~Down
    BY <1>2, <1>6, <2>2 DEF Register
  <2> QED
    BY <2>1, <2>2
<1>7. CASE Answer(m) \/ RuntimeError(m) \/ Throw(m) \/ ThrowEarly(m) \/ Suppress(m) \/ Close(m)
  <2>1. "text" \in Edit /\ "gone" \in Edit
    BY DEF Edit
  <2> QED
    BY <1>2, <1>3, <1>7, <2>1 DEF Answer, RuntimeError, Throw, ThrowEarly, Suppress, Close,
       Thrown, Asks, OwnStep
<1>8. CASE FollowUp(m) \/ Arrive(m)
  BY <1>2, <1>8 DEF FollowUp, Arrive, discord
<1>9. CASE Send(m)
  <2>1. CASE Thrown(m) /\ UNCHANGED shown
    <3>1. "text" \in Edit
      BY DEF Edit
    <3> QED
      BY <1>2, <1>3, <2>1, <3>1 DEF Thrown, Asks
  <2>2. CASE shown' = [shown EXCEPT ![<<m, turn[m].depth + 1>>] = "waiting"] /\ UNCHANGED flight
    <3>1. turn[m].depth < MaxDepth /\ Alive(m)
      BY <1>9 DEF Send, BasicInv, Depths, Alive
    <3>2. <<m, turn[m].depth + 1>> \in Reply /\ Unborn(<<m, turn[m].depth + 1>>)
      BY <1>1, <3>1, BoundsAssumption DEF Reply, Unborn
    <3> QED
      BY <1>4, <2>2, <3>2
  <2> QED
    BY <1>9, <2>1, <2>2 DEF Send
<1>10. CASE Complete(m)
  <2>1. /\ shown' = Settled({r \in Reply : r[1] = m}) /\ UNCHANGED flight
    BY <1>10 DEF Complete
  <2>2. ASSUME NEW r \in Reply PROVE Stands(r)'
    <3>1. CASE shown'[r] = shown[r]
      BY <1>1, <2>1, <3>1, UntouchedStands DEF MarksInv
    <3>2. CASE shown'[r] = "gone"
      BY <1>1, <2>1, <3>2 DEF MarksInv, Stands, Restarting, Final, Has
    <3> QED
      BY <1>1, <2>1, <3>1, <3>2, SettledShown
  <2> QED
    BY <2>2 DEF MarksInv
<1> QED
  BY <1>5, <1>6, <1>7, <1>8, <1>9, <1>10 DEF Turn

(* An edit is applied or refused. *)
LEMMA DeliverMarks ==
  ASSUME BasicInv, MarksInv, NEW r \in Reply, Deliver(r)
  PROVE  MarksInv'
<1>0. Shape /\ Down' = Down /\ r[1] \in Msg /\ flight[r] \in Seq(Edit) /\ flight[r] # <<>>
  BY DeliverCases, ReplyParts DEF BasicInv, Down, still
<1>1. PICK ok \in BOOLEAN :
        /\ shown' = IF ok THEN [shown EXCEPT ![r] = flight[r][1]] ELSE shown
        /\ IF flight[r][1] \in Mark THEN DeliverMark(r)
           ELSE DeliverOwn(r, ok) /\ turn[r[1]].at \in Awaiting
  BY DeliverCases
<1>2. PICK says : /\ flight' = [flight EXCEPT ![r] = Tail(@) \o says]
                  /\ \/ says = <<>>
                     \/ ~Down /\ \E e \in {"text", "gone"} : says = <<e>>
  <2>1. CASE flight[r][1] \in Mark
    BY <1>1, <2>1 DEF DeliverMark
  <2>2. CASE flight[r][1] \notin Mark
    BY <1>0, <1>1, <2>2, AfterPlaces DEF DeliverOwn
  <2> QED
    BY <2>1, <2>2
<1>3. /\ \A x \in Reply : x # r => flight'[x] = flight[x]
      /\ flight' \in [Reply -> Seq(Edit)]
      /\ Len(flight[r]) \in Nat /\ Len(flight[r]) >= 1
      /\ says = <<>> => Len(flight'[r]) = Len(flight[r]) - 1
      /\ says # <<>> => Len(flight'[r]) = Len(flight[r]) /\ flight'[r][Len(flight[r])] \notin Mark
      /\ \A k \in 1..(Len(flight[r]) - 1) : flight'[r][k] = flight[r][k + 1] /\ k + 1 \in 1..Len(flight[r])
  BY <1>0, <1>2, FlightDelivered
<1>4. ASSUME NEW x \in Reply, x # r PROVE Stands(x)'
  BY <1>0, <1>1, <1>3, <1>4, UntouchedStands DEF MarksInv, Shape
<1>5. shown'[r] = shown[r] \/ shown'[r] = flight[r][1]
  BY <1>0, <1>1 DEF Shape
<1>6. Stands(r)'
  <2>1. CASE ~Down
    <3>1. \A k \in 1..Len(flight'[r]) : flight'[r][k] # "restarting"
      <4>1. ASSUME NEW k \in 1..Len(flight'[r]), flight'[r][k] = "restarting" PROVE FALSE
        <5>1. k \in 1..(Len(flight[r]) - 1)
          BY <1>3, <4>1 DEF Mark
        <5> QED
          BY <1>3, <2>1, <4>1, <5>1 DEF MarksInv, Stands, Restarting, Has
      <4> QED
        BY <4>1
    <3>2. shown'[r] # "restarting"
      <4>1. shown[r] # "restarting" /\ \A k \in 1..Len(flight[r]) : flight[r][k] # "restarting"
        BY <2>1 DEF MarksInv, Stands, Restarting, Has
      <4> QED
        BY <1>3, <1>5, <4>1
    <3> QED
      BY <1>0, <2>1, <3>1, <3>2 DEF Stands, Restarting, Has
  <2>2. CASE Down
    <3>1. Len(flight'[r]) = Len(flight[r]) - 1
      BY <1>2, <1>3, <2>2
    <3>2. CASE Len(flight[r]) = 1
      <4>1. flight'[r] = <<>>
        BY <1>3, <3>1, <3>2, EmptySeq
      <4>2. Final(r) = flight[r][1]
        BY <1>0, <3>2 DEF Final
      <4>3. shown'[r] = "restarting" \/ ~Restarting(r)' \/ shown'[r] = flight[r][1]
        BY <4>1 DEF Restarting, Has
      <4>4. shown'[r] = "restarting" => Restarting(r)
        BY <1>3, <1>5 DEF Restarting, Has
      <4> QED
        BY <1>0, <2>2, <4>1, <4>2, <4>3, <4>4 DEF Stands, Restarting, Final, Has, Mark
    <3>3. CASE Len(flight[r]) # 1
      <4>1. /\ Len(flight[r]) - 1 \in 1..(Len(flight[r]) - 1)
            /\ (Len(flight[r]) - 1) + 1 = Len(flight[r])
        <5>1. ASSUME NEW n \in Nat, n >= 1, n # 1 PROVE n - 1 \in 1..(n - 1) /\ (n - 1) + 1 = n
          BY <5>1
        <5> QED
          BY <1>3, <3>3, <5>1
      <4>2. flight'[r] # <<>> /\ Final(r)' = Final(r)
        BY <1>0, <1>3, <3>1, <4>1 DEF Final
      <4>3. Restarting(r)' => Restarting(r)
        <5>1. CASE shown'[r] = "restarting"
          BY <1>3, <1>5, <5>1 DEF Restarting, Has
        <5>2. ASSUME NEW k \in 1..Len(flight'[r]), flight'[r][k] = "restarting" PROVE Restarting(r)
          BY <1>3, <3>1, <5>2 DEF Restarting, Has
        <5> QED
          BY <5>1, <5>2 DEF Restarting, Has
      <4> QED
        BY <1>0, <2>2, <4>2, <4>3 DEF MarksInv, Stands
    <3> QED
      BY <3>2, <3>3
  <2> QED
    BY <2>1, <2>2
<1> QED
  BY <1>4, <1>6 DEF MarksInv

(* No step does. *)
LEMMA NextMarks ==
  ASSUME BasicInv, MarksInv, [Next]_vars
  PROVE  MarksInv'
<1>0. Shape
  BY DEF BasicInv
<1>1. CASE Persist \/ Clear \/ Unlink \/ Boot \/ Sweep \/ (\E m \in Msg : Post(m)) \/ Stop \/ UNCHANGED vars
  <2>1. UNCHANGED <<shown, flight>> /\ Down' = Down
    BY <1>1 DEF Persist, Clear, Unlink, Boot, Sweep, Post, Stop, vars, discord, Down
  <2> QED
    BY <2>1, UntouchedStands DEF MarksInv
<1>2. CASE Load
  <2>1. flight' = Marked(file, "restarted") /\ UNCHANGED shown /\ Down' = Down /\ "restarted" \in Mark
        /\ "restarted" \in Edit
    BY <1>2 DEF Load, Down, Mark, Edit
  <2>2. \A r \in Reply : flight'[r] = IF r \in file THEN Append(flight[r], "restarted") ELSE flight[r]
    BY <1>0, <2>1, MarkedFlight
  <2> QED
    BY <2>1, <2>2, UntouchedStands, AskedStands DEF MarksInv
<1>3. CASE Drain
  <2>1. /\ flight' = Marked(registry, "restarting") /\ UNCHANGED shown /\ Down' /\ ~Down
        /\ "restarting" \in Mark /\ "restarting" \in Edit
    BY <1>3 DEF Drain, Down, Mark, Edit
  <2>2. \A r \in Reply : flight'[r] = IF r \in registry THEN Append(flight[r], "restarting") ELSE flight[r]
    BY <1>0, <2>1, MarkedFlight
  <2>3. ASSUME NEW r \in Reply PROVE Stands(r)'
    <3>1. ~Restarting(r)
      BY <2>1 DEF MarksInv, Stands
    <3>2. CASE r \in registry
      <4>1. flight'[r] # <<>> /\ flight'[r][Len(flight'[r])] = "restarting"
        <5>0. flight[r] \in Seq(Edit) /\ flight'[r] = Append(flight[r], "restarting")
          BY <1>0, <2>2, <3>2 DEF Shape
        <5>1. /\ Len(flight'[r]) = Len(flight[r]) + 1 /\ Len(flight[r]) \in Nat
              /\ flight'[r][Len(flight[r]) + 1] = "restarting"
          BY <2>1, <5>0, EditAppended
        <5> QED
          BY <5>1
      <4> QED
        BY <2>1, <4>1 DEF Stands, Final
    <3>3. CASE r \notin registry
      BY <2>1, <2>2, <3>1, <3>3 DEF Stands, Restarting, Has
    <3> QED
      BY <3>2, <3>3
  <2> QED
    BY <2>3 DEF MarksInv
<1>4. ASSUME NEW S, Dies(S) PROVE MarksInv'
  <2>1. \A r \in Reply : flight'[r] = <<>> /\ shown'[r] # "restarting"
    BY <1>4 DEF Dies, Settled
  <2> QED
    BY <2>1, QuietStands DEF MarksInv
<1> QED
  BY <1>1, <1>2, <1>3, <1>4, StepCases, TurnMarks, DeliverMarks

(* Once the shutdown has marked a reply as interrupted, no edit of its turn   *)
(* replaces the mark.                                                        *)
THEOREM MarkStands == Spec => []InterruptedStands
<1>1. Init => MarksInv
  BY DEF Init, MarksInv, Stands, Restarting, Has, Down
<1>2. BasicInv /\ MarksInv /\ [Next]_vars => MarksInv'
  BY NextMarks
<1>3. BasicInv /\ MarksInv => InterruptedStands
  <2> SUFFICES ASSUME BasicInv, MarksInv, Down, NEW r \in Reply, Has(<<shown[r]>> \o flight[r], "restarting")
               PROVE  (<<shown[r]>> \o flight[r])[Len(<<shown[r]>> \o flight[r])] \in Mark \cup {"gone"}
    BY DEF InterruptedStands
  <2> DEFINE story == <<shown[r]>> \o flight[r]
             T == Edit \cup Shown
  <2>1. flight[r] \in Seq(T) /\ <<shown[r]>> \in Seq(T) /\ Len(flight[r]) \in Nat
        /\ Len(<<shown[r]>>) = 1 /\ <<shown[r]>>[1] = shown[r]
    <3>1. flight[r] \in Seq(Edit) /\ shown[r] \in Shown
      BY DEF BasicInv, Shape
    <3> QED
      BY <3>1, LenProperties
  <2>2. /\ Len(story) = 1 + Len(flight[r])
        /\ \A k \in 1..(1 + Len(flight[r])) : story[k] = IF k <= 1 THEN <<shown[r]>>[k] ELSE flight[r][k - 1]
    BY <2>1, ConcatProperties
  <2> HIDE DEF story
  <2>3. Restarting(r)
    <3>1. PICK k \in 1..Len(story) : story[k] = "restarting"
      BY DEF Has, story
    <3>2. CASE k = 1
      BY <2>1, <2>2, <3>1, <3>2 DEF Restarting
    <3>3. CASE k # 1
      <4>1. k - 1 \in 1..Len(flight[r]) /\ flight[r][k - 1] = "restarting"
        BY <2>1, <2>2, <3>1, <3>3
      <4> QED
        BY <4>1 DEF Restarting, Has
    <3> QED
      BY <3>2, <3>3
  <2>4. story[Len(story)] = Final(r)
    <3>1. CASE flight[r] = <<>>
      BY <2>1, <2>2, <3>1 DEF Final
    <3>2. CASE flight[r] # <<>>
      <4>1. Len(flight[r]) >= 1
        BY <2>1, <3>2, EmptySeq
      <4> QED
        BY <2>1, <2>2, <3>2, <4>1 DEF Final
    <3> QED
      BY <3>1, <3>2
  <2> QED
    BY <2>3, <2>4 DEF MarksInv, Stands, story
<1> QED
  BY <1>1, <1>2, <1>3, BasicInvariant, PTL DEF Spec

-----------------------------------------------------------------------------
(* A placeholder has an owner.  A reply that waits is the current one of a   *)
(* live turn that has yet to settle it; or a mark for it is on its way; or   *)
(* the clean-up of this or the next start will find it in the file; or the   *)
(* watchdog has its run; or nothing will settle it any more.                 *)

(* Where a turn has yet to settle its reply. *)
Unsettled ==
  {"placed", "sent", "stream", "editing", "erring", "reporting", "suppressing",
   "discarding", "deleting", "outer"}

(* What the next steps of the start will come across. *)
Found(r) ==
  \/ r \in file /\ boot \in {"off", "login", "post"}
  \/ runs[r[1]] = "running" /\ boot \in {"off", "login"}
  \/ runs[r[1]] \in {"interrupted", "posted"}

(* Somebody will settle the reply, or it is lost. *)
Owned(r) ==
  \/ turn[r[1]].at \in Unsettled /\ r = Current(r[1])
  \/ \E mark \in Mark : Has(flight[r], mark)
  \/ Found(r)
  \/ r \in lost

(* No placeholder is left behind by the turns, the shutdown, a crash and the *)
(* start: what InterruptedIsTold promises can still come true.               *)
WaitingIsOwned == \A r \in Reply : shown[r] = "waiting" => Owned(r)

(* The shutdown has marked the reply, or it is known to be lost. *)
Noted(r) == r \in lost \/ Has(flight[r], "restarting")

(* A live turn has yet to settle its reply, and while it holds the disposer   *)
(* of the entry neither the drain has come nor was the reply final.          *)
LiveWaits ==
  \A r \in Reply : turn[r[1]].at # "dead" /\ shown[r] = "waiting" /\ ~Noted(r) =>
    /\ r = Current(r[1]) /\ turn[r[1]].at \in Unsettled
    /\ turn[r[1]].at \in Holding => turn[r[1]].held /\ ~Down /\ ~turn[r[1]].final

(* A shutdown that clears the file has counted the marks still on their way. *)
ClearedWaits ==
  stop = "clearing" =>
    \A r \in Reply : shown[r] = "waiting" /\ Has(flight[r], "restarting") => r \in lost

(* The clean-up has found the reply and its mark is on its way. *)
Cleaned(r) == boot = "cleaning" /\ r \in file \cap orphans /\ Has(flight[r], "restarted")

(* The replies of an earlier process are found again, and no operation that   *)
(* waits is about one of them.                                               *)
DeadWaits ==
  \A r \in Reply : turn[r[1]].at = "dead" =>
    Unnamed(r) /\ (shown[r] = "waiting" => r \in lost \/ Found(r) \/ Cleaned(r))

WaitInv == LiveWaits /\ ClearedWaits /\ DeadWaits

(* What is on its way after an append. *)
LEMMA HasAppended ==
  ASSUME NEW s \in Seq(Edit), NEW e \in Edit, NEW x
  PROVE  Has(Append(s, e), x) <=> Has(s, x) \/ x = e
<1>1. /\ Len(Append(s, e)) = Len(s) + 1 /\ Len(s) \in Nat /\ Append(s, e)[Len(s) + 1] = e
      /\ \A k \in 1..Len(s) : Append(s, e)[k] = s[k]
  BY EditAppended
<1>2. \A k \in 1..(Len(s) + 1) : k \in 1..Len(s) \/ k = Len(s) + 1
  BY <1>1
<1>3. \A k \in 1..Len(s) : k \in 1..(Len(s) + 1)
  BY <1>1
<1>4. Len(s) + 1 \in 1..(Len(s) + 1)
  BY <1>1
<1> QED
  BY <1>1, <1>2, <1>3, <1>4 DEF Has

(* A mark behind the first edit stays on its way. *)
LEMMA MarkDelivered ==
  ASSUME Shape, NEW r \in Reply, flight[r] # <<>>, NEW says,
         \/ says = <<>>
         \/ \E e \in {"text", "gone"} : says = <<e>>,
         flight' = [flight EXCEPT ![r] = Tail(@) \o says], NEW x \in Mark
  PROVE  /\ Has(flight[r], x) /\ flight[r][1] # x => Has(flight'[r], x)
         /\ Has(flight'[r], x) => Has(flight[r], x)
<1>1. /\ Len(flight[r]) \in Nat /\ Len(flight[r]) >= 1
      /\ says = <<>> => Len(flight'[r]) = Len(flight[r]) - 1
      /\ says # <<>> => Len(flight'[r]) = Len(flight[r]) /\ flight'[r][Len(flight[r])] \notin Mark
      /\ \A k \in 1..(Len(flight[r]) - 1) :
           flight'[r][k] = flight[r][k + 1] /\ k + 1 \in 1..Len(flight[r])
  BY FlightDelivered
<1>2. ASSUME NEW k \in 1..Len(flight[r]), flight[r][k] = x, flight[r][1] # x
      PROVE  Has(flight'[r], x)
  <2>1. k - 1 \in 1..(Len(flight[r]) - 1) /\ (k - 1) + 1 = k
    BY <1>1, <1>2
  <2>2. flight'[r][k - 1] = x
    BY <1>1, <1>2, <2>1
  <2>3. k - 1 \in 1..Len(flight'[r])
    <3>1. Len(flight'[r]) \in {Len(flight[r]) - 1, Len(flight[r])}
      BY <1>1
    <3> QED
      BY <1>1, <2>1, <3>1
  <2> QED
    BY <2>2, <2>3 DEF Has
<1>3. ASSUME NEW k \in 1..Len(flight'[r]), flight'[r][k] = x
      PROVE  Has(flight[r], x)
  <2>1. k \in 1..(Len(flight[r]) - 1)
    BY <1>1, <1>3
  <2> QED
    BY <1>1, <1>3, <2>1 DEF Has
<1> QED
  BY <1>2, <1>3 DEF Has

(* What a step of a turn says in the channel, and what it leaves to others. *)
LEMMA TurnSays ==
  ASSUME BasicInv, NEW m \in Msg, Turn(m) \/ Arrive(m)
  PROVE  /\ lost \subseteq lost' /\ \A n \in Msg : n # m => runs'[n] = runs[n]
         /\ \A r \in Reply : r[1] # m =>
              flight'[r] = flight[r] /\ shown'[r] = shown[r] /\ (Unnamed(r) => Unnamed(r)')
         /\ \A r \in Reply :
              \/ flight'[r] = flight[r]
              \/ \E e \in Edit : flight'[r] = Append(flight[r], e) /\ (e = "restarting" => r \in lost')
         /\ \A r \in Reply : shown'[r] = "waiting" =>
              \/ shown[r] = "waiting"
              \/ Unborn(r) /\ r = Current(m)' /\ turn'[m].at \in {"placed", "sent"}
<1> DEFINE c == Current(m)
<1>1. Shape /\ c \in Reply /\ c[1] = m /\ turn[m].depth \in Nat
  BY TurnFields DEF BasicInv, Current
<1>2. lost \subseteq lost' /\ \A n \in Msg : n # m => runs'[n] = runs[n]
  <2>1. CASE Begin(m) \/ Complete(m) \/ Arrive(m) \/ FollowUp(m) \/ Send(m) \/ Close(m)
    BY <1>1, <2>1 DEF Begin, Complete, Arrive, FollowUp, Send, Close, history, Shape
  <2>2. CASE Register(m) \/ Answer(m) \/ RuntimeError(m) \/ Suppress(m) \/ Throw(m) \/ ThrowEarly(m)
    BY <1>1, <2>2 DEF Register, Answer, RuntimeError, Suppress, Throw, ThrowEarly, OwnStep, history, Shape
  <2> QED
    BY <2>1, <2>2 DEF Turn
<1>3. \/ UNCHANGED flight
      \/ \E e \in Edit : flight' = [flight EXCEPT ![c] = Append(@, e)] /\ (e = "restarting" => c \in lost')
  <2>1. "text" \in Edit /\ "gone" \in Edit /\ "restarting" \in Edit
    BY DEF Edit, Mark
  <2>2. CASE Begin(m) \/ Complete(m) \/ Arrive(m) \/ FollowUp(m)
    BY <2>2 DEF Begin, Complete, Arrive, FollowUp, discord
  <2>3. CASE Register(m) \/ Suppress(m) \/ ThrowEarly(m) \/ Close(m)
    BY <2>1, <2>3 DEF Register, Suppress, ThrowEarly, Asks, Close
  <2>4. CASE Answer(m) \/ RuntimeError(m) \/ Throw(m) \/ Send(m)
    BY <2>1, <2>4 DEF Answer, RuntimeError, Throw, Send, Thrown, Asks
  <2> QED
    BY <2>2, <2>3, <2>4 DEF Turn
<1>4. \A r \in Reply :
        \/ flight'[r] = flight[r]
        \/ r = c /\ \E e \in Edit : flight'[r] = Append(flight[r], e) /\ (e = "restarting" => r \in lost')
  <2>1. ASSUME NEW e \in Edit, flight' = [flight EXCEPT ![c] = Append(@, e)], e = "restarting" => c \in lost',
               NEW r \in Reply
        PROVE  \/ flight'[r] = flight[r]
               \/ r = c /\ \E x \in Edit : flight'[r] = Append(flight[r], x) /\ (x = "restarting" => r \in lost')
    BY <1>1, <2>1, FlightAppended
  <2> QED
    BY <1>3, <2>1
<1>5. ASSUME NEW x, x[1] = m, Unborn(x), shown' = [shown EXCEPT ![x] = "waiting"],
             x = Current(m)', turn'[m].at \in {"placed", "sent"}, NEW r \in Reply
      PROVE  /\ r[1] # m => shown'[r] = shown[r]
             /\ shown'[r] = "waiting" =>
                  \/ shown[r] = "waiting"
                  \/ Unborn(r) /\ r = Current(m)' /\ turn'[m].at \in {"placed", "sent"}
  <2>1. CASE r = x
    BY <1>5, <2>1
  <2>2. CASE r # x
    BY <1>1, <1>5, <2>2 DEF Shape
  <2> QED
    BY <2>1, <2>2
<1>6. \A r \in Reply : /\ r[1] # m => shown'[r] = shown[r]
                       /\ shown'[r] = "waiting" =>
                            \/ shown[r] = "waiting"
                            \/ Unborn(r) /\ r = Current(m)' /\ turn'[m].at \in {"placed", "sent"}
  <2>1. CASE \/ Register(m) \/ Answer(m) \/ RuntimeError(m) \/ Suppress(m) \/ Throw(m)
             \/ ThrowEarly(m) \/ FollowUp(m) \/ Close(m) \/ Arrive(m)
    <3>1. UNCHANGED shown
      BY <2>1 DEF Register, Answer, RuntimeError, Suppress, Throw, ThrowEarly, FollowUp, Close,
         Arrive, OwnStep, discord
    <3> QED
      BY <3>1
  <2>2. CASE Begin(m)
    <3>1. CASE UNCHANGED shown
      BY <3>1
    <3>2. CASE shown' = [shown EXCEPT ![<<m, 0>>] = "waiting"]
               /\ turn' = [turn EXCEPT ![m].at = "placed", ![m].batch = Batch(m)]
      <4>1. turn[m].depth = 0 /\ turn[m] \in TurnState
        BY <1>1, <2>2 DEF Begin, BasicInv, Depths, Shape
      <4>2. Current(m)' = <<m, 0>> /\ turn'[m].at = "placed"
        BY <1>1, <3>2, <4>1 DEF Current, Shape, TurnState
      <4>3. Unborn(<<m, 0>>)
        BY <2>2 DEF Begin, Unborn
      <4> QED
        BY <1>5, <3>2, <4>2, <4>3
    <3> QED
      BY <2>2, <3>1, <3>2 DEF Begin
  <2>3. CASE Send(m)
    <3>1. CASE UNCHANGED shown
      BY <3>1
    <3>2. CASE /\ turn' = [turn EXCEPT ![m].at = "sent", ![m].depth = @ + 1]
               /\ shown' = [shown EXCEPT ![<<m, turn[m].depth + 1>>] = "waiting"]
      <4>1. Current(m)' = <<m, turn[m].depth + 1>> /\ turn'[m].at = "sent"
        BY <1>1, <3>2 DEF Current, Shape, TurnState
      <4>2. Unborn(<<m, turn[m].depth + 1>>)
        BY <1>1, <2>3 DEF Send, Unborn, Alive
      <4> QED
        BY <1>5, <3>2, <4>1, <4>2
    <3> QED
      BY <2>3, <3>1, <3>2 DEF Send
  <2>4. CASE Complete(m)
    BY <2>4, <1>1, SettledShown DEF Complete, Settled
  <2> QED
    BY <2>1, <2>2, <2>3, <2>4 DEF Turn
<1>7. \A r \in Reply : r[1] # m /\ Unnamed(r) => Unnamed(r)'
  <2>1. CASE UNCHANGED queue
    BY <2>1 DEF Unnamed
  <2>2. CASE Dispose(m)
    BY <1>1, <2>2, DisposeNames
  <2>3. CASE queue' = Append(queue, Op("add", c))
    <3>1. Op("add", c) \in Operation /\ queue \in Seq(Operation)
      BY <1>1 DEF Operation, Shape
    <3> QED
      BY <1>1, <2>3, <3>1, OperationAppended, OpsDistinct DEF Unnamed
  <2>4. CASE Register(m) \/ FollowUp(m) \/ Close(m)
    BY <2>1, <2>2, <2>3, <2>4 DEF Register, FollowUp, Close
  <2> QED
    BY <2>1, <2>4, HeldKept DEF Turn
<1> QED
  BY <1>1, <1>2, <1>4, <1>6, <1>7

(* What was noted of a reply stays noted when more is asked for. *)
LEMMA NotedStays ==
  ASSUME BasicInv, NEW r \in Reply, lost \subseteq lost',
         \/ flight'[r] = flight[r]
         \/ \E e \in Edit : flight'[r] = Append(flight[r], e)
  PROVE  /\ Noted(r) => Noted(r)'
         /\ \A x : Has(flight[r], x) => Has(flight'[r], x)
<1>1. flight[r] \in Seq(Edit)
  BY DEF BasicInv, Shape
<1>2. \A x : Has(flight[r], x) => Has(flight'[r], x)
  BY <1>1, HasAppended DEF Has
<1> QED
  BY <1>2 DEF Noted

(* A step of a turn: its own reply, if it still waits, is at another place    *)
(* where the turn has yet to settle it.                                      *)
LEMMA TurnLiveWaits ==
  ASSUME BasicInv, LiveWaits, NEW m \in Msg, Turn(m) \/ Arrive(m)
  PROVE  LiveWaits'
<1>1. /\ Shape /\ OthersStay(m) /\ turn[m].at # "dead" /\ UNCHANGED stop /\ Down' = Down
      /\ turn[m] \in TurnState
  BY TurnStep DEF BasicInv, Down, Shape
<1> SUFFICES ASSUME NEW r \in Reply, shown'[r] = "waiting", ~Noted(r)'
             PROVE  turn'[r[1]].at # "dead" =>
                      /\ r = Current(r[1])' /\ turn'[r[1]].at \in Unsettled
                      /\ turn'[r[1]].at \in Holding =>
                           turn'[r[1]].held /\ ~Down' /\ ~turn'[r[1]].final
  BY DEF LiveWaits
<1>2. ~Noted(r) /\ r[1] \in Msg
  BY TurnSays, NotedStays, ReplyParts
<1>3. CASE r[1] # m
  BY <1>1, <1>2, <1>3, TurnSays DEF LiveWaits, OthersStay, Current
<1>4. CASE r[1] = m /\ shown[r] # "waiting"
  BY <1>4, TurnSays DEF Unsettled, Holding
<1>5. CASE r[1] = m /\ shown[r] = "waiting"
  <2>1. /\ r = Current(m) /\ turn[m].at \in Unsettled
        /\ turn[m].at \in Holding => turn[m].held /\ ~Down /\ ~turn[m].final
    BY <1>1, <1>2, <1>5 DEF LiveWaits
  <2>2. CASE Register(m)
    <3>1. ~Down
      <4> SUFFICES ASSUME Down PROVE FALSE
        OBVIOUS
      <4>1. flight' = [flight EXCEPT ![r] = Append(@, "restarting")]
        BY <2>1, <2>2 DEF Register
      <4>2. "restarting" \in Edit /\ flight[r] \in Seq(Edit)
        BY <1>1 DEF Edit, Mark, Shape
      <4>3. flight'[r] = Append(flight[r], "restarting")
        BY <4>1, <4>2, <1>1, FlightAppended
      <4> QED
        BY <4>2, <4>3, HasAppended DEF Noted
    <3>2. turn' = [turn EXCEPT ![m].at = "stream", ![m].final = FALSE, ![m].held = TRUE]
      BY <2>2, <3>1 DEF Register
    <3>3. turn'[m].at = "stream" /\ turn'[m].depth = turn[m].depth /\ turn'[m].held /\ ~turn'[m].final
      BY <1>1, <3>2 DEF Shape, TurnState
    <3> QED
      BY <1>1, <1>5, <2>1, <3>1, <3>3 DEF Current, Unsettled
  <2>3. ASSUME NEW at \in Unsettled \ {"placed", "sent"}, turn' = [turn EXCEPT ![m].at = at],
               turn[m].at \in Holding \/ at = "outer"
        PROVE  /\ r = Current(m)' /\ turn'[m].at \in Unsettled
               /\ turn'[m].at \in Holding => turn'[m].held /\ ~Down' /\ ~turn'[m].final
    <3>1. at \in Places
      BY DEF Unsettled, Places
    <3>2. /\ turn'[m].at = at /\ turn'[m].depth = turn[m].depth /\ turn'[m].final = turn[m].final
          /\ turn'[m].held = turn[m].held
      BY <1>1, <2>3, <3>1, AtSet
    <3> QED
      BY <1>1, <2>1, <2>3, <3>2 DEF Current, Holding
  <2>4. CASE Answer(m) \/ RuntimeError(m) \/ Suppress(m) \/ Throw(m)
    <3>1. turn[m].at = "stream" /\ ~Down
      BY <2>1, <2>4 DEF Answer, RuntimeError, Suppress, Throw, Holding
    <3>2. \E at \in Unsettled \ {"placed", "sent"} : turn' = [turn EXCEPT ![m].at = at]
      BY <2>4, <3>1 DEF Answer, RuntimeError, Suppress, Throw, Thrown, Asks, Unsettled
    <3> QED
      BY <1>5, <2>3, <3>1, <3>2 DEF Holding
  <2>5. CASE ThrowEarly(m)
    <3>1. ~Down
      BY <2>1, <2>5 DEF ThrowEarly, Noted
    <3>2. turn' = [turn EXCEPT ![m].at = "outer"] /\ "outer" \in Unsettled \ {"placed", "sent"}
      BY <2>5, <3>1 DEF ThrowEarly, Asks, Unsettled
    <3> QED
      BY <1>5, <2>3, <3>2
  <2>6. ~(\/ Begin(m) \/ FollowUp(m) \/ Send(m) \/ Close(m) \/ Complete(m) \/ Arrive(m))
    BY <2>1 DEF Begin, FollowUp, Send, Close, Complete, Arrive, Unsettled
  <2> QED
    BY <2>2, <2>4, <2>5, <2>6 DEF Turn
<1> QED
  BY <1>3, <1>4, <1>5

(* A step of a turn: the replies of all others keep their owners. *)
LEMMA TurnWaits ==
  ASSUME BasicInv, WaitInv, NEW m \in Msg, Turn(m) \/ Arrive(m)
  PROVE  WaitInv'
<1>1. /\ Shape /\ OthersStay(m) /\ turn[m].at # "dead" /\ turn'[m].at # "dead"
      /\ UNCHANGED <<file, stop, boot, orphans>>
  BY TurnStep DEF BasicInv
<1>2. LiveWaits'
  BY TurnLiveWaits DEF WaitInv
<1>3. ClearedWaits'
  <2> SUFFICES ASSUME stop = "clearing", NEW r \in Reply, shown'[r] = "waiting", Has(flight'[r], "restarting")
               PROVE  r \in lost'
    BY <1>1 DEF ClearedWaits
  <2>1. flight[r] \in Seq(Edit)
    BY <1>1 DEF Shape
  <2>2. Has(flight[r], "restarting") \/ r \in lost'
    <3>1. CASE flight'[r] = flight[r]
      BY <3>1 DEF Has
    <3>2. ASSUME NEW e \in Edit, flight'[r] = Append(flight[r], e), e = "restarting" => r \in lost'
          PROVE  Has(flight[r], "restarting") \/ r \in lost'
      BY <2>1, <3>2, HasAppended
    <3> QED
      BY <3>1, <3>2, TurnSays
  <2>3. CASE shown[r] = "waiting"
    BY <2>2, <2>3, TurnSays DEF WaitInv, ClearedWaits
  <2>4. CASE shown[r] # "waiting"
    <3>1. flight[r] = <<>>
      BY <2>4, TurnSays DEF BasicInv, UnbornIsNowhere
    <3> QED
      BY <2>2, <3>1 DEF Has
  <2> QED
    BY <2>3, <2>4
<1>4. DeadWaits'
  <2> SUFFICES ASSUME NEW r \in Reply, turn'[r[1]].at = "dead"
               PROVE  Unnamed(r)' /\ (shown'[r] = "waiting" => r \in lost' \/ Found(r)' \/ Cleaned(r)')
    BY DEF DeadWaits
  <2>1. r[1] \in Msg /\ r[1] # m /\ turn[r[1]].at = "dead"
    BY <1>1, ReplyParts DEF OthersStay
  <2>2. Unnamed(r) /\ (shown[r] = "waiting" => r \in lost \/ Found(r) \/ Cleaned(r))
    BY <2>1 DEF WaitInv, DeadWaits
  <2>3. /\ lost \subseteq lost' /\ runs'[r[1]] = runs[r[1]] /\ flight'[r] = flight[r] /\ shown'[r] = shown[r]
        /\ Unnamed(r)'
    BY <2>1, <2>2, TurnSays
  <2>4. (Found(r) => Found(r)') /\ (Cleaned(r) => Cleaned(r)')
    BY <1>1, <2>3 DEF Found, Cleaned
  <2> QED
    BY <2>2, <2>3, <2>4
<1> QED
  BY <1>2, <1>3, <1>4 DEF WaitInv

(* Discord applies an edit: the reply waits no more.  It refuses one: the     *)
(* turn tries another, or the reply is lost.                                 *)
LEMMA DeliverWaits ==
  ASSUME BasicInv, WaitInv, NEW r \in Reply, Deliver(r)
  PROVE  WaitInv'
<1> DEFINE m == r[1]
<1>0. /\ Shape /\ Down' = Down /\ m \in Msg /\ flight[r] \in Seq(Edit) /\ flight[r] # <<>>
      /\ UNCHANGED <<file, stop, boot, orphans, runs, queue>> /\ flight[r][1] \in Edit
  BY DeliverCases, ReplyParts, EditTaken DEF BasicInv, Down, still
<1>1. PICK ok \in BOOLEAN :
        /\ shown' = IF ok THEN [shown EXCEPT ![r] = flight[r][1]] ELSE shown
        /\ IF flight[r][1] \in Mark
           THEN /\ DeliverMark(r)
                /\ lost' = IF ok THEN lost \ {r} ELSE lost \cup {r}
           ELSE /\ DeliverOwn(r, ok) /\ turn[m].at \in Awaiting /\ r = Current(m)
                /\ lost' = IF ok THEN lost \ {r}
                           ELSE IF turn[m].at \in {"reporting", "suppressing", "discarding",
                                                   "deleting", "outer"}
                           THEN lost \cup {r} ELSE lost
  BY DeliverCases
<1>2. PICK says : /\ flight' = [flight EXCEPT ![r] = Tail(@) \o says]
                  /\ \/ says = <<>>
                     \/ \E e \in {"text", "gone"} : says = <<e>>
  <2>1. CASE flight[r][1] \in Mark
    BY <1>1, <2>1 DEF DeliverMark
  <2>2. CASE flight[r][1] \notin Mark
    BY <1>0, <1>1, <2>2, AfterPlaces DEF DeliverOwn
  <2> QED
    BY <2>1, <2>2
<1>3. \A x \in Reply : x # r =>
        flight'[x] = flight[x] /\ shown'[x] = shown[x] /\ (x \in lost' <=> x \in lost)
  BY <1>0, <1>1, <1>2, FlightDelivered DEF Shape
<1>4. ASSUME shown'[r] = "waiting"
      PROVE  /\ ~ok /\ shown[r] = "waiting"
             /\ r \in lost => r \in lost'
             /\ flight[r][1] \in Mark => r \in lost'
             /\ Has(flight'[r], "restarting") => Has(flight[r], "restarting")
             /\ Has(flight[r], "restarting") => Has(flight'[r], "restarting") \/ r \in lost'
  <2>1. ~ok /\ shown[r] = "waiting"
    BY <1>0, <1>1, <1>4 DEF Shape, Edit, Mark
  <2>2. (r \in lost => r \in lost') /\ (flight[r][1] \in Mark => r \in lost')
    BY <1>1, <2>1
  <2>3. "restarting" \in Mark
    BY DEF Mark
  <2> QED
    BY <1>0, <1>2, <2>1, <2>2, <2>3, MarkDelivered
<1>5. \A n \in Msg : turn'[n].at = "dead" <=> turn[n].at = "dead"
  <2>1. CASE UNCHANGED turn
    BY <2>1
  <2>2. CASE DeliverOwn(r, ok) /\ turn[m].at \in Awaiting
    <3>1. After(m, ok) \in Places \ {"dead"} /\ turn[m].final \in BOOLEAN
      BY <1>0, <2>2, AfterPlaces, TurnFields
    <3>2. turn' = [turn EXCEPT ![m].at = After(m, ok), ![m].final = turn[m].final \/ ok]
      BY <2>2 DEF DeliverOwn
    <3>3. OthersStay(m) /\ turn'[m].at = After(m, ok)
      BY <1>0, <3>1, <3>2, FinalSet
    <3> QED
      BY <2>2, <3>1, <3>3 DEF OthersStay, Awaiting
  <2> QED
    BY <1>1, <2>1, <2>2 DEF DeliverMark
<1>6. LiveWaits'
  <2> SUFFICES ASSUME NEW x \in Reply, turn'[x[1]].at # "dead", shown'[x] = "waiting", ~Noted(x)'
               PROVE  /\ x = Current(x[1])' /\ turn'[x[1]].at \in Unsettled
                      /\ turn'[x[1]].at \in Holding =>
                           turn'[x[1]].held /\ ~Down' /\ ~turn'[x[1]].final
    BY DEF LiveWaits
  <2>1. /\ x[1] \in Msg /\ turn[x[1]].at # "dead" /\ shown[x] = "waiting" /\ ~Noted(x)
        /\ x = r => flight[r][1] \notin Mark /\ r \notin lost' /\ ~ok
    BY <1>3, <1>4, <1>5, ReplyParts DEF Noted
  <2>2. /\ x = Current(x[1]) /\ turn[x[1]].at \in Unsettled
        /\ turn[x[1]].at \in Holding => turn[x[1]].held /\ ~Down /\ ~turn[x[1]].final
    BY <2>1 DEF WaitInv, LiveWaits
  <2>3. CASE turn'[x[1]] = turn[x[1]]
    BY <1>0, <2>2, <2>3 DEF Current
  <2>4. CASE turn'[x[1]] # turn[x[1]]
    <3>1. /\ flight[r][1] \notin Mark /\ DeliverOwn(r, ok) /\ turn[m].at \in Awaiting /\ r = Current(m)
      BY <1>1, <2>4 DEF DeliverMark
    <3>2. x[1] = m
      BY <1>0, <2>1, <2>4, <3>1 DEF DeliverOwn, Shape
    <3>3. x = r
      BY <2>2, <3>1, <3>2
    <3>4. ~ok /\ turn[m].at \in {"editing", "erring"}
      BY <1>1, <2>1, <3>1, <3>3 DEF Awaiting
    <3>5. turn[m].held /\ ~Down /\ ~turn[m].final
      BY <2>2, <3>3, <3>4 DEF Holding
    <3>6. After(m, ok) \in {"erring", "deleting"}
      BY <3>4, <3>5 DEF After
    <3>7. turn' = [turn EXCEPT ![m].at = After(m, ok), ![m].final = FALSE]
      <4>1. turn' = [turn EXCEPT ![m].at = After(m, ok), ![m].final = turn[m].final \/ ok]
        BY <3>1 DEF DeliverOwn
      <4>2. (turn[m].final \/ ok) = FALSE
        BY <3>4, <3>5
      <4> QED
        BY <4>1, <4>2
    <3>8. After(m, ok) \in Places
      BY <3>6 DEF Places
    <3>9. /\ turn'[m].at = After(m, ok) /\ turn'[m].depth = turn[m].depth /\ turn'[m].final = FALSE
          /\ turn'[m].held = turn[m].held
      BY <1>0, <3>7, <3>8, FinalSet
    <3> QED
      BY <1>0, <3>1, <3>2, <3>3, <3>5, <3>6, <3>9 DEF Current, Unsettled
  <2> QED
    BY <2>3, <2>4
<1>7. ClearedWaits'
  BY <1>0, <1>3, <1>4 DEF WaitInv, ClearedWaits
<1>8. DeadWaits'
  <2> SUFFICES ASSUME NEW x \in Reply, turn'[x[1]].at = "dead"
               PROVE  Unnamed(x)' /\ (shown'[x] = "waiting" => x \in lost' \/ Found(x)' \/ Cleaned(x)')
    BY DEF DeadWaits
  <2>1. turn[x[1]].at = "dead" /\ x[1] \in Msg
    BY <1>5, ReplyParts
  <2>2. Unnamed(x)'
    BY <1>0, <2>1 DEF WaitInv, DeadWaits, Unnamed
  <2>3. CASE x = r
    <3>1. flight[r][1] \in Mark
      BY <1>1, <2>1, <2>3 DEF Awaiting
    <3> QED
      BY <1>4, <2>2, <2>3, <3>1
  <2>4. CASE x # r
    <3>1. shown[x] = "waiting" => x \in lost \/ Found(x) \/ Cleaned(x)
      BY <2>1 DEF WaitInv, DeadWaits
    <3>2. (Found(x) => Found(x)') /\ (Cleaned(x) => Cleaned(x)')
      BY <1>0, <1>3, <2>4 DEF Found, Cleaned
    <3> QED
      BY <1>3, <2>2, <2>4, <3>1, <3>2
  <2> QED
    BY <2>3, <2>4
<1> QED
  BY <1>6, <1>7, <1>8 DEF WaitInv

(* A step outside the turns and the channel's answers: marks may be added,    *)
(* replies may be lost.                                                      *)
LEMMA QuietWaits ==
  ASSUME BasicInv, WaitInv, UNCHANGED <<turn, shown>>, Down' = Down, lost \subseteq lost',
         \A r \in Reply : \/ flight'[r] = flight[r]
                          \/ flight'[r] = Append(flight[r], "restarted")
  PROVE  /\ LiveWaits'
         /\ \A r \in Reply : Has(flight'[r], "restarting") <=> Has(flight[r], "restarting")
<1>1. "restarted" \in Edit
  BY DEF Edit, Mark
<1>2. \A r \in Reply : Noted(r) => Noted(r)'
  BY <1>1, NotedStays
<1>3. LiveWaits'
  BY <1>2 DEF WaitInv, LiveWaits, Current
<1>4. ASSUME NEW r \in Reply PROVE Has(flight'[r], "restarting") <=> Has(flight[r], "restarting")
  <2>1. CASE flight'[r] = flight[r]
    BY <2>1 DEF Has
  <2>2. CASE flight'[r] = Append(flight[r], "restarted")
    BY <1>1, <2>2, HasAppended DEF BasicInv, Shape
  <2> QED
    BY <2>1, <2>2
<1> QED
  BY <1>3, <1>4

(* The operations of the file. *)
LEMMA OperationWaits ==
  ASSUME BasicInv, WaitInv, Persist \/ Unlink \/ Clear
  PROVE  WaitInv'
<1>1. Shape /\ UNCHANGED <<turn, shown, flight, runs>> /\ Down' = Down /\ lost \subseteq lost'
  BY DEF BasicInv, Persist, Unlink, Clear, discord, Down
<1>2. /\ LiveWaits'
      /\ \A r \in Reply : Has(flight'[r], "restarting") <=> Has(flight[r], "restarting")
  BY <1>1, QuietWaits
<1>3. ClearedWaits'
  <2>1. CASE Clear
    BY <1>1, <2>1 DEF Clear, ClearedWaits, Unmarked
  <2>2. CASE Persist \/ Unlink
    BY <1>1, <2>2 DEF Persist, Unlink, WaitInv, ClearedWaits
  <2> QED
    BY <2>1, <2>2
<1>4. ASSUME NEW r \in Reply, turn'[r[1]].at = "dead"
      PROVE  Unnamed(r)' /\ (shown'[r] = "waiting" => r \in lost' \/ Found(r)' \/ Cleaned(r)')
  <2>1. Unnamed(r) /\ (shown[r] = "waiting" => r \in lost \/ Found(r) \/ Cleaned(r)) /\ turn[r[1]].at = "dead"
    BY <1>1, <1>4 DEF WaitInv, DeadWaits
  <2>2. CASE Persist
    <3>1. /\ queue # <<>> /\ queue' = Tail(queue) /\ file' = Result(Head(queue))
          /\ UNCHANGED <<boot, orphans>>
          /\ Head(queue).op = "clear" => \A x \in file : turn[x[1]].at = "dead" => x \in lost'
      BY <2>2 DEF Persist, start
    <3>2. Head(queue) \in Operation /\ Head(queue) = queue[1] /\ 1 \in 1..Len(queue)
      BY <3>1, OperationTaken DEF BasicInv, Shape
    <3>3. Unnamed(r)'
      BY <2>1, <3>1, OperationDone
    <3>4. r \in file /\ r \notin file' => r \in lost'
      <4>1. ASSUME r \in file, r \notin file' PROVE Removes(Head(queue), r)
        BY <1>1, <3>1, <3>2, <4>1, ResultOfReplies
      <4>2. Head(queue) # Op("remove", r) /\ Head(queue) # Op("add", r)
        BY <2>1, <3>2 DEF Unnamed
      <4>3. Removes(Head(queue), r) => Head(queue).op = "clear"
        <5> SUFFICES ASSUME Head(queue).op = "remove", r \in Head(queue).of PROVE FALSE
          BY DEF Removes
        <5>1. ASSUME NEW s \in Reply, Head(queue) = Op("remove", s) PROVE FALSE
          BY <4>2, <5>1 DEF Op
        <5>2. Head(queue).op = "remove" => \E s \in Reply : Head(queue) = Op("remove", s)
          BY <3>2 DEF Operation, Op
        <5> QED
          BY <5>1, <5>2
      <4> QED
        BY <2>1, <3>1, <4>1, <4>3
    <3> QED
      BY <1>1, <2>1, <3>1, <3>3, <3>4 DEF Found, Cleaned
  <2>3. CASE Clear
    <3>1. queue' = Append(queue, Op("clear", <<>>)) /\ UNCHANGED <<file, boot, orphans>>
      BY <2>3 DEF Clear, start
    <3>2. Op("clear", <<>>) \in Operation /\ queue \in Seq(Operation)
      BY <1>1 DEF Operation, Shape
    <3>3. Unnamed(r)'
      BY <2>1, <3>1, <3>2, OperationAppended, OpsDistinct DEF Unnamed
    <3> QED
      BY <1>1, <2>1, <3>1, <3>3 DEF Found, Cleaned
  <2>4. CASE Unlink
    <3>1. boot = "cleaning" /\ lost' = lost \cup Unmarked(orphans, "restarted")
      BY <2>4 DEF Unlink
    <3>2. Unnamed(r)'
      <4>1. CASE UNCHANGED queue
        BY <2>1, <4>1 DEF Unnamed
      <4>2. CASE queue # <<>> /\ file' = Result(Head(queue)) /\ queue' = Tail(queue)
        BY <2>1, <4>2, OperationDone
      <4> QED
        BY <2>4, <4>1, <4>2 DEF Unlink
    <3>3. Cleaned(r) => r \in lost'
      BY <3>1 DEF Cleaned, Unmarked
    <3>4. Found(r) => Found(r)'
      BY <1>1, <3>1 DEF Found
    <3> QED
      BY <1>1, <2>1, <3>2, <3>3, <3>4
  <2> QED
    BY <2>2, <2>3, <2>4
<1> QED
  BY <1>2, <1>3, <1>4 DEF WaitInv, DeadWaits

(* The start: what it finds it marks or posts. *)
LEMMA StartWaits ==
  ASSUME BasicInv, WaitInv,
         Load \/ Boot \/ Sweep \/ (\E m \in Msg : Post(m)) \/ Stop \/ UNCHANGED vars
  PROVE  WaitInv'
<1>0. Shape /\ "restarted" \in Mark /\ "restarted" \in Edit
  BY DEF BasicInv, Mark, Edit
<1>1. /\ UNCHANGED <<turn, shown, queue, file, lost>> /\ Down' = Down
      /\ stop' = "clearing" => stop = "clearing"
  BY DEF Load, Boot, Sweep, Post, Stop, vars, discord, disk, history, Down
<1>2. \A r \in Reply : \/ flight'[r] = flight[r]
                       \/ flight'[r] = Append(flight[r], "restarted")
  <2>1. CASE Load
    <3>1. flight' = Marked(file, "restarted")
      BY <2>1 DEF Load
    <3>2. \A r \in Reply :
            flight'[r] = IF r \in file THEN Append(flight[r], "restarted") ELSE flight[r]
      BY <1>0, <3>1, MarkedFlight
    <3> QED
      BY <3>2
  <2>2. CASE Boot \/ Sweep \/ (\E m \in Msg : Post(m)) \/ Stop \/ UNCHANGED vars
    BY <2>2 DEF Boot, Sweep, Post, Stop, vars, discord
  <2> QED
    BY <2>1, <2>2
<1>3. /\ LiveWaits'
      /\ \A r \in Reply : Has(flight'[r], "restarting") <=> Has(flight[r], "restarting")
  BY <1>1, <1>2, QuietWaits
<1>4. ClearedWaits'
  BY <1>1, <1>3 DEF WaitInv, ClearedWaits
<1>5. ASSUME NEW r \in Reply, turn'[r[1]].at = "dead"
      PROVE  Unnamed(r)' /\ (shown'[r] = "waiting" => r \in lost' \/ Found(r)' \/ Cleaned(r)')
  <2>1. /\ Unnamed(r) /\ (shown[r] = "waiting" => r \in lost \/ Found(r) \/ Cleaned(r))
        /\ turn[r[1]].at = "dead" /\ r[1] \in Msg /\ Unnamed(r)'
    BY <1>1, <1>5, ReplyParts DEF WaitInv, DeadWaits, Unnamed
  <2>2. CASE Load
    <3>1. /\ boot = "post" /\ orphans' = file /\ boot' = (IF file = {} THEN "up" ELSE "cleaning")
          /\ flight' = Marked(file, "restarted") /\ UNCHANGED runs
      BY <2>2 DEF Load
    <3>2. ASSUME r \in file PROVE Cleaned(r)'
      <4>1. flight'[r] = Append(flight[r], "restarted") /\ flight[r] \in Seq(Edit)
        BY <1>0, <3>1, <3>2, MarkedFlight DEF Shape
      <4>2. Has(flight'[r], "restarted")
        BY <1>0, <4>1, HasAppended
      <4> QED
        BY <1>1, <3>1, <3>2, <4>2 DEF Cleaned
    <3>3. Found(r) => r \in file \/ Found(r)'
      BY <3>1 DEF Found
    <3>4. ~Cleaned(r)
      BY <3>1 DEF Cleaned
    <3> QED
      BY <1>1, <2>1, <3>2, <3>3, <3>4
  <2>3. CASE Boot
    BY <1>1, <2>1, <2>3 DEF Boot, Found, Cleaned
  <2>4. CASE Sweep
    <3>1. boot = "login" /\ boot' = "post" /\ ~Alive(r[1])
      BY <2>1, <2>4 DEF Sweep, Alive
    <3>2. runs'[r[1]] = IF runs[r[1]] = "running" THEN "interrupted" ELSE runs[r[1]]
      BY <2>1, <2>4, <3>1 DEF Sweep
    <3>3. Found(r) => Found(r)'
      BY <1>1, <3>1, <3>2 DEF Found
    <3> QED
      BY <1>1, <2>1, <3>1, <3>3 DEF Cleaned
  <2>5. ASSUME NEW m \in Msg, Post(m)
        PROVE  shown'[r] = "waiting" => r \in lost' \/ Found(r)' \/ Cleaned(r)'
    <3>1. boot = "post" /\ UNCHANGED boot /\ (runs' = runs \/ runs' = [runs EXCEPT ![m] = "posted"])
      BY <2>5 DEF Post
    <3>2. Found(r) => Found(r)'
      BY <1>0, <1>1, <2>1, <3>1 DEF Found, Shape
    <3> QED
      BY <1>1, <2>1, <3>1, <3>2 DEF Cleaned
  <2>6. CASE Stop \/ UNCHANGED vars
    <3>1. UNCHANGED <<boot, orphans, runs, flight>>
      BY <2>6 DEF Stop, vars, start, discord
    <3> QED
      BY <1>1, <2>1, <3>1 DEF Found, Cleaned
  <2> QED
    BY <2>1, <2>2, <2>3, <2>4, <2>5, <2>6
<1> QED
  BY <1>3, <1>4, <1>5 DEF WaitInv, DeadWaits

(* The drain marks every registered reply. *)
LEMMA DrainWaits ==
  ASSUME BasicInv, WaitInv, Drain
  PROVE  WaitInv'
<1>1. /\ flight' = Marked(registry, "restarting") /\ "restarting" \in Mark /\ Shape
      /\ stop = "stopping" /\ stop' = "drained" /\ "restarting" \in Edit
      /\ UNCHANGED <<turn, shown, queue, file, runs, boot, orphans, lost>>
  BY DEF Drain, Mark, Edit, BasicInv, disk, start, history
<1>2. \A r \in Reply : /\ flight[r] \in Seq(Edit)
                       /\ flight'[r] = IF r \in registry THEN Append(flight[r], "restarting") ELSE flight[r]
  BY <1>1, MarkedFlight DEF Shape
<1>3. \A r \in Reply : /\ Noted(r) => Noted(r)'
                       /\ \A x : Has(flight[r], x) => Has(flight'[r], x)
  BY <1>1, <1>2, NotedStays
<1>4. ASSUME NEW r \in Reply, turn'[r[1]].at # "dead", shown'[r] = "waiting", ~Noted(r)'
      PROVE  r = Current(r[1])' /\ turn'[r[1]].at \in Unsettled /\ turn'[r[1]].at \notin Holding
  <2>1. /\ r = Current(r[1]) /\ turn[r[1]].at \in Unsettled /\ r[1] \in Msg
        /\ turn[r[1]].at \in Holding => turn[r[1]].held
    BY <1>1, <1>3, <1>4, ReplyParts DEF WaitInv, LiveWaits
  <2>2. r \notin registry
    <3> SUFFICES ASSUME r \in registry PROVE FALSE
      OBVIOUS
    <3>1. flight'[r] = Append(flight[r], "restarting")
      BY <1>2
    <3> QED
      BY <1>1, <1>2, <1>4, <3>1, HasAppended DEF Noted
  <2>3. ~turn[r[1]].held
    BY <1>1, <2>1, <2>2 DEF BasicInv, RegistryIsHeld, Down
  <2> QED
    BY <1>1, <2>1, <2>3 DEF Current
<1>5. LiveWaits'
  BY <1>4 DEF LiveWaits
<1>6. ClearedWaits'
  BY <1>1 DEF ClearedWaits
<1>7. DeadWaits'
  BY <1>1, <1>3 DEF WaitInv, DeadWaits, Unnamed, Found, Cleaned
<1> QED
  BY <1>5, <1>6, <1>7 DEF WaitInv

(* The process ends, at its own time or by a crash. *)
LEMMA DiesWaits ==
  ASSUME BasicInv, FileInv, WaitInv, NEW S, Dies(S),
         \/ stop = "clearing"
         \/ S = Unmarked(Reply, "restarting") \ file
  PROVE  WaitInv'
<1>1. /\ Shape /\ turn' = [m \in Msg |-> IF turn[m].at = "none" THEN Asleep
                                        ELSE [Asleep EXCEPT !.at = "dead"]]
      /\ queue' = <<>> /\ boot' = "off" /\ stop' = "no"
      /\ shown' = Settled(Reply)
      /\ UNCHANGED <<file, runs>> /\ lost \subseteq lost' /\ S \subseteq lost'
  BY DEF Dies, BasicInv
<1>2. ASSUME NEW r \in Reply
      PROVE  /\ turn'[r[1]].at # "dead" => shown'[r] = "absent"
             /\ shown'[r] = "waiting" => shown[r] = "waiting" /\ turn[r[1]].at \notin {"none", "queued"}
  <2>1. r[1] \in Msg /\ (shown'[r] = "waiting" => shown[r] = "waiting")
        /\ (shown[r] = "absent" => shown'[r] = "absent")
    BY <1>1, ReplyParts, SettledShown
  <2>2. turn'[r[1]].at = IF turn[r[1]].at = "none" THEN "none" ELSE "dead"
    BY <1>1, <2>1 DEF Asleep
  <2>3. turn[r[1]].at \in {"none", "queued"} => shown[r] = "absent"
    BY DEF BasicInv, UnbornIsNowhere, Unborn
  <2> QED
    BY <2>1, <2>2, <2>3
<1>3. LiveWaits'
  BY <1>2 DEF LiveWaits
<1>4. ClearedWaits'
  BY <1>1 DEF ClearedWaits
<1>5. ASSUME NEW r \in Reply, shown[r] = "waiting", turn[r[1]].at \notin {"none", "queued"}
      PROVE  r \in lost' \/ Found(r)'
  <2>1. r \in file \/ runs[r[1]] = "running" => Found(r)'
    BY <1>1 DEF Found
  <2>2. CASE turn[r[1]].at = "dead"
    BY <1>1, <1>5, <2>1, <2>2 DEF WaitInv, DeadWaits, Found, Cleaned
  <2>3. CASE r \in lost
    BY <1>1, <2>3
  <2>4. CASE Has(flight[r], "restarting")
    <3>1. CASE stop = "clearing"
      BY <1>1, <1>5, <2>4, <3>1 DEF WaitInv, ClearedWaits
    <3>2. CASE S = Unmarked(Reply, "restarting") \ file
      BY <1>1, <2>1, <2>4, <3>2 DEF Unmarked
    <3> QED
      BY <3>1, <3>2
  <2>5. CASE turn[r[1]].at # "dead" /\ ~Noted(r)
    <3>1. /\ r = Current(r[1]) /\ turn[r[1]].at \in Unsettled /\ r[1] \in Msg
          /\ turn[r[1]].at \in Holding => turn[r[1]].held /\ ~Down
      BY <1>5, <2>5, ReplyParts DEF WaitInv, LiveWaits
    <3>2. Alive(r[1])
      BY <1>5, <2>5, <3>1 DEF Unsettled, Alive
    <3>3. \/ turn[r[1]].at \in {"placed", "sent", "outer"}
          \/ Has(queue, Op("add", r)) \/ r \in unlisted \/ r \in file
      <4>1. CASE turn[r[1]].at \notin {"placed", "sent", "outer"}
        <5>1. r \in registry
          <6>1. turn[r[1]].at \in Holding
            BY <3>1, <4>1 DEF Unsettled, Holding
          <6> QED
            BY <3>1, <6>1 DEF BasicInv, RegistryIsHeld
        <5>2. Listed(r) \/ r \in unlisted
          BY <5>1 DEF FileInv
        <5>3. Listed(r) => r \in file \/ Has(queue, Op("add", r))
          <6>1. Len(queue) \in Nat
            BY <1>1, LenProperties DEF Shape
          <6> QED
            BY <6>1 DEF Listed, Puts, Has
        <5> QED
          BY <5>2, <5>3
      <4> QED
        BY <4>1
    <3>4. CASE r \notin file /\ runs[r[1]] # "running"
      BY <1>5, <3>1, <3>2, <3>3, <3>4 DEF Dies
    <3> QED
      BY <2>1, <3>4
  <2> QED
    BY <2>2, <2>3, <2>4, <2>5 DEF Noted
<1>6. DeadWaits'
  <2>1. \A r \in Reply : Unnamed(r)'
    BY <1>1 DEF Unnamed
  <2> QED
    BY <1>2, <1>5, <2>1 DEF DeadWaits
<1> QED
  BY <1>3, <1>4, <1>6 DEF WaitInv

(* Every step keeps the owners. *)
LEMMA NextWaits ==
  ASSUME BasicInv, FileInv, WaitInv, [Next]_vars
  PROVE  WaitInv'
<1>1. CASE Exit
  BY <1>1, DiesWaits DEF Exit
<1>2. CASE Crash
  BY <1>2, DiesWaits DEF Crash
<1>3. CASE ~Exit /\ ~Crash
  BY <1>3, TurnWaits, DeliverWaits, OperationWaits, StartWaits, DrainWaits DEF Next, Step, AtRest
<1> QED
  BY <1>1, <1>2, <1>3

(* No placeholder is ever without an owner. *)
THEOREM WaitingOwned == Spec => []WaitingIsOwned
<1>1. Init => WaitInv
  BY AsleepTurn DEF Init, WaitInv, LiveWaits, ClearedWaits, DeadWaits, Unnamed
<1>2. BasicInv /\ FileInv /\ WaitInv /\ [Next]_vars => WaitInv'
  BY NextWaits
<1>3. WaitInv => WaitingIsOwned
  <2>1. "restarting" \in Mark /\ "restarted" \in Mark
    BY DEF Mark
  <2> QED
    BY <2>1 DEF WaitInv, LiveWaits, DeadWaits, WaitingIsOwned, Owned, Noted, Cleaned
<1> QED
  BY <1>1, <1>2, <1>3, BasicInvariant, FileInvariant, PTL DEF Spec
=============================================================================
