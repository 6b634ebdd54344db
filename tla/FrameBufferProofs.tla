------------------------- MODULE FrameBufferProofs -------------------------
(***************************************************************************)
(* Proofs about FrameBuffer, for every capacity and every number of calls  *)
(* to Push.                                                                *)
(***************************************************************************)
EXTENDS FrameBuffer, SequenceTheorems, FiniteSetTheorems, TLAPS

USE CapacityAssumption, MaxFramesAssumption

\* What a receive does to a well-typed channel and history.
LEMMA ReceiveEffect ==
  ASSUME TypeOK, NEW fate \in Fates, Receive(fate)
  PROVE  /\ buffer' \in Seq(Nat) /\ Len(buffer') = Len(buffer) - 1
         /\ Len(buffer) > 0
         /\ \A i \in 1 .. Len(buffer') : buffer'[i] = buffer[i + 1]
         /\ out' \in Seq([frame : Nat, fate : Fates])
         /\ Len(out') = Len(out) + 1
         /\ \A i \in 1 .. Len(out) : out'[i] = out[i]
         /\ out'[Len(out) + 1] = [frame |-> buffer[1], fate |-> fate]
  BY DEF TypeOK, Receive

\* The oldest frame of a channel that is not empty stays the oldest one.
LEMMA AppendToNonempty ==
  ASSUME NEW s \in Seq(Nat), s # <<>>, NEW e \in Nat
  PROVE  /\ Append(s, e) # <<>>
         /\ Tail(Append(s, e)) = Append(Tail(s), e)
         /\ Head(Append(s, e)) = Head(s)
  BY HeadTailAppend, AppendProperties

\* What a send of n does to a well-typed channel.
LEMMA SendEffect ==
  ASSUME TypeOK, NEW n \in Nat, buffer' = Append(buffer, n)
  PROVE  /\ buffer' \in Seq(Nat) /\ Len(buffer') = Len(buffer) + 1
         /\ \A i \in 1 .. Len(buffer) : buffer'[i] = buffer[i]
         /\ buffer'[Len(buffer) + 1] = n
  BY DEF TypeOK
-----------------------------------------------------------------------------
\* Every variable keeps its type; in particular the channel never exceeds its
\* capacity.
THEOREM TypeCorrect == Spec => []TypeOK
<1>1. Init => TypeOK
  <2> SUFFICES ASSUME Init PROVE TypeOK
    OBVIOUS
  <2> USE DEF Init
  <2>1. /\ buffer \in Seq(Nat) /\ Len(buffer) <= Capacity
        /\ out \in Seq([frame : Nat, fate : Fates])
    BY EmptySeq
  <2>2. stats \in [pc : StatsPCs, dropped : Nat, total : Nat]
    BY DEF StatsPCs
  <2> QED
    BY <2>1, <2>2 DEF TypeOK, PCs
<1>2. TypeOK /\ [Next]_vars => TypeOK'
  <2> SUFFICES ASSUME TypeOK, [Next]_vars PROVE TypeOK'
    OBVIOUS
  <2> USE DEF TypeOK, PCs, StatsPCs
  <2>1. CASE PushBegin
    BY <2>1 DEF PushBegin, popVars
  <2>2. CASE PushTrySend
    BY <2>2, SendEffect DEF PushTrySend, popVars
  <2>3. CASE PushFindsFull
    BY <2>3 DEF PushFindsFull, popVars
  <2>4. CASE PushDropOldest
    BY <2>4, ReceiveEffect DEF PushDropOldest, popVars, Fates
  <2>5. CASE PushFindsDrained
    BY <2>5 DEF PushFindsDrained, popVars
  <2>6. CASE PushSend
    BY <2>6, SendEffect DEF PushSend, popVars
  <2>7. CASE PushCount
    BY <2>7 DEF PushCount, popVars
  <2>8. CASE Pop \/ PopBlockingFrame
    <3>1. Receive("delivered") /\ UNCHANGED <<closed, pushVars, popVars, stats>>
      BY <2>8 DEF Pop, PopBlockingFrame
    <3> QED
      BY <3>1, ReceiveEffect DEF pushVars, popVars, Fates
  <2>9. CASE PopBlockingEnds
    BY <2>9 DEF PopBlockingEnds, pushVars
  <2>10. CASE Cancel
    BY <2>10 DEF Cancel, pushVars
  <2>11. CASE Close
    BY <2>11 DEF Close, pushVars, popVars
  <2>12. CASE Stats
    <3>1. stats' \in [pc : StatsPCs, dropped : Nat, total : Nat]
      <4>1. CASE StatsLoadDropped
        BY <4>1 DEF StatsLoadDropped
      <4>2. CASE StatsLoadTotal
        BY <4>2 DEF StatsLoadTotal
      <4>3. CASE StatsReturn
        BY <4>3 DEF StatsReturn
      <4> QED
        BY <2>12, <4>1, <4>2, <4>3 DEF Stats
    <3>2. UNCHANGED <<buffer, closed, pushVars, popVars, out>>
      BY <2>12 DEF Stats, StatsLoadDropped, StatsLoadTotal, StatsReturn
    <3> QED
      BY <3>1, <3>2 DEF pushVars, popVars
  <2>13. CASE UNCHANGED vars
    BY <2>13 DEF vars, pushVars, popVars
  <2> QED
    BY <2>1, <2>2, <2>3, <2>4, <2>5, <2>6, <2>7, <2>8, <2>9, <2>10, <2>11,
       <2>12, <2>13 DEF Next, PushStep, PopBlocking
<1> QED
  BY <1>1, <1>2, PTL DEF Spec
-----------------------------------------------------------------------------
\* The send outside the selects finds room, however the dispatcher's receives
\* are interleaved with Push.
THEOREM NeverBlocks == Spec => []PushNeverBlocks
<1>1. Init => PushNeverBlocks
  BY DEF Init, PushNeverBlocks
<1>2. TypeOK /\ PushNeverBlocks /\ [Next]_vars => PushNeverBlocks'
  <2> SUFFICES ASSUME TypeOK, PushNeverBlocks, [Next]_vars
               PROVE  PushNeverBlocks'
    OBVIOUS
  <2> USE DEF PushNeverBlocks
  <2>1. CASE PushDropOldest
    BY <2>1, ReceiveEffect DEF PushDropOldest, TypeOK, Fates
  <2>2. CASE PushFindsDrained
    BY <2>2 DEF PushFindsDrained
  <2>3. CASE PushBegin \/ PushTrySend \/ PushFindsFull \/ PushSend \/ PushCount
    BY <2>3 DEF PushBegin, PushTrySend, PushFindsFull, PushSend, PushCount
  <2>4. CASE Pop \/ PopBlockingFrame
    BY <2>4, ReceiveEffect DEF Pop, PopBlockingFrame, pushVars, TypeOK, Fates
  <2>5. CASE PopBlockingEnds \/ Cancel \/ Close \/ Stats
    BY <2>5 DEF PopBlockingEnds, Cancel, Close, Stats, StatsLoadDropped,
                StatsLoadTotal, StatsReturn, pushVars
  <2>6. CASE UNCHANGED vars
    BY <2>6 DEF vars, pushVars
  <2> QED
    BY <2>1, <2>2, <2>3, <2>4, <2>5, <2>6 DEF Next, PushStep, PopBlocking
<1> QED
  BY <1>1, <1>2, TypeCorrect, PTL DEF Spec
-----------------------------------------------------------------------------
\* A receive moves the oldest frame from the channel to the history.
LEMMA ReceiveConserves ==
  ASSUME TypeOK, FramesConserved, NEW fate \in Fates, Receive(fate)
  PROVE  /\ Len(out') + Len(buffer') = Len(out) + Len(buffer)
         /\ \A i \in 1 .. Len(out') : out'[i].frame = i
         /\ \A i \in 1 .. Len(buffer') : buffer'[i] = Len(out') + i
<1> DEFINE o == Len(out)
           b == Len(buffer)
<1>1. o \in Nat /\ b \in Nat
  BY DEF TypeOK
<1>2. /\ b > 0 /\ Len(buffer') = b - 1 /\ Len(out') = o + 1
      /\ \A i \in 1 .. Len(buffer') : buffer'[i] = buffer[i + 1]
      /\ \A i \in 1 .. o : out'[i] = out[i]
      /\ out'[o + 1] = [frame |-> buffer[1], fate |-> fate]
  BY ReceiveEffect
<1>3. /\ \A i \in 1 .. o : out[i].frame = i
      /\ \A i \in 1 .. b : buffer[i] = o + i
  BY DEF FramesConserved
<1> HIDE DEF o, b
<1>4. Len(out') + Len(buffer') = o + b
  BY <1>1, <1>2
<1>5. \A i \in 1 .. Len(out') : out'[i].frame = i
  <2> SUFFICES ASSUME NEW i \in 1 .. o + 1 PROVE out'[i].frame = i
    BY <1>2
  <2>1. CASE i \in 1 .. o
    BY <2>1, <1>2, <1>3
  <2>2. CASE i = o + 1
    <3>1. buffer[1] = o + 1
      BY <1>1, <1>2, <1>3
    <3>2. out'[o + 1].frame = buffer[1]
      BY <1>2
    <3> QED
      BY <2>2, <3>1, <3>2
  <2> QED
    BY <2>1, <2>2, <1>1
<1>6. \A i \in 1 .. Len(buffer') : buffer'[i] = Len(out') + i
  BY <1>1, <1>2, <1>3
<1> QED
  BY <1>4, <1>5, <1>6 DEF o, b

\* The send of the frame in hand moves it to the channel.
LEMMA SendConserves ==
  ASSUME TypeOK, FramesConserved, pc \in {"try", "send"},
         buffer' = Append(buffer, totalFrames), out' = out
  PROVE  /\ totalFrames = Len(out') + Len(buffer')
         /\ \A i \in 1 .. Len(out') : out'[i].frame = i
         /\ \A i \in 1 .. Len(buffer') : buffer'[i] = Len(out') + i
<1> DEFINE o == Len(out)
           b == Len(buffer)
<1>1. o \in Nat /\ b \in Nat /\ totalFrames \in Nat
  BY DEF TypeOK
<1>2. totalFrames = o + b + 1
  BY DEF FramesConserved, InHand
<1>3. /\ \A i \in 1 .. o : out[i].frame = i
      /\ \A i \in 1 .. b : buffer[i] = o + i
  BY DEF FramesConserved
<1>4. /\ Len(buffer') = b + 1
      /\ \A i \in 1 .. b : buffer'[i] = buffer[i]
      /\ buffer'[b + 1] = totalFrames
  BY <1>1, SendEffect
<1> HIDE DEF o, b
<1>5. \A i \in 1 .. b + 1 : buffer'[i] = o + i
  BY <1>1, <1>2, <1>3, <1>4
<1> QED
  BY <1>1, <1>2, <1>3, <1>4, <1>5 DEF o, b

\* No frame is lost, duplicated or overtaken between Push, the channel, the
\* dispatcher and Release.
THEOREM Conserved == Spec => []FramesConserved
<1>1. Init => FramesConserved
  BY DEF Init, FramesConserved, InHand
<1>2. TypeOK /\ FramesConserved /\ [Next]_vars => FramesConserved'
  <2> SUFFICES ASSUME TypeOK, FramesConserved, [Next]_vars
               PROVE  FramesConserved'
    OBVIOUS
  <2>0. totalFrames \in Nat /\ Len(out) \in Nat /\ Len(buffer) \in Nat
    BY DEF TypeOK
  <2>1. CASE PushBegin
    BY <2>0, <2>1 DEF PushBegin, FramesConserved, InHand
  <2>2. CASE PushTrySend \/ PushSend
    <3>1. /\ pc \in {"try", "send"} /\ InHand' = 0
          /\ totalFrames' = totalFrames /\ out' = out
          /\ buffer' = Append(buffer, totalFrames)
      BY <2>2 DEF PushTrySend, PushSend, InHand
    <3>2. /\ totalFrames = Len(out') + Len(buffer')
          /\ \A i \in 1 .. Len(out') : out'[i].frame = i
          /\ \A i \in 1 .. Len(buffer') : buffer'[i] = Len(out') + i
      BY <3>1, SendConserves
    <3> QED
      BY <2>0, <3>1, <3>2 DEF FramesConserved
  <2>3. CASE PushFindsFull \/ PushFindsDrained \/ PushCount
    BY <2>3 DEF PushFindsFull, PushFindsDrained, PushCount, FramesConserved,
                InHand
  <2>4. CASE PushDropOldest \/ Pop \/ PopBlockingFrame
    <3>1. PICK fate \in Fates : Receive(fate)
      BY <2>4 DEF PushDropOldest, Pop, PopBlockingFrame, Fates
    <3>2. /\ Len(out') + Len(buffer') = Len(out) + Len(buffer)
          /\ \A i \in 1 .. Len(out') : out'[i].frame = i
          /\ \A i \in 1 .. Len(buffer') : buffer'[i] = Len(out') + i
      BY <3>1, ReceiveConserves
    <3>3. InHand' = InHand /\ totalFrames' = totalFrames
      BY <2>4 DEF PushDropOldest, Pop, PopBlockingFrame, pushVars, InHand
    <3>4. Len(out') \in Nat /\ Len(buffer') \in Nat /\ InHand \in Nat
      BY <3>1, ReceiveEffect DEF InHand
    <3>5. totalFrames = Len(out) + Len(buffer) + InHand
      BY DEF FramesConserved
    <3>6. totalFrames' = Len(out') + Len(buffer') + InHand'
      BY <2>0, <3>2, <3>3, <3>4, <3>5
    <3> QED
      BY <3>2, <3>6 DEF FramesConserved
  <2>5. CASE PopBlockingEnds \/ Cancel \/ Close \/ Stats \/ UNCHANGED vars
    BY <2>5 DEF PopBlockingEnds, Cancel, Close, Stats, StatsLoadDropped,
                StatsLoadTotal, StatsReturn, vars, pushVars, FramesConserved,
                InHand
  <2> QED
    BY <2>1, <2>2, <2>3, <2>4, <2>5 DEF Next, PushStep, PopBlocking
<1> QED
  BY <1>1, <1>2, TypeCorrect, PTL DEF Spec
-----------------------------------------------------------------------------
\* The buffer with its split Push implements the abstract queue, in which
\* adding a frame is one step.
THEOREM Refinement == Spec => ImplementsLossyQueue
<1> DEFINE q == IF pc = "send" THEN Append(buffer, totalFrames) ELSE buffer
<1>1. Init => Queue!Init
  BY DEF Init, Queue!Init
<1>2. ASSUME TypeOK, PushNeverBlocks, FramesConserved, [Next]_vars
      PROVE  [Queue!Next]_(Queue!vars)
  <2> USE <1>2
  <2>0. totalFrames \in Nat /\ Len(out) \in Nat /\ Len(buffer) \in Nat
    BY DEF TypeOK
  <2>1. CASE PushTrySend
    <3>1. q = buffer /\ q' = Append(buffer, totalFrames) /\ out' = out
      BY <2>1 DEF PushTrySend
    <3>2. totalFrames = Len(out) + Len(buffer) + 1
      BY <2>0, <2>1 DEF PushTrySend, FramesConserved, InHand
    <3>3. Queue!Put
      BY <2>1, <3>1, <3>2 DEF PushTrySend, Queue!Put, Queue!NewFrame
    <3> QED
      BY <3>3 DEF Queue!Next
  <2>2. CASE PushDropOldest
    <3>1. /\ q = buffer /\ buffer # <<>>
          /\ q' = Append(Tail(buffer), totalFrames)
          /\ out' = Append(out, [frame |-> Head(buffer), fate |-> "released"])
      BY <2>2 DEF PushDropOldest, Receive
    <3>2. totalFrames = Len(out) + Len(buffer) + 1
      BY <2>0, <2>2 DEF PushDropOldest, FramesConserved, InHand
    <3>3. Queue!PutReplacing
      BY <3>1, <3>2 DEF Queue!PutReplacing, Queue!NewFrame, Queue!Leave
    <3> QED
      BY <3>3 DEF Queue!Next
  <2>3. CASE PushFindsDrained
    <3>1. q = buffer /\ q' = Append(buffer, totalFrames) /\ out' = out
          /\ Len(buffer) < Capacity
      BY <2>3 DEF PushFindsDrained
    <3>2. totalFrames = Len(out) + Len(buffer) + 1
      BY <2>0, <2>3 DEF PushFindsDrained, FramesConserved, InHand
    <3>3. Queue!Put
      BY <3>1, <3>2 DEF Queue!Put, Queue!NewFrame
    <3> QED
      BY <3>3 DEF Queue!Next
  <2>4. CASE Pop \/ PopBlockingFrame
    <3>1. /\ q # <<>> /\ q' = Tail(q)
          /\ out' = Append(out, [frame |-> Head(q), fate |-> "delivered"])
      <4>1. /\ buffer # <<>> /\ buffer' = Tail(buffer) /\ pc' = pc
            /\ totalFrames' = totalFrames
            /\ out' = Append(out, [frame |-> Head(buffer), fate |-> "delivered"])
        BY <2>4 DEF Pop, PopBlockingFrame, Receive, pushVars
      <4>2. CASE pc = "send"
        <5>1. /\ Append(buffer, totalFrames) # <<>>
              /\ Tail(Append(buffer, totalFrames))
                   = Append(Tail(buffer), totalFrames)
              /\ Head(Append(buffer, totalFrames)) = Head(buffer)
          <6>1. buffer \in Seq(Nat) /\ totalFrames \in Nat
            BY <2>0 DEF TypeOK
          <6> QED
            BY <4>1, <6>1, AppendToNonempty
        <5> QED
          BY <4>1, <4>2, <5>1
      <4>3. CASE pc # "send"
        BY <4>1, <4>3
      <4> QED
        BY <4>2, <4>3
    <3>2. Queue!Get
      BY <3>1 DEF Queue!Get, Queue!Leave
    <3> QED
      BY <3>2 DEF Queue!Next
  <2>5. CASE PushBegin \/ PushFindsFull \/ PushSend \/ PushCount
             \/ PopBlockingEnds \/ Cancel \/ Close \/ Stats
             \/ UNCHANGED vars
    <3>1. q' = q /\ out' = out
      BY <2>5 DEF PushBegin, PushFindsFull, PushSend, PushCount,
                  PopBlockingEnds, Cancel, Close, Stats, StatsLoadDropped,
                  StatsLoadTotal, StatsReturn, vars, pushVars
    <3> QED
      BY <3>1 DEF Queue!vars
  <2> QED
    BY <2>1, <2>2, <2>3, <2>4, <2>5 DEF Next, PushStep, PopBlocking
<1> QED
  BY <1>1, <1>2, TypeCorrect, NeverBlocks, Conserved, PTL
     DEF Spec, ImplementsLossyQueue, Queue!Spec
-----------------------------------------------------------------------------
\* Only a Push that was counted in totalFrames is counted in droppedFrames, and
\* what Stats has loaded of droppedFrames was in totalFrames by then.
CountersInv ==
  /\ droppedFrames + (IF pc = "idle" THEN 0 ELSE 1) <= totalFrames
  /\ stats.pc = "loading" => stats.dropped <= droppedFrames
  /\ StatsConsistent

\* A snapshot of Stats is consistent although Push runs between its two loads.
THEOREM StatsAreConsistent == Spec => []StatsConsistent
<1>1. Init => CountersInv
  BY DEF Init, CountersInv, StatsConsistent
<1>2. TypeOK /\ CountersInv /\ [Next]_vars => CountersInv'
  <2> SUFFICES ASSUME TypeOK, CountersInv, [Next]_vars PROVE CountersInv'
    OBVIOUS
  <2> USE DEF CountersInv, StatsConsistent
  <2>0. /\ totalFrames \in Nat /\ droppedFrames \in Nat
        /\ stats \in [pc : StatsPCs, dropped : Nat, total : Nat]
    BY DEF TypeOK
  <2>1. CASE PushBegin
    BY <2>0, <2>1 DEF PushBegin
  <2>2. CASE PushTrySend \/ PushFindsFull \/ PushDropOldest \/ PushFindsDrained
             \/ PushSend
    BY <2>0, <2>2 DEF PushTrySend, PushFindsFull, PushDropOldest,
                      PushFindsDrained, PushSend
  <2>3. CASE PushCount
    BY <2>0, <2>3 DEF PushCount
  <2>4. CASE UNCHANGED <<totalFrames, droppedFrames, pc, stats>>
    BY <2>4
  <2>5. CASE StatsLoadDropped
    BY <2>0, <2>5 DEF StatsLoadDropped, pushVars
  <2>6. CASE StatsLoadTotal
    BY <2>0, <2>6 DEF StatsLoadTotal, pushVars
  <2>7. CASE StatsReturn
    BY <2>0, <2>7 DEF StatsReturn, pushVars
  <2> QED
    BY <2>1, <2>2, <2>3, <2>4, <2>5, <2>6, <2>7
       DEF Next, PushStep, PopBlocking, Pop, PopBlockingFrame, PopBlockingEnds,
           Cancel, Close, Stats, vars, pushVars
<1>3. CountersInv => StatsConsistent
  BY DEF CountersInv
<1> QED
  BY <1>1, <1>2, <1>3, TypeCorrect, PTL DEF Spec
-----------------------------------------------------------------------------
\* A receive adds to the released frames if it releases its frame.
LEMMA ReceiveReleases ==
  ASSUME TypeOK, NEW fate \in Fates, Receive(fate)
  PROVE  /\ Released \in Nat
         /\ Released' = IF fate = "released" THEN Released + 1 ELSE Released
<1> DEFINE n == Len(out)
           R == ReleasedBy(n)
<1>1. n \in Nat
  BY DEF TypeOK
<1>2. /\ Len(out') = n + 1
      /\ \A i \in 1 .. n : out'[i] = out[i]
      /\ out'[n + 1].fate = fate
  <2>1. out'[n + 1] = [frame |-> buffer[1], fate |-> fate]
    BY ReceiveEffect
  <2>2. out'[n + 1].fate = fate
    BY <2>1
  <2> QED
    BY <2>2, ReceiveEffect
<1>3. IsFiniteSet(R) /\ Cardinality(R) \in Nat /\ n + 1 \notin R
  <2>1. IsFiniteSet(1 .. n) /\ R \subseteq 1 .. n
    BY <1>1, FS_Interval DEF ReleasedBy
  <2> QED
    BY <1>1, <2>1, FS_Subset, FS_CardinalityType
<1>4. /\ Released = Cardinality(R)
      /\ Released' = Cardinality({i \in 1 .. n + 1 : out'[i].fate = "released"})
  BY <1>2 DEF Released, ReleasedBy
<1>5. {i \in 1 .. n + 1 : out'[i].fate = "released"}
        = IF fate = "released" THEN R \cup {n + 1} ELSE R
  <2> HIDE DEF n
  <2> QED
    BY <1>1, <1>2 DEF ReleasedBy, n
<1>6. Cardinality(R \cup {n + 1}) = Cardinality(R) + 1
  BY <1>3, FS_AddElement
<1> HIDE DEF R, n
<1> QED
  BY <1>3, <1>4, <1>5, <1>6

\* No release goes uncounted: where a Push has released a frame it is about to
\* count it.
THEOREM ReleasesCounted == Spec => []ReleasesAreCounted
<1>1. Init => ReleasesAreCounted
  <2> SUFFICES ASSUME Init PROVE ReleasesAreCounted
    OBVIOUS
  <2>1. ReleasedBy(Len(out)) = {}
    BY DEF Init, ReleasedBy
  <2>2. Released = 0
    BY <2>1, FS_EmptySet DEF Released
  <2> QED
    BY <2>2 DEF Init, ReleasesAreCounted
<1>2. TypeOK /\ ReleasesAreCounted /\ [Next]_vars => ReleasesAreCounted'
  <2> SUFFICES ASSUME TypeOK, ReleasesAreCounted, [Next]_vars
               PROVE  ReleasesAreCounted'
    OBVIOUS
  <2>0. droppedFrames \in Nat /\ Released \in Nat
    <3>1. Len(out) \in Nat
      BY DEF TypeOK
    <3>2. IsFiniteSet(1 .. Len(out)) /\ ReleasedBy(Len(out)) \subseteq 1 .. Len(out)
      BY <3>1, FS_Interval DEF ReleasedBy
    <3> QED
      BY <3>2, FS_Subset, FS_CardinalityType DEF TypeOK, Released
  <2>1. CASE PushDropOldest
    <3>1. Released' = Released + 1
      BY <2>1, ReceiveReleases DEF PushDropOldest, Fates
    <3> QED
      BY <2>0, <2>1, <3>1 DEF PushDropOldest, ReleasesAreCounted
  <2>2. CASE Pop \/ PopBlockingFrame
    <3>1. Released' = Released
      BY <2>2, ReceiveReleases DEF Pop, PopBlockingFrame, Fates
    <3> QED
      BY <2>2, <3>1 DEF Pop, PopBlockingFrame, pushVars, ReleasesAreCounted
  <2>3. ASSUME out' = out PROVE Released' = Released
    BY <2>3 DEF Released, ReleasedBy
  <2>4. CASE PushCount
    BY <2>0, <2>3, <2>4 DEF PushCount, ReleasesAreCounted
  <2>5. CASE PushBegin \/ PushTrySend \/ PushFindsFull \/ PushFindsDrained
             \/ PushSend
    <3>1. /\ droppedFrames' = droppedFrames /\ Released' = Released
          /\ pc \in {"send", "count"} => pc' \in {"send", "count"}
      BY <2>3, <2>5 DEF PushBegin, PushTrySend, PushFindsFull, PushFindsDrained,
                        PushSend
    <3> QED
      BY <2>0, <3>1 DEF ReleasesAreCounted
  <2>6. CASE UNCHANGED <<droppedFrames, pc, out>>
    BY <2>3, <2>6 DEF ReleasesAreCounted
  <2> QED
    BY <2>1, <2>2, <2>4, <2>5, <2>6
       DEF Next, PushStep, PopBlocking, PopBlockingEnds, Cancel, Close, Stats,
           StatsLoadDropped, StatsLoadTotal, StatsReturn, vars, pushVars
<1> QED
  BY <1>1, <1>2, TypeCorrect, PTL DEF Spec
=============================================================================
