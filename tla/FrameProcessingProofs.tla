----------------------- MODULE FrameProcessingProofs -----------------------
(***************************************************************************)
(* Proofs about FrameProcessing and the RedisStore in it, for every number *)
(* of callers, clients and frames and every MaxSequence.                   *)
(***************************************************************************)
EXTENDS FrameProcessing, SequenceTheorems, TLAPS

USE MaxSequenceAssumption, MaxFramesAssumption

\* The steps of the next-state relation, one by one.
LEMMA Steps ==
  ASSUME Next
  PROVE  \/ \E w \in Callers :
              \/ ProcessBegins(w) \/ PublishFails(w) \/ PublishSucceeds(w)
              \/ GenerateKey(w) /\ UNCHANGED processVars
              \/ GetClient(w) /\ UNCHANGED processVars
              \/ SetFailsRetryably(w) /\ UNCHANGED processVars
              \/ Reconnect(w) /\ UNCHANGED processVars
              \/ PingSucceeds(w) /\ UNCHANGED processVars
              \/ SetFails(w, ctxDone) /\ Return(w, "save")
              \/ PingFails(w) /\ Return(w, "save")
              \/ ProcessGoesOn(w)
              \/ MetadataSucceeds(w) \/ MetadataFails(w)
         \/ ConnectionTurns \/ Cancel \/ RedisOutage
<1>1. ASSUME NEW w \in Callers, ProcessBegins(w) \/ Process(w)
      PROVE  \/ ProcessBegins(w) \/ PublishFails(w) \/ PublishSucceeds(w)
             \/ GenerateKey(w) /\ UNCHANGED processVars
             \/ GetClient(w) /\ UNCHANGED processVars
             \/ SetFailsRetryably(w) /\ UNCHANGED processVars
             \/ Reconnect(w) /\ UNCHANGED processVars
             \/ PingSucceeds(w) /\ UNCHANGED processVars
             \/ SetFails(w, ctxDone) /\ Return(w, "save")
             \/ PingFails(w) /\ Return(w, "save")
             \/ ProcessGoesOn(w)
             \/ MetadataSucceeds(w) \/ MetadataFails(w)
  BY <1>1 DEF Process, FrameIsSaved, SaveGoesOn, FrameIsNotSaved, SaveFails
<1> QED
  BY <1>1 DEF Next
-----------------------------------------------------------------------------
\* Whoever reconnects over whichever failure: the store has one open client,
\* its own.
THEOREM ClientsAreClosed == Spec => []OneClient
<1>1. Init => OneClient
  BY DEF Init, StoreInit, OneClient
<1>2. OneClient /\ [Next]_vars => OneClient'
  <2> SUFFICES ASSUME OneClient, [Next]_vars PROVE OneClient'
    OBVIOUS
  <2>1. ASSUME NEW w \in Callers, Reconnect(w) PROVE OneClient'
    BY <2>1 DEF Reconnect, OneClient
  <2>2. CASE UNCHANGED clientVars
    BY <2>2 DEF OneClient, clientVars
  <2>3. CASE UNCHANGED vars
    BY <2>2, <2>3 DEF vars, storeVars
  <2>4. CASE Next
    <3>1. \/ \E w \in Callers : Reconnect(w)
          \/ UNCHANGED clientVars
      BY <2>4, Steps, Zenon
         DEF ProcessBegins, PublishFails, PublishSucceeds, SaveBegins,
             GenerateKey, GetClient, SetFailsRetryably, PingSucceeds, SetFails,
             PingFails, ProcessGoesOn, SetSucceeds, MetadataSucceeds,
             MetadataFails, ConnectionTurns, Cancel, RedisOutage, RedisTurns,
             storeVars
    <3> QED
      BY <3>1, <2>1, <2>2
  <2> QED
    BY <2>3, <2>4
<1> QED
  BY <1>1, <1>2, PTL DEF Spec
-----------------------------------------------------------------------------
\* The last MaxSequence numbers count down from the current one, and from
\* MaxSequence where the sequence started again.
Countdown(i) == LET back == Len(numbers) - i
                IN IF sequence > back THEN sequence - back
                                      ELSE sequence - back + MaxSequence

NumbersInv ==
  /\ sequence \in 0 .. MaxSequence
  /\ numbers \in Seq(1 .. MaxSequence)
  /\ \A i \in 1 .. Len(numbers) :
       Len(numbers) - i < MaxSequence => numbers[i] = Countdown(i)

\* The numbers change with the generation of a key only.
LEMMA NumbersUnchanged ==
  ASSUME [Next]_vars, ~ \E w \in Callers : GenerateKey(w)
  PROVE  UNCHANGED keyVars
<1>1. CASE UNCHANGED vars
  BY <1>1 DEF vars, storeVars
<1>2. CASE Next
  BY <1>2, Steps, Zenon
     DEF ProcessBegins, PublishFails, PublishSucceeds, SaveBegins,
         GetClient, SetFailsRetryably, Reconnect, PingSucceeds, SetFails,
         PingFails, ProcessGoesOn, SetSucceeds, MetadataSucceeds,
         MetadataFails, ConnectionTurns, Cancel, RedisOutage, RedisTurns,
         storeVars
<1> QED
  BY <1>1, <1>2

LEMMA NumbersStep ==
  ASSUME NumbersInv, KeysDistinct, NEW w \in Callers, GenerateKey(w)
  PROVE  NumbersInv' /\ KeysDistinct'
<1> DEFINE n == Len(numbers)
           next == NextSequence
<1>1. /\ n \in Nat /\ sequence \in 0 .. MaxSequence
      /\ MaxSequence \in Nat /\ MaxSequence > 0
      /\ numbers \in Seq(1 .. MaxSequence)
  BY DEF NumbersInv
<1>2. /\ next \in 1 .. MaxSequence
      /\ \/ sequence < MaxSequence /\ next = sequence + 1
         \/ sequence = MaxSequence /\ next = 1
  BY <1>1 DEF NextSequence
<1>3. sequence' = next /\ numbers' = Append(numbers, next)
  BY DEF GenerateKey
<1> HIDE DEF next
<1>4. /\ numbers' \in Seq(1 .. MaxSequence) /\ Len(numbers') = n + 1
      /\ numbers'[n + 1] = next
      /\ \A i \in 1 .. n : numbers'[i] = numbers[i]
  BY <1>1, <1>2, <1>3
<1> HIDE DEF n
<1>5. ASSUME NEW i \in 1 .. n, n + 1 - i < MaxSequence
      PROVE  numbers[i] = IF next > n + 1 - i
                          THEN next - (n + 1 - i)
                          ELSE next - (n + 1 - i) + MaxSequence
  <2>1. numbers[i] = IF sequence > n - i THEN sequence - (n - i)
                     ELSE sequence - (n - i) + MaxSequence
    BY <1>1, <1>5 DEF NumbersInv, Countdown, n
  <2> QED
    BY <1>1, <1>2, <1>5, <2>1
<1>6. NumbersInv'
  <2>1. ASSUME NEW i \in 1 .. n + 1, n + 1 - i < MaxSequence
        PROVE  numbers'[i] = IF next > n + 1 - i
                             THEN next - (n + 1 - i)
                             ELSE next - (n + 1 - i) + MaxSequence
    <3>1. CASE i = n + 1
      BY <1>1, <1>2, <1>4, <3>1
    <3>2. CASE i \in 1 .. n
      BY <1>4, <1>5, <2>1, <3>2
    <3> QED
      BY <1>1, <3>1, <3>2
  <2> QED
    BY <1>1, <1>2, <1>3, <1>4, <2>1 DEF NumbersInv, Countdown
<1>7. KeysDistinct'
  <2>1. ASSUME NEW i \in 1 .. n, n + 1 - i < MaxSequence
        PROVE  numbers'[i] # numbers'[n + 1]
    <3>1. numbers'[i] = IF next > n + 1 - i
                        THEN next - (n + 1 - i)
                        ELSE next - (n + 1 - i) + MaxSequence
      BY <1>4, <1>5, <2>1
    <3> QED
      BY <1>1, <1>2, <1>4, <2>1, <3>1
  <2>2. ASSUME NEW i \in 1 .. n, NEW k \in 1 .. n, i < k, k - i < MaxSequence
        PROVE  numbers'[i] # numbers'[k]
    <3>1. DOMAIN numbers = 1 .. n
      BY <1>1 DEF n
    <3>2. numbers[i] # numbers[k]
      BY <2>2, <3>1 DEF KeysDistinct
    <3> QED
      BY <1>4, <3>2
  <2>3. DOMAIN numbers' = 1 .. n + 1
    BY <1>4
  <2> SUFFICES ASSUME NEW i \in 1 .. n + 1, NEW k \in 1 .. n + 1,
                      i < k, k - i < MaxSequence
               PROVE  numbers'[i] # numbers'[k]
    BY <2>3 DEF KeysDistinct
  <2>4. CASE k = n + 1
    BY <1>1, <2>1, <2>4
  <2>5. CASE k \in 1 .. n
    BY <1>1, <2>2, <2>5
  <2> QED
    BY <1>1, <2>4, <2>5
<1> QED
  BY <1>6, <1>7

\* Keys of one camera and one time are distinct within MaxSequence keys, over
\* every restart of the sequence.
THEOREM KeysAreDistinct == Spec => []KeysDistinct
<1>1. Init => NumbersInv /\ KeysDistinct
  BY DEF Init, StoreInit, NumbersInv, KeysDistinct
<1>2. NumbersInv /\ KeysDistinct /\ [Next]_vars => (NumbersInv /\ KeysDistinct)'
  <2> SUFFICES ASSUME NumbersInv, KeysDistinct, [Next]_vars
               PROVE  NumbersInv' /\ KeysDistinct'
    OBVIOUS
  <2>1. CASE \E w \in Callers : GenerateKey(w)
    BY <2>1, NumbersStep
  <2>2. CASE UNCHANGED keyVars
    BY <2>2 DEF keyVars, NumbersInv, KeysDistinct, Countdown
  <2> QED
    BY <2>1, <2>2, NumbersUnchanged
<1> QED
  BY <1>1, <1>2, PTL DEF Spec
-----------------------------------------------------------------------------
\* The caller has a key for its frame.
HasKey(w) == stage[w] = "metadata" \/ save[w] \in {"client", "set", "lock", "ping"}

KeyTypes ==
  /\ numbers \in Seq(1 .. MaxSequence) /\ frames \in Nat
  /\ sequence \in 0 .. MaxSequence
  /\ frame \in [Callers -> Nat] /\ key \in [Callers -> Nat]
  /\ save \in [Callers -> SavePCs] /\ stage \in [Callers -> Stages]

\* A caller is inside SaveFrame at the stage "save" only.
SavingStage == \A w \in Callers : save[w] = "idle" <=> stage[w] # "save"

\* Callers work on different frames, with different keys.
OwnFrames ==
  \A w \in Callers : stage[w] # "none" =>
    /\ frame[w] <= frames
    /\ \A v \in Callers : stage[v] # "none" /\ frame[v] = frame[w] => v = w
OwnKeys ==
  \A w \in Callers : HasKey(w) =>
    /\ key[w] <= Len(numbers)
    /\ \A v \in Callers : HasKey(v) /\ key[v] = key[w] => v = w

\* What Redis has is from earlier calls, or from this one under its key.
StoredIsOlder ==
  /\ stored \subseteq [frame : Nat, key : Nat]
  /\ \A s \in stored : s.frame <= frames /\ s.key <= Len(numbers)
  /\ \A s \in stored, w \in Callers :
       /\ HasKey(w) => (s.frame = frame[w] <=> s.key = key[w])
       /\ stage[w] # "none" /\ ~HasKey(w) => s.frame # frame[w]

CopyInv == KeyTypes /\ SavingStage /\ OwnFrames /\ OwnKeys /\ StoredIsOlder /\ OneCopy

Value(w) == [frame |-> frame[w], key |-> key[w]]

\* A caller returns from Process, having stored its frame or not.
LEMMA ReturnCopy ==
  ASSUME CopyInv, NEW w \in Callers, NEW from, Return(w, from),
         save' = [save EXCEPT ![w] = "idle"], UNCHANGED keyVars,
         \/ stored' = stored
         \/ HasKey(w) /\ stored' = stored \cup {Value(w)}
  PROVE  CopyInv'
<1> USE DEF CopyInv
<1>1. /\ stage' = [stage EXCEPT ![w] = "none"]
      /\ frame' = [frame EXCEPT ![w] = 0] /\ key' = [key EXCEPT ![w] = 0]
      /\ frames' = frames /\ numbers' = numbers /\ sequence' = sequence
  BY DEF Return, Enter, keyVars
<1>2. KeyTypes'
  BY <1>1 DEF KeyTypes, SavePCs, Stages
<1>3. /\ stage'[w] = "none" /\ save'[w] = "idle" /\ ~HasKey(w)'
      /\ \A v \in Callers \ {w} :
           /\ stage'[v] = stage[v] /\ save'[v] = save[v]
           /\ frame'[v] = frame[v] /\ key'[v] = key[v]
           /\ HasKey(v)' <=> HasKey(v)
  BY <1>1 DEF KeyTypes, HasKey
<1>4. SavingStage'
  BY <1>3 DEF SavingStage
<1>5. OwnFrames' /\ OwnKeys'
  BY <1>1, <1>3 DEF OwnFrames, OwnKeys
<1>6. CASE stored' = stored
  <2>1. StoredIsOlder'
    BY <1>1, <1>3, <1>6 DEF StoredIsOlder
  <2>2. OneCopy'
    BY <1>1, <1>3, <1>6 DEF OneCopy
  <2> QED
    BY <1>2, <1>4, <1>5, <2>1, <2>2
<1>7. CASE HasKey(w) /\ stored' = stored \cup {Value(w)}
  <2>1. stage[w] # "none"
    BY <1>7 DEF HasKey, SavingStage
  <2>2. /\ frame[w] \in Nat /\ key[w] \in Nat
        /\ frame[w] <= frames /\ key[w] <= Len(numbers)
        /\ Value(w).frame = frame[w] /\ Value(w).key = key[w]
        /\ Value(w) \in [frame : Nat, key : Nat]
    BY <1>7, <2>1 DEF KeyTypes, OwnFrames, OwnKeys, Value
  <2>3. \A v \in Callers \ {w} :
          /\ HasKey(v) => (Value(w).frame = frame[v] <=> Value(w).key = key[v])
          /\ stage[v] # "none" /\ ~HasKey(v) => Value(w).frame # frame[v]
    BY <1>7, <2>1, <2>2 DEF OwnFrames, OwnKeys, HasKey, SavingStage
  <2>4. StoredIsOlder'
    <3>1. stored' \subseteq [frame : Nat, key : Nat]
      BY <1>7, <2>2 DEF StoredIsOlder
    <3>2. ASSUME NEW s \in stored'
          PROVE  /\ s.frame <= frames' /\ s.key <= Len(numbers')
                 /\ \A v \in Callers :
                      /\ HasKey(v)' => (s.frame = frame'[v] <=> s.key = key'[v])
                      /\ stage'[v] # "none" /\ ~HasKey(v)' => s.frame # frame'[v]
      <4>1. CASE s \in stored
        BY <1>1, <1>3, <4>1 DEF StoredIsOlder
      <4>2. CASE s = Value(w)
        BY <1>1, <1>3, <2>2, <2>3, <4>2
      <4> QED
        BY <1>7, <4>1, <4>2
    <3> QED
      BY <3>1, <3>2 DEF StoredIsOlder
  <2>5. OneCopy'
    <3>1. \A s \in stored : s.frame = Value(w).frame <=> s.key = Value(w).key
      BY <1>7, <2>2 DEF StoredIsOlder
    <3>2. \A s, t \in stored' : s.frame = t.frame <=> s.key = t.key
      BY <1>7, <3>1 DEF OneCopy
    <3> QED
      BY <1>1, <1>3, <1>7, <3>2 DEF OneCopy
  <2> QED
    BY <1>2, <1>4, <1>5, <2>4, <2>5
<1> QED
  BY <1>6, <1>7

\* A caller that has a key goes on, and may have its frame stored; where it has
\* stored it, it may go on to the metadata.
LEMMA MoveCopy ==
  ASSUME CopyInv, NEW w \in Callers, HasKey(w), HasKey(w)',
         NEW to \in SavePCs, save' = [save EXCEPT ![w] = to],
         NEW next \in Stages, stage' = [stage EXCEPT ![w] = next],
         next # "none", to = "idle" <=> next # "save",
         UNCHANGED <<frame, key, keyVars, frames>>,
         \/ stored' = stored /\ next # "metadata"
         \/ stored' = stored \cup {Value(w)}
  PROVE  CopyInv'
<1> USE DEF CopyInv
<1>1. /\ frame' = frame /\ key' = key /\ frames' = frames
      /\ numbers' = numbers /\ sequence' = sequence
  BY DEF keyVars
<1>2. KeyTypes'
  BY <1>1 DEF KeyTypes
<1>3. /\ stage'[w] = next /\ save'[w] = to
      /\ \A v \in Callers \ {w} :
           stage'[v] = stage[v] /\ save'[v] = save[v]
  BY DEF KeyTypes
<1>4. stage[w] # "none"
  BY DEF HasKey, SavingStage
<1>5. \A v \in Callers : /\ HasKey(v)' <=> HasKey(v)
                         /\ stage'[v] # "none" <=> stage[v] # "none"
  BY <1>3, <1>4 DEF HasKey
<1>6. SavingStage'
  BY <1>3 DEF SavingStage
<1>7. OwnFrames' /\ OwnKeys'
  BY <1>1, <1>5 DEF OwnFrames, OwnKeys
<1>8. /\ frame[w] \in Nat /\ key[w] \in Nat
      /\ frame[w] <= frames /\ key[w] <= Len(numbers)
      /\ Value(w).frame = frame[w] /\ Value(w).key = key[w]
      /\ Value(w) \in [frame : Nat, key : Nat]
  BY <1>4 DEF KeyTypes, OwnFrames, OwnKeys, Value
<1>9. StoredIsOlder'
  <2>1. \A v \in Callers :
          /\ HasKey(v) => (Value(w).frame = frame[v] <=> Value(w).key = key[v])
          /\ stage[v] # "none" /\ ~HasKey(v) => Value(w).frame # frame[v]
    BY <1>4, <1>8 DEF OwnFrames, OwnKeys, HasKey, SavingStage
  <2>2. \A s \in stored' : s \in stored \/ s = Value(w)
    OBVIOUS
  <2>3. stored' \subseteq [frame : Nat, key : Nat]
    BY <1>8 DEF StoredIsOlder
  <2>4. ASSUME NEW s \in stored'
        PROVE  /\ s.frame <= frames' /\ s.key <= Len(numbers')
               /\ \A v \in Callers :
                    /\ HasKey(v)' => (s.frame = frame'[v] <=> s.key = key'[v])
                    /\ stage'[v] # "none" /\ ~HasKey(v)' => s.frame # frame'[v]
    <3>1. CASE s \in stored
      BY <1>1, <1>5, <3>1 DEF StoredIsOlder
    <3>2. CASE s = Value(w)
      BY <1>1, <1>5, <1>8, <2>1, <3>2
    <3> QED
      BY <2>2, <3>1, <3>2
  <2> QED
    BY <2>3, <2>4 DEF StoredIsOlder
<1>10. OneCopy'
  <2>1. \A s \in stored : s.frame = Value(w).frame <=> s.key = Value(w).key
    BY <1>8 DEF StoredIsOlder
  <2>2. \A s, t \in stored' : s.frame = t.frame <=> s.key = t.key
    BY <2>1 DEF OneCopy
  <2>3. ASSUME NEW v \in Callers, stage'[v] = "metadata"
        PROVE  Value(v) \in stored'
    BY <1>3, <2>3 DEF OneCopy, Value
  <2> QED
    BY <1>1, <2>2, <2>3 DEF OneCopy, Value
<1> QED
  BY <1>2, <1>6, <1>7, <1>9, <1>10

\* The first two steps of a call, which number the frame and make its key.
LEMMA BeginCopy ==
  ASSUME CopyInv, NEW w \in Callers, ProcessBegins(w)
  PROVE  CopyInv'
<1> USE DEF CopyInv
<1>1. /\ stage[w] = "none" /\ stage' = [stage EXCEPT ![w] = "publish"]
      /\ frame' = [frame EXCEPT ![w] = frames + 1] /\ frames' = frames + 1
      /\ key' = key /\ numbers' = numbers /\ sequence' = sequence
      /\ stored' = stored /\ save' = save
  BY DEF ProcessBegins, Enter, keyVars, callVars
<1>2. KeyTypes'
  BY <1>1 DEF KeyTypes, Stages
<1>3. /\ stage'[w] = "publish" /\ frame'[w] = frames + 1 /\ save[w] = "idle"
      /\ \A v \in Callers \ {w} : stage'[v] = stage[v] /\ frame'[v] = frame[v]
      /\ \A v \in Callers : HasKey(v)' <=> HasKey(v)
  BY <1>1 DEF KeyTypes, SavingStage, HasKey
<1>4. SavingStage'
  BY <1>1, <1>3 DEF SavingStage
<1>5. OwnFrames'
  <2>1. \A v \in Callers \ {w} : stage[v] # "none" =>
          frame[v] <= frames /\ frame[v] # frames + 1 /\ frame[v] <= frames + 1
    BY DEF OwnFrames, KeyTypes
  <2> QED
    BY <1>1, <1>3, <2>1 DEF OwnFrames, KeyTypes
<1>6. OwnKeys'
  BY <1>1, <1>3 DEF OwnKeys
<1>7. StoredIsOlder'
  <2>1. \A s \in stored : /\ s.frame # frames + 1 /\ s.frame <= frames + 1
                          /\ s.key <= Len(numbers)
    BY DEF StoredIsOlder, KeyTypes
  <2>2. ~HasKey(w)
    BY <1>1, <1>3 DEF HasKey
  <2> QED
    BY <1>1, <1>3, <2>1, <2>2 DEF StoredIsOlder
<1>8. OneCopy'
  BY <1>1, <1>3 DEF OneCopy
<1> QED
  BY <1>2, <1>4, <1>5, <1>6, <1>7, <1>8

LEMMA SaveBeginsCopy ==
  ASSUME CopyInv, NEW w \in Callers, PublishSucceeds(w)
  PROVE  CopyInv'
<1> USE DEF CopyInv
<1>1. /\ stage[w] = "publish" /\ stage' = [stage EXCEPT ![w] = "save"]
      /\ save[w] = "idle" /\ save' = [save EXCEPT ![w] = "key"]
      /\ frame' = frame /\ frames' = frames /\ key' = key
      /\ numbers' = numbers /\ sequence' = sequence /\ stored' = stored
  BY DEF PublishSucceeds, SaveBegins, Enter, Go, keyVars, callVars
<1>2. KeyTypes'
  BY <1>1 DEF KeyTypes, Stages, SavePCs
<1>3. /\ stage'[w] = "save" /\ save'[w] = "key"
      /\ \A v \in Callers \ {w} : stage'[v] = stage[v] /\ save'[v] = save[v]
      /\ \A v \in Callers : /\ HasKey(v)' <=> HasKey(v)
                            /\ stage'[v] # "none" <=> stage[v] # "none"
                            /\ stage'[v] = "metadata" <=> stage[v] = "metadata"
  BY <1>1 DEF KeyTypes, HasKey
<1>4. SavingStage'
  BY <1>3 DEF SavingStage
<1>5. OwnFrames' /\ OwnKeys' /\ StoredIsOlder' /\ OneCopy'
  BY <1>1, <1>3 DEF OwnFrames, OwnKeys, StoredIsOlder, OneCopy
<1> QED
  BY <1>2, <1>4, <1>5

LEMMA KeyCopy ==
  ASSUME CopyInv, NEW w \in Callers, GenerateKey(w), UNCHANGED processVars
  PROVE  CopyInv'
<1> USE DEF CopyInv
<1> DEFINE n == Len(numbers)
<1>0. n \in Nat /\ numbers \in Seq(1 .. MaxSequence)
  BY DEF KeyTypes
<1>1. /\ save[w] = "key" /\ save' = [save EXCEPT ![w] = "client"]
      /\ key' = [key EXCEPT ![w] = n + 1]
      /\ numbers' = Append(numbers, NextSequence) /\ sequence' = NextSequence
      /\ frame' = frame /\ frames' = frames /\ stage' = stage
      /\ stored' = stored
  BY DEF GenerateKey, Go, processVars
<1>2. NextSequence \in 1 .. MaxSequence
  BY DEF NextSequence, KeyTypes
<1>3. numbers' \in Seq(1 .. MaxSequence) /\ Len(numbers') = n + 1
  BY <1>0, <1>1, <1>2
<1> HIDE DEF n
<1>4. KeyTypes'
  BY <1>0, <1>1, <1>2, <1>3 DEF KeyTypes, SavePCs
<1>5. /\ save'[w] = "client" /\ key'[w] = n + 1 /\ HasKey(w)' /\ ~HasKey(w)
      /\ stage[w] = "save"
      /\ \A v \in Callers \ {w} : /\ save'[v] = save[v] /\ key'[v] = key[v]
                                  /\ HasKey(v)' <=> HasKey(v)
  BY <1>1 DEF KeyTypes, HasKey, SavingStage
<1>6. SavingStage'
  BY <1>1, <1>5 DEF SavingStage
<1>7. OwnFrames'
  BY <1>1 DEF OwnFrames
<1>8. OwnKeys'
  <2>1. \A v \in Callers \ {w} : HasKey(v) =>
          key[v] <= n /\ key[v] # n + 1 /\ key[v] <= n + 1
    BY <1>0 DEF OwnKeys, KeyTypes, n
  <2>2. \A u, v \in Callers \ {w} : HasKey(u) /\ HasKey(v) /\ key[v] = key[u] => v = u
    BY DEF OwnKeys
  <2>3. ASSUME NEW v \in Callers, HasKey(v)'
        PROVE  /\ key'[v] <= n + 1
               /\ \A u \in Callers : HasKey(u)' /\ key'[u] = key'[v] => u = v
    <3>1. CASE v = w
      BY <1>0, <1>5, <2>1, <3>1
    <3>2. CASE v # w
      BY <1>0, <1>5, <2>1, <2>2, <2>3, <3>2
    <3> QED
      BY <3>1, <3>2
  <2> QED
    BY <1>3, <2>3 DEF OwnKeys
<1>9. StoredIsOlder'
  <2>1. \A s \in stored : /\ s.frame <= frames /\ s.frame # frame[w]
                          /\ s.key <= n + 1 /\ s.key # n + 1
    BY <1>0, <1>5 DEF StoredIsOlder, n
  <2> QED
    BY <1>1, <1>3, <1>5, <2>1 DEF StoredIsOlder
<1>10. OneCopy'
  BY <1>1, <1>5 DEF OneCopy
<1> QED
  BY <1>4, <1>6, <1>7, <1>8, <1>9, <1>10

LEMMA CopyStep ==
  ASSUME CopyInv, [Next]_vars
  PROVE  CopyInv'
<1>0. /\ save \in [Callers -> SavePCs] /\ stage \in [Callers -> Stages]
      /\ SavingStage
  BY DEF CopyInv, KeyTypes
<1>1. CASE UNCHANGED <<save, stage, frame, key, keyVars, frames, stored>>
  BY <1>1 DEF CopyInv, KeyTypes, SavingStage, OwnFrames, OwnKeys, StoredIsOlder,
              OneCopy, HasKey, keyVars
<1>2. CASE ConnectionTurns \/ Cancel \/ RedisOutage \/ UNCHANGED vars
  <2>1. UNCHANGED <<save, stage, frame, key, keyVars, frames, stored>>
    BY <1>2 DEF ConnectionTurns, Cancel, RedisOutage, RedisTurns, vars,
                storeVars, processVars, callVars
  <2> QED
    BY <1>1, <2>1
<1>3. ASSUME NEW w \in Callers,
             \/ PublishFails(w) \/ MetadataSucceeds(w) \/ MetadataFails(w)
             \/ SetFails(w, ctxDone) /\ Return(w, "save")
             \/ PingFails(w) /\ Return(w, "save")
      PROVE  CopyInv'
  <2>1. CASE PublishFails(w) \/ MetadataSucceeds(w) \/ MetadataFails(w)
    <3>1. PICK from \in {"publish", "metadata"} : Return(w, from)
      BY <2>1 DEF PublishFails, MetadataSucceeds, MetadataFails
    <3>2. save[w] = "idle"
      BY <1>0, <3>1 DEF Return, Enter, SavingStage
    <3>3. save' = save /\ UNCHANGED <<keyVars, stored>>
      BY <2>1 DEF PublishFails, MetadataSucceeds, MetadataFails
    <3>4. save' = [save EXCEPT ![w] = "idle"]
      BY <1>0, <3>2, <3>3
    <3> QED
      BY <3>1, <3>3, <3>4, ReturnCopy
  <2>2. CASE (SetFails(w, ctxDone) \/ PingFails(w)) /\ Return(w, "save")
    <3>1. /\ save[w] \in {"set", "ping"} /\ save' = [save EXCEPT ![w] = "idle"]
          /\ UNCHANGED keyVars
          /\ stored' = stored \/ stored' = stored \cup {Value(w)}
      BY <2>2 DEF SetFails, PingFails, SetReturns, Go, Stores, Value
    <3>2. HasKey(w)
      BY <3>1 DEF HasKey
    <3> QED
      BY <2>2, <3>1, <3>2, ReturnCopy
  <2> QED
    BY <1>3, <2>1, <2>2
<1>4. ASSUME NEW w \in Callers, UNCHANGED processVars,
             \/ GetClient(w) \/ SetFailsRetryably(w)
             \/ Reconnect(w) \/ PingSucceeds(w)
      PROVE  CopyInv'
  <2>1. PICK to \in {"client", "set", "lock", "ping"} :
          /\ save[w] \in {"client", "set", "lock", "ping"}
          /\ save' = [save EXCEPT ![w] = to]
    BY <1>4 DEF GetClient, SetFailsRetryably, Reconnect, PingSucceeds,
                SetReturns, Go
  <2>2. UNCHANGED <<frame, key, keyVars, frames, stage>>
    BY <1>4 DEF GetClient, SetFailsRetryably, Reconnect, PingSucceeds, callVars,
                processVars
  <2>3. stored' = stored \/ stored' = stored \cup {Value(w)}
    BY <1>4 DEF GetClient, SetFailsRetryably, Reconnect, PingSucceeds, Stores,
                Value
  <2>4. stage[w] = "save" /\ HasKey(w) /\ save'[w] = to
    BY <1>0, <2>1 DEF SavingStage, HasKey
  <2>5. stage' = [stage EXCEPT ![w] = "save"]
    BY <1>0, <2>2, <2>4
  <2>6. HasKey(w)'
    BY <2>1, <2>4 DEF HasKey
  <2>7. to \in SavePCs /\ to # "idle" /\ "save" \in Stages
    BY DEF SavePCs, Stages
  <2> QED
    BY <2>1, <2>2, <2>3, <2>4, <2>5, <2>6, <2>7, MoveCopy
<1>5. ASSUME NEW w \in Callers, ProcessGoesOn(w)
      PROVE  CopyInv'
  <2>1. /\ save[w] = "set" /\ save' = [save EXCEPT ![w] = "idle"]
        /\ stage' = [stage EXCEPT ![w] = "metadata"]
        /\ UNCHANGED <<frame, key, keyVars, frames>>
        /\ stored' = stored \cup {Value(w)}
    BY <1>5 DEF ProcessGoesOn, SetSucceeds, SetReturns, Go, Enter, Stores, Value
  <2>2. HasKey(w) /\ HasKey(w)'
    BY <1>0, <2>1 DEF HasKey
  <2>3. "idle" \in SavePCs /\ "metadata" \in Stages
    BY DEF SavePCs, Stages
  <2> QED
    BY <2>1, <2>2, <2>3, MoveCopy
<1>6. CASE UNCHANGED vars
  BY <1>2, <1>6
<1>7. CASE Next
  <2>1. CASE ConnectionTurns \/ Cancel \/ RedisOutage
    BY <1>2, <2>1
  <2>2. ASSUME NEW w \in Callers,
               \/ ProcessBegins(w) \/ PublishFails(w) \/ PublishSucceeds(w)
               \/ GenerateKey(w) /\ UNCHANGED processVars
               \/ GetClient(w) /\ UNCHANGED processVars
               \/ SetFailsRetryably(w) /\ UNCHANGED processVars
               \/ Reconnect(w) /\ UNCHANGED processVars
               \/ PingSucceeds(w) /\ UNCHANGED processVars
               \/ SetFails(w, ctxDone) /\ Return(w, "save")
               \/ PingFails(w) /\ Return(w, "save")
               \/ ProcessGoesOn(w)
               \/ MetadataSucceeds(w) \/ MetadataFails(w)
        PROVE  CopyInv'
    BY <2>2, <1>3, <1>4, <1>5, BeginCopy, SaveBeginsCopy, KeyCopy
  <2> QED
    BY <1>7, <2>1, <2>2, Steps
<1> QED
  BY <1>6, <1>7

LEMMA CopyCorrect == Spec => []CopyInv
<1>1. Init => CopyInv
  BY DEF Init, StoreInit, CopyInv, KeyTypes, SavingStage, OwnFrames, OwnKeys,
         StoredIsOlder, OneCopy, HasKey, SavePCs, Stages
<1>2. CopyInv /\ [Next]_vars => CopyInv'
  BY CopyStep
<1> QED
  BY <1>1, <1>2, PTL DEF Spec

\* Redis never has a frame twice nor two frames under one key, and the metadata
\* name the copy it has, however often calls are repeated and answers lost.
THEOREM CopiesAreUnique == Spec => []OneCopy
<1>1. CopyInv => OneCopy
  BY DEF CopyInv
<1> QED
  BY <1>1, CopyCorrect, PTL
-----------------------------------------------------------------------------
\* A Process has a frame, so that only frames are stored.
TypeInv == TypeOK /\ \A w \in Callers : stage[w] # "none" => frame[w] # 0

\* A client that is taken into use is one of Clients.
LEMMA NewClientTyped ==
  ASSUME Clients \ InUse # {}
  PROVE  NewClient \in Clients
  BY DEF NewClient

\* Callers store their own frame, under their key.
LEMMA StoredTyped ==
  ASSUME TypeInv, SavingStage, NEW w \in Callers, save[w] = "set",
         Stores(w) \/ UNCHANGED stored
  PROVE  stored' \subseteq [frame : 1 .. MaxFrames, key : Nat]
<1>1. frame[w] \in 0 .. MaxFrames /\ frame[w] # 0 /\ key[w] \in Nat
  BY DEF TypeInv, TypeOK, SavingStage
<1>2. frame[w] \in 1 .. MaxFrames
  BY <1>1
<1>3. [frame |-> frame[w], key |-> key[w]] \in [frame : 1 .. MaxFrames, key : Nat]
  BY <1>1, <1>2
<1> QED
  BY <1>3 DEF Stores, TypeInv, TypeOK

\* Every variable keeps its type; in particular the sequence numbers stay in
\* their range, and nothing but captured frames is stored.
THEOREM TypeCorrect == Spec => []TypeOK
<1>1. Init => TypeInv
  <2> SUFFICES ASSUME Init PROVE TypeInv
    OBVIOUS
  <2>1. client \in Clients /\ openClients \subseteq Clients
    BY ClientsAssumption DEF ClientsAssumption, Init, StoreInit
  <2>2. numbers \in Seq(1 .. MaxSequence)
    BY EmptySeq DEF Init, StoreInit
  <2>3. /\ redisUp \in BOOLEAN /\ ctxDone \in BOOLEAN
        /\ retried \in [Callers -> BOOLEAN]
    BY DEF Init, StoreInit
  <2>4. /\ save \in [Callers -> SavePCs]
        /\ stage \in [Callers -> Stages]
        /\ held \in [Callers -> Clients \cup {NoClient}]
    BY DEF Init, StoreInit, SavePCs, Stages
  <2>5. frame \in [Callers -> 0 .. MaxFrames] /\ key \in [Callers -> Nat]
    BY DEF Init, StoreInit
  <2>6. /\ sequence \in 0 .. MaxSequence /\ frames \in 0 .. MaxFrames
        /\ connection = "first" /\ stored = {}
    BY DEF Init, StoreInit
  <2>7. \A w \in Callers : stage[w] = "none"
    BY DEF Init
  <2> QED
    BY <2>1, <2>2, <2>3, <2>4, <2>5, <2>6, <2>7 DEF TypeInv, TypeOK
<1>2. TypeInv /\ SavingStage /\ [Next]_vars => TypeInv'
  <2> SUFFICES ASSUME TypeInv, SavingStage, [Next]_vars PROVE TypeInv'
    OBVIOUS
  <2>0. TypeOK
    BY DEF TypeInv
  <2> USE DEF TypeInv, TypeOK, SavePCs, Stages
  <2>1. CASE ConnectionTurns \/ Cancel \/ RedisOutage \/ UNCHANGED vars
    <3>1. UNCHANGED <<client, openClients, save, frame, key, held, retried,
                      sequence, numbers, stored, stage, frames>>
      BY <2>1 DEF ConnectionTurns, Cancel, RedisOutage, RedisTurns, vars,
                  storeVars, processVars, callVars, keyVars, clientVars
    <3>2. connection' \in {"first", "lost", "later"} /\ ctxDone' \in BOOLEAN
      BY <2>1 DEF ConnectionTurns, Cancel, RedisOutage, vars, processVars
    <3>3. redisUp' \in BOOLEAN
      BY <2>1, Zenon DEF ConnectionTurns, Cancel, RedisOutage, RedisTurns, vars,
                         storeVars
    <3> QED
      BY <3>1, <3>2, <3>3, Zenon
  <2>2. ASSUME NEW w \in Callers, ProcessBegins(w) PROVE TypeInv'
    <3>1. frames + 1 \in 1 .. MaxFrames
      BY <2>2 DEF ProcessBegins
    <3> QED
      BY <2>2, <3>1 DEF ProcessBegins, Enter, callVars, keyVars, clientVars
  <2>3. ASSUME NEW w \in Callers,
               PublishFails(w) \/ MetadataSucceeds(w) \/ MetadataFails(w)
        PROVE  TypeInv'
    <3>1. /\ stage' = [stage EXCEPT ![w] = "none"]
          /\ frame' = [frame EXCEPT ![w] = 0] /\ key' = [key EXCEPT ![w] = 0]
      BY <2>3 DEF PublishFails, MetadataSucceeds, MetadataFails, Return, Enter
    <3>2. UNCHANGED <<redisUp, client, openClients, save, held, retried, sequence,
                      numbers, stored, frames, connection, ctxDone>>
      BY <2>3 DEF PublishFails, MetadataSucceeds, MetadataFails, Return, keyVars,
                  clientVars
    <3> QED
      BY <3>1, <3>2
  <2>4. ASSUME NEW w \in Callers, PublishSucceeds(w) PROVE TypeInv'
    BY <2>4 DEF PublishSucceeds, Enter, SaveBegins, Go, callVars, keyVars,
                clientVars
  <2>5. ASSUME NEW w \in Callers, GenerateKey(w), UNCHANGED processVars
        PROVE  TypeInv'
    <3>1. NextSequence \in 1 .. MaxSequence
      BY DEF NextSequence
    <3>2. /\ Append(numbers, NextSequence) \in Seq(1 .. MaxSequence)
          /\ Len(numbers) + 1 \in Nat
      BY <3>1
    <3> HIDE DEF NextSequence
    <3>3. /\ sequence' = NextSequence /\ numbers' = Append(numbers, NextSequence)
          /\ key' = [key EXCEPT ![w] = Len(numbers) + 1]
          /\ save' = [save EXCEPT ![w] = "client"]
          /\ UNCHANGED <<redisUp, client, openClients, frame, held, retried, stored,
                         stage, frames, connection, ctxDone>>
      BY <2>5 DEF GenerateKey, Go, processVars, clientVars
    <3>4. key' \in [Callers -> Nat] /\ save' \in [Callers -> SavePCs]
      BY <3>2, <3>3
    <3>5. sequence' \in 0 .. MaxSequence /\ numbers' \in Seq(1 .. MaxSequence)
      BY <3>1, <3>2, <3>3
    <3> QED
      BY <3>3, <3>4, <3>5
  <2>6. ASSUME NEW w \in Callers, UNCHANGED processVars,
               GetClient(w) \/ PingSucceeds(w)
        PROVE  TypeInv'
    <3>1. save' \in [Callers -> SavePCs]
      BY <2>6 DEF GetClient, PingSucceeds, Go
    <3>2. held' \in [Callers -> Clients \cup {NoClient}] /\ retried' \in [Callers -> BOOLEAN]
      BY <2>6 DEF GetClient, PingSucceeds
    <3>3. UNCHANGED <<redisUp, client, openClients, frame, key, sequence, numbers,
                      stored, stage, frames, connection, ctxDone>>
      BY <2>6 DEF GetClient, PingSucceeds, processVars, clientVars, keyVars
    <3> QED
      BY <3>1, <3>2, <3>3
  <2>7. ASSUME NEW w \in Callers, UNCHANGED processVars, SetFailsRetryably(w)
        PROVE  TypeInv'
    <3>1. stored' \subseteq [frame : 1 .. MaxFrames, key : Nat]
      BY <2>7, StoredTyped DEF SetFailsRetryably, SetReturns, Go
    <3> QED
      BY <2>7, <3>1 DEF SetFailsRetryably, SetReturns, Go, processVars, clientVars,
                        keyVars
  <2>8. ASSUME NEW w \in Callers, UNCHANGED processVars, Reconnect(w)
        PROVE  TypeInv'
    <3>1. client' \in Clients
      BY <2>8, NewClientTyped DEF Reconnect
    <3> QED
      BY <2>8, <3>1 DEF Reconnect, Go, processVars, callVars, keyVars
  <2>9. ASSUME NEW w \in Callers, SetFails(w, ctxDone), Return(w, "save")
        PROVE  TypeInv'
    <3>1. stored' \subseteq [frame : 1 .. MaxFrames, key : Nat]
      BY <2>9, StoredTyped DEF SetFails, SetReturns, Go
    <3> QED
      BY <2>9, <3>1 DEF SetFails, SetReturns, SaveReturns, Go, Return, Enter,
                        clientVars, keyVars
  <2>10. ASSUME NEW w \in Callers, PingFails(w), Return(w, "save")
         PROVE  TypeInv'
    BY <2>10 DEF PingFails, SaveReturns, Go, Return, Enter, clientVars, keyVars
  <2>11. ASSUME NEW w \in Callers, ProcessGoesOn(w) PROVE TypeInv'
    <3>1. stored' \subseteq [frame : 1 .. MaxFrames, key : Nat]
      BY <2>11, StoredTyped DEF ProcessGoesOn, SetSucceeds, SetReturns, Go
    <3> QED
      BY <2>11, <3>1 DEF ProcessGoesOn, SetSucceeds, SetReturns, SaveReturns, Go,
                         Enter, clientVars, keyVars
  <2> QED
    <3> HIDE DEF TypeInv, TypeOK
    <3> QED
      BY <2>1, <2>2, <2>3, <2>4, <2>5, <2>6, <2>7, <2>8, <2>9, <2>10, <2>11, Steps
<1>3. CopyInv => SavingStage
  BY DEF CopyInv
<1>4. TypeInv => TypeOK
  BY DEF TypeInv
<1> QED
  BY <1>1, <1>2, <1>3, <1>4, CopyCorrect, PTL DEF Spec
=============================================================================
