------------------------- MODULE FfiBoundaryProofs -------------------------
(***************************************************************************)
(* The safety properties of FfiBoundary, for any number of isolates and    *)
(* threads and lists of every length.                                      *)
(***************************************************************************)
EXTENDS FfiBoundary, AmountsProofs, SequenceTheorems

-----------------------------------------------------------------------------
(***************************************************************************)
(* The reasons of failures.                                                *)
(***************************************************************************)

PCs == {"idle", "key", "body", "catch", "null", "returned", "finally"}

CallTypes ==
  /\ pc \in [Isolates -> PCs]
  /\ thread \in [Isolates -> Threads \cup {None}]
  /\ kind \in [Isolates -> Kinds \cup {None}]
  /\ failed \in [Isolates -> BOOLEAN]
  /\ lastError \in [Threads -> Isolates \cup {None}]
  /\ said \in [Isolates -> {None, "value", "not ours", "failed"}]
  /\ step \in [Isolates -> Nat]
  /\ DOMAIN outcome = Isolates

\* A call has a thread, which no other call is on, and a function.
Apart ==
  /\ \A i \in Isolates :
       /\ pc[i] = "idle" <=> thread[i] = None
       /\ pc[i] # "idle" => kind[i] \in Kinds
  /\ \A i, j \in Isolates : thread[i] # None /\ thread[i] = thread[j] => i = j

\* What a call has come to is what its function said.
OutcomeInOrder(i) ==
  /\ pc[i] # "finally" => outcome[i] = <<None, None>>
  /\ outcome[i][2] # None => outcome[i][2] = i /\ said[i] = "failed"
  /\ pc[i] = "returned" /\ failed[i] => said[i] = "failed"

\* A recorded reason is that of the call on the thread, which is about to
\* take it.
ReasonInOrder(t) ==
  lastError[t] # None =>
    \E i \in Isolates :
      thread[i] = t /\ pc[i] = "null" /\ lastError[t] = i /\ said[i] = "failed"

ReasonInv ==
  /\ CallTypes /\ Apart
  /\ \A i \in Isolates : OutcomeInOrder(i)
  /\ \A t \in Threads : ReasonInOrder(t)

LEMMA ReasonInit == FfiInit => ReasonInv
BY NoneAssumption, SMT DEF FfiInit, ReasonInv, CallTypes, PCs, Apart, OutcomeInOrder, ReasonInOrder

\* A step of call i that leaves its thread and its function alone.
StepOf(i) ==
  /\ \A j \in Isolates \ {i} :
       /\ pc'[j] = pc[j] /\ said'[j] = said[j] /\ failed'[j] = failed[j]
       /\ outcome'[j] = outcome[j]
  /\ \A t \in Threads \ {thread[i]} : lastError'[t] = lastError[t]
  /\ UNCHANGED <<thread, kind>>
  /\ pc[i] # "idle" /\ pc'[i] # "idle"

\* It keeps the invariant if it keeps it for the call and its thread.
LEMMA StepOfCall ==
  ASSUME ReasonInv, NEW i \in Isolates, StepOf(i), CallTypes', OutcomeInOrder(i)',
         ReasonInOrder(thread[i])'
  PROVE  ReasonInv'
<1>1. Apart'
  BY DEF ReasonInv, StepOf, Apart
<1>2. ASSUME NEW j \in Isolates PROVE OutcomeInOrder(j)'
  <2>1. CASE j = i
    BY <2>1
  <2>2. CASE j # i
    BY <2>2 DEF ReasonInv, StepOf, OutcomeInOrder
  <2> QED BY <2>1, <2>2
<1>3. ASSUME NEW t \in Threads PROVE ReasonInOrder(t)'
  <2>1. CASE t = thread[i]
    BY <2>1 DEF StepOf, ReasonInOrder
  <2>2. CASE t # thread[i]
    BY <2>2 DEF ReasonInv, StepOf, ReasonInOrder
  <2> QED BY <2>1, <2>2
<1> QED BY <1>1, <1>2, <1>3 DEF ReasonInv

\* There is no reason on the thread of a call that has none to take, and a
\* reason there is the call's own.
LEMMA OwnReason ==
  ASSUME ReasonInv, NEW i \in Isolates, pc[i] # "idle"
  PROVE  /\ thread[i] \in Threads /\ kind[i] \in Kinds
         /\ pc[i] # "null" => lastError[thread[i]] = None
         /\ lastError[thread[i]] # None => lastError[thread[i]] = i /\ said[i] = "failed"
<1>1. thread[i] \in Threads /\ kind[i] \in Kinds
  BY DEF ReasonInv, CallTypes, Apart
<1>2. ASSUME lastError[thread[i]] # None
      PROVE  pc[i] = "null" /\ lastError[thread[i]] = i /\ said[i] = "failed"
  <2>1. PICK j \in Isolates : /\ thread[j] = thread[i] /\ pc[j] = "null"
                              /\ lastError[thread[i]] = j /\ said[j] = "failed"
    BY <1>1, <1>2 DEF ReasonInv, ReasonInOrder
  <2>2. j = i
    BY <1>1, <2>1, NoneAssumption DEF ReasonInv, Apart
  <2> QED BY <2>1, <2>2
<1> QED BY <1>1, <1>2

\* A failure is recorded.
LEMMA RecordReason ==
  ASSUME ReasonInv, NEW i \in Isolates, pc[i] \in {"key", "body", "catch"}, Record(i),
         UNCHANGED <<thread, kind, failed, outcome>>, step' \in [Isolates -> Nat]
  PROVE  ReasonInv'
<1>1. /\ thread[i] \in Threads /\ outcome[i] = <<None, None>>
  BY OwnReason DEF ReasonInv, OutcomeInOrder
<1>2. /\ lastError' = [lastError EXCEPT ![thread[i]] = i]
      /\ said' = [said EXCEPT ![i] = "failed"] /\ pc' = [pc EXCEPT ![i] = "null"]
  BY DEF Record, Slot
<1>3. CallTypes'
  BY <1>1, <1>2 DEF ReasonInv, CallTypes, PCs
<1>4. StepOf(i)
  BY <1>1, <1>2 DEF ReasonInv, CallTypes, StepOf
<1>5. OutcomeInOrder(i)'
  BY <1>1, <1>2 DEF ReasonInv, CallTypes, OutcomeInOrder
<1>6. ReasonInOrder(thread[i])'
  <2>1. /\ thread'[i] = thread[i] /\ pc'[i] = "null" /\ lastError'[thread[i]] = i
        /\ said'[i] = "failed"
    BY <1>1, <1>2 DEF ReasonInv, CallTypes
  <2> QED BY <2>1 DEF ReasonInOrder
<1> QED BY <1>3, <1>4, <1>5, <1>6, StepOfCall

\* A call goes on without a failure, in the body or the catch block.
LEMMA GoOnReason ==
  ASSUME ReasonInv, NEW i \in Isolates, pc[i] \in {"key", "body", "catch"},
         NEW next \in {"body", "catch"}, pc' = [pc EXCEPT ![i] = next],
         UNCHANGED <<thread, kind, failed, outcome, lastError, said>>,
         step' \in [Isolates -> Nat]
  PROVE  ReasonInv'
<1>1. thread[i] \in Threads /\ lastError[thread[i]] = None
  BY OwnReason
<1>2. CallTypes'
  BY DEF ReasonInv, CallTypes, PCs
<1>3. StepOf(i)
  BY DEF ReasonInv, CallTypes, StepOf
<1>4. OutcomeInOrder(i)'
  BY DEF ReasonInv, CallTypes, OutcomeInOrder
<1>5. ReasonInOrder(thread[i])'
  BY <1>1 DEF ReasonInOrder
<1> QED BY <1>2, <1>3, <1>4, <1>5, StepOfCall

LEMMA BeginReason ==
  ASSUME ReasonInv, NEW i \in Isolates, NEW t \in Threads, NEW k \in Kinds,
         NEW withKey \in BOOLEAN, Begin(i, t, k, withKey)
  PROVE  ReasonInv'
<1>1. /\ pc[i] = "idle" /\ \A j \in Isolates : thread[j] # t
      /\ thread' = [thread EXCEPT ![i] = t] /\ kind' = [kind EXCEPT ![i] = k]
      /\ UNCHANGED <<step, failed, lastError, said, outcome>>
  BY DEF Begin
<1>2. \E next \in {"key", "body"} : pc' = [pc EXCEPT ![i] = next]
  BY DEF Begin
<1>3. CallTypes'
  BY <1>1, <1>2 DEF ReasonInv, CallTypes, PCs
<1>4. Apart'
  BY <1>1, <1>2, NoneAssumption DEF ReasonInv, CallTypes, Apart
<1>5. ASSUME NEW j \in Isolates PROVE OutcomeInOrder(j)'
  BY <1>1, <1>2 DEF ReasonInv, CallTypes, OutcomeInOrder
<1>6. ASSUME NEW u \in Threads PROVE ReasonInOrder(u)'
  <2>1. CASE lastError[u] = None
    BY <1>1, <2>1 DEF ReasonInOrder
  <2>2. CASE lastError[u] # None
    <3>1. PICK j \in Isolates :
            thread[j] = u /\ pc[j] = "null" /\ lastError[u] = j /\ said[j] = "failed"
      BY <2>2 DEF ReasonInv, ReasonInOrder
    <3>2. thread'[j] = u /\ pc'[j] = "null" /\ lastError'[u] = j /\ said'[j] = "failed"
      BY <1>1, <1>2, <3>1 DEF ReasonInv, CallTypes
    <3> QED BY <3>2 DEF ReasonInOrder
  <2> QED BY <2>1, <2>2
<1> QED BY <1>3, <1>4, <1>5, <1>6 DEF ReasonInv

LEMMA SucceedReason ==
  ASSUME ReasonInv, NEW i \in Isolates, pc[i] \in {"body", "catch"}, NEW steps,
         Succeed(i, steps)
  PROVE  ReasonInv'
<1>1. UNCHANGED <<thread, kind, lastError, outcome>>
  BY DEF Succeed
<1>2. CASE step[i] = Len(steps)
  <2>1. /\ pc' = [pc EXCEPT ![i] = "returned"] /\ UNCHANGED step
        /\ said' = [said EXCEPT ![i] = IF pc[i] = "body" THEN "value" ELSE "failed"]
        /\ failed' = [failed EXCEPT ![i] = pc[i] = "catch"]
    BY <1>2, Zenon DEF Succeed
  <2>2. thread[i] \in Threads /\ lastError[thread[i]] = None
    BY OwnReason
  <2>3. CallTypes'
    BY <1>1, <2>1 DEF ReasonInv, CallTypes, PCs
  <2>4. StepOf(i)
    BY <1>1, <2>1 DEF ReasonInv, CallTypes, StepOf
  <2>5. /\ pc'[i] = "returned" /\ outcome'[i] = <<None, None>>
        /\ failed'[i] => said'[i] = "failed"
    <3>1. outcome'[i] = <<None, None>> /\ pc'[i] = "returned"
      BY <1>1, <2>1 DEF ReasonInv, CallTypes, OutcomeInOrder
    <3>2. said'[i] = IF pc[i] = "body" THEN "value" ELSE "failed"
      BY <2>1, Zenon DEF ReasonInv, CallTypes
    <3>3. failed'[i] <=> pc[i] = "catch"
      BY <2>1, Zenon DEF ReasonInv, CallTypes
    <3> QED BY <3>1, <3>2, <3>3
  <2>6. OutcomeInOrder(i)'
    BY <2>5 DEF OutcomeInOrder
  <2>7. ReasonInOrder(thread[i])'
    BY <1>1, <2>2 DEF ReasonInOrder
  <2> QED BY <2>3, <2>4, <2>6, <2>7, StepOfCall
<1>3. CASE step[i] # Len(steps)
  <2>1. step' = [step EXCEPT ![i] = @ + 1] /\ UNCHANGED <<pc, said, failed>>
    BY <1>3, Zenon DEF Succeed
  <2>2. step' \in [Isolates -> Nat]
    <3>1. step \in [Isolates -> Nat]
      BY DEF ReasonInv, CallTypes
    <3> QED BY <2>1, <3>1
  <2>3. pc' = [pc EXCEPT ![i] = pc[i]]
    <3>1. DOMAIN pc = Isolates /\ pc = [j \in DOMAIN pc |-> pc[j]]
      BY DEF ReasonInv, CallTypes
    <3>2. [pc EXCEPT ![i] = pc[i]] = [j \in DOMAIN pc |-> pc[j]]
      OBVIOUS
    <3> QED BY <2>1, <3>1, <3>2
  <2> QED BY <1>1, <2>1, <2>2, <2>3, GoOnReason
<1> QED BY <1>2, <1>3

LEMMA ThrowsReason ==
  ASSUME ReasonInv, NEW i \in Isolates, pc[i] = "body", Throws(i)
  PROVE  ReasonInv'
<1>1. UNCHANGED <<thread, kind, failed, outcome>>
  BY DEF Throws
<1>2. CASE Handler(kind[i]) = <<>>
  <2>1. Record(i) /\ step' \in [Isolates -> Nat]
    BY <1>2 DEF Throws, ReasonInv, CallTypes
  <2> QED BY <1>1, <2>1, RecordReason
<1>3. CASE Handler(kind[i]) # <<>>
  <2>1. /\ pc' = [pc EXCEPT ![i] = "catch"] /\ step' = [step EXCEPT ![i] = 1]
        /\ UNCHANGED <<lastError, said>>
    BY <1>3 DEF Throws
  <2>2. step' \in [Isolates -> Nat]
    BY <2>1 DEF ReasonInv, CallTypes
  <2> QED BY <1>1, <2>1, <2>2, GoOnReason
<1> QED BY <1>2, <1>3

LEMMA FailsInPlaceReason ==
  ASSUME ReasonInv, NEW i \in Isolates, pc[i] \in {"body", "catch"}, NEW frees,
         FailsInPlace(i, frees)
  PROVE  ReasonInv'
<1>1. Record(i) /\ UNCHANGED <<thread, kind, step, failed, outcome>>
  BY DEF FailsInPlace
<1>2. step' \in [Isolates -> Nat]
  BY <1>1 DEF ReasonInv, CallTypes
<1> QED BY <1>1, <1>2, RecordReason

LEMMA OpenKeyReason ==
  ASSUME ReasonInv, NEW i \in Isolates, OpenKey(i)
  PROVE  ReasonInv'
<1>1. pc[i] = "key" /\ UNCHANGED <<thread, kind, step, failed, outcome>>
  BY DEF OpenKey
<1>2. step' \in [Isolates -> Nat]
  BY <1>1 DEF ReasonInv, CallTypes
<1>3. CASE pc' = [pc EXCEPT ![i] = "body"] /\ UNCHANGED <<lastError, said>>
  BY <1>1, <1>2, <1>3, GoOnReason
<1>4. CASE Record(i)
  BY <1>1, <1>2, <1>4, RecordReason
<1> QED BY <1>3, <1>4 DEF OpenKey

\* The reason is taken, or cleared before the coin is said not to be ours.
LEMMA ClearReason ==
  ASSUME ReasonInv, NEW i \in Isolates, pc[i] # "idle", NEW next \in PCs \ {"idle"},
         lastError' = [lastError EXCEPT ![thread[i]] = None],
         pc' = [pc EXCEPT ![i] = next], UNCHANGED <<thread, kind, step, failed>>,
         said' \in [Isolates -> {None, "value", "not ours", "failed"}],
         DOMAIN outcome' = Isolates,
         \A j \in Isolates \ {i} : outcome'[j] = outcome[j] /\ said'[j] = said[j],
         OutcomeInOrder(i)'
  PROVE  ReasonInv'
<1>1. thread[i] \in Threads
  BY OwnReason
<1>2. CallTypes'
  BY <1>1 DEF ReasonInv, CallTypes, PCs
<1>3. StepOf(i)
  BY <1>1 DEF ReasonInv, CallTypes, StepOf
<1>4. ReasonInOrder(thread[i])'
  BY <1>1 DEF ReasonInv, CallTypes, ReasonInOrder
<1> QED BY <1>2, <1>3, <1>4, StepOfCall

LEMMA NotOursReason ==
  ASSUME ReasonInv, NEW i \in Isolates, NotOurs(i)
  PROVE  ReasonInv'
<1>1. /\ pc[i] = "body" /\ lastError' = [lastError EXCEPT ![thread[i]] = None]
      /\ said' = [said EXCEPT ![i] = "not ours"] /\ pc' = [pc EXCEPT ![i] = "null"]
      /\ UNCHANGED <<thread, kind, step, failed, outcome>>
  BY DEF NotOurs, Slot
<1>2. OutcomeInOrder(i)'
  <2>1. outcome'[i] = <<None, None>> /\ pc'[i] = "null"
    BY <1>1 DEF ReasonInv, CallTypes, OutcomeInOrder
  <2> QED BY <2>1 DEF OutcomeInOrder
<1>3. /\ said' \in [Isolates -> {None, "value", "not ours", "failed"}]
      /\ DOMAIN outcome' = Isolates
      /\ \A j \in Isolates \ {i} : outcome'[j] = outcome[j] /\ said'[j] = said[j]
  BY <1>1 DEF ReasonInv, CallTypes
<1>4. "null" \in PCs \ {"idle"}
  BY DEF PCs
<1> QED BY <1>1, <1>2, <1>3, <1>4, ClearReason

LEMMA TakeReason ==
  ASSUME ReasonInv, NEW i \in Isolates, TakeLastError(i)
  PROVE  ReasonInv'
<1>1. /\ pc[i] = "null" /\ lastError' = [lastError EXCEPT ![thread[i]] = None]
      /\ pc' = [pc EXCEPT ![i] = "finally"]
      /\ UNCHANGED <<thread, kind, step, failed, said>>
  BY DEF TakeLastError, Slot, AfterReading
<1>2. \E what \in {lastError[thread[i]], None} :
        \E how : outcome' = [outcome EXCEPT ![i] = <<how, what>>]
  <2>1. PICK message \in {lastError[thread[i]], None} :
          outcome' = [outcome EXCEPT ![i] =
             IF kind[i] = "recover" /\ ptr[i][B("key")] = "live" /\ message = None
             THEN <<"not ours", None>> ELSE <<Reported(i), message>>]
    BY DEF TakeLastError, Slot
  <2>2. CASE kind[i] = "recover" /\ ptr[i][B("key")] = "live" /\ message = None
    <3>1. outcome' = [outcome EXCEPT ![i] = <<"not ours", message>>]
      BY <2>1, <2>2, Zenon
    <3> QED BY <3>1, Zenon
  <2>3. CASE ~(kind[i] = "recover" /\ ptr[i][B("key")] = "live" /\ message = None)
    <3>1. outcome' = [outcome EXCEPT ![i] = <<Reported(i), message>>]
      BY <2>1, <2>3, Zenon
    <3> QED BY <3>1, Zenon
  <2> QED BY <2>2, <2>3
<1>3. PICK what \in {lastError[thread[i]], None} :
        \E how : outcome' = [outcome EXCEPT ![i] = <<how, what>>]
  BY <1>2
<1>4. PICK how : outcome' = [outcome EXCEPT ![i] = <<how, what>>]
  BY <1>3
<1>5. OutcomeInOrder(i)'
  <2>1. what # None => what = i /\ said[i] = "failed"
    BY <1>1, OwnReason
  <2>2. outcome'[i] = <<how, what>> /\ pc'[i] = "finally" /\ said'[i] = said[i]
    BY <1>1, <1>4 DEF ReasonInv, CallTypes
  <2> QED BY <2>1, <2>2 DEF OutcomeInOrder
<1>6. /\ said' \in [Isolates -> {None, "value", "not ours", "failed"}]
      /\ DOMAIN outcome' = Isolates
      /\ \A j \in Isolates \ {i} : outcome'[j] = outcome[j] /\ said'[j] = said[j]
  BY <1>1, <1>4 DEF ReasonInv, CallTypes
<1>7. "finally" \in PCs \ {"idle"}
  BY DEF PCs
<1> QED BY <1>1, <1>5, <1>6, <1>7, ClearReason

LEMMA ConsumeReason ==
  ASSUME ReasonInv, NEW i \in Isolates, Consume(i)
  PROVE  ReasonInv'
<1>1. /\ pc[i] = "returned" /\ pc' = [pc EXCEPT ![i] = "finally"]
      /\ UNCHANGED <<thread, kind, step, failed, lastError, said>>
      /\ outcome' = [outcome EXCEPT ![i] =
                       IF failed[i] THEN <<Reported(i), i>> ELSE <<"value", None>>]
  BY DEF Consume
<1>2. thread[i] \in Threads /\ lastError[thread[i]] = None
  BY <1>1, OwnReason
<1>3. OutcomeInOrder(i)'
  <2>1. failed[i] => said'[i] = "failed"
    BY <1>1 DEF ReasonInv, OutcomeInOrder
  <2>2. outcome'[i] = IF failed[i] THEN <<Reported(i), i>> ELSE <<"value", None>>
    BY <1>1, Zenon DEF ReasonInv, CallTypes
  <2>3. outcome'[i][2] # None => outcome'[i][2] = i /\ failed[i]
    <3>1. CASE failed[i]
      BY <2>2, <3>1
    <3>2. CASE ~failed[i]
      BY <2>2, <3>2
    <3> QED BY <3>1, <3>2
  <2>4. pc'[i] = "finally"
    BY <1>1 DEF ReasonInv, CallTypes
  <2> QED BY <2>1, <2>3, <2>4 DEF OutcomeInOrder
<1>4. CallTypes'
  BY <1>1 DEF ReasonInv, CallTypes, PCs
<1>5. StepOf(i)
  BY <1>1 DEF ReasonInv, CallTypes, StepOf
<1>6. ReasonInOrder(thread[i])'
  BY <1>1, <1>2 DEF ReasonInOrder
<1> QED BY <1>3, <1>4, <1>5, <1>6, StepOfCall

LEMMA FinishReason ==
  ASSUME ReasonInv, NEW i \in Isolates, Finish(i)
  PROVE  ReasonInv'
<1>1. /\ pc[i] = "finally" /\ pc' = [pc EXCEPT ![i] = "idle"]
      /\ thread' = [thread EXCEPT ![i] = None] /\ kind' = [kind EXCEPT ![i] = None]
      /\ step' = [step EXCEPT ![i] = 1] /\ failed' = [failed EXCEPT ![i] = FALSE]
      /\ said' = [said EXCEPT ![i] = None]
      /\ outcome' = [outcome EXCEPT ![i] = <<None, None>>] /\ UNCHANGED lastError
  BY DEF Finish
<1>2. CallTypes'
  BY <1>1 DEF ReasonInv, CallTypes, PCs
<1>3. Apart'
  BY <1>1 DEF ReasonInv, CallTypes, Apart
<1>4. ASSUME NEW j \in Isolates PROVE OutcomeInOrder(j)'
  <2>1. CASE j = i
    BY <1>1, <2>1 DEF ReasonInv, CallTypes, OutcomeInOrder
  <2>2. CASE j # i
    BY <1>1, <2>2 DEF ReasonInv, CallTypes, OutcomeInOrder
  <2> QED BY <2>1, <2>2
<1>5. ASSUME NEW t \in Threads PROVE ReasonInOrder(t)'
  <2>1. CASE lastError[t] = None
    BY <1>1, <2>1 DEF ReasonInOrder
  <2>2. CASE lastError[t] # None
    <3>1. PICK j \in Isolates :
            thread[j] = t /\ pc[j] = "null" /\ lastError[t] = j /\ said[j] = "failed"
      BY <2>2 DEF ReasonInv, ReasonInOrder
    <3>2. thread'[j] = t /\ pc'[j] = "null" /\ lastError'[t] = j /\ said'[j] = "failed"
      BY <1>1, <3>1 DEF ReasonInv, CallTypes
    <3> QED BY <3>2 DEF ReasonInOrder
  <2> QED BY <2>1, <2>2
<1> QED BY <1>2, <1>3, <1>4, <1>5 DEF ReasonInv

LEMMA ReasonStep == ReasonInv /\ [FfiNext]_ffiVars => ReasonInv'
<1> SUFFICES ASSUME ReasonInv, [FfiNext]_ffiVars PROVE ReasonInv'
  OBVIOUS
<1>1. ASSUME NEW i \in Isolates, NEW t \in Threads, NEW k \in Kinds,
             NEW withKey \in BOOLEAN, Begin(i, t, k, withKey)
      PROVE  ReasonInv'
  BY <1>1, BeginReason
<1>2. ASSUME NEW i \in Isolates, RunBody(i) PROVE ReasonInv'
  <2> DEFINE s == Body(kind[i])[step[i]]
  <2>1. pc[i] = "body"
    BY <1>2 DEF RunBody
  <2>2. CASE Succeed(i, Body(kind[i]))
    BY <2>1, <2>2, SucceedReason
  <2>3. CASE Throws(i)
    BY <2>1, <2>3, ThrowsReason
  <2>4. CASE FailsInPlace(i, s.frees)
    BY <2>1, <2>4, FailsInPlaceReason
  <2> QED BY <1>2, <2>2, <2>3, <2>4, Zenon DEF RunBody
<1>3. ASSUME NEW i \in Isolates, RunCatch(i) PROVE ReasonInv'
  <2> DEFINE s == Handler(kind[i])[step[i]]
  <2>1. pc[i] = "catch"
    BY <1>3 DEF RunCatch
  <2>2. CASE Succeed(i, Handler(kind[i]))
    BY <2>1, <2>2, SucceedReason
  <2>3. CASE FailsInPlace(i, s.frees)
    BY <2>1, <2>3, FailsInPlaceReason
  <2> QED BY <1>3, <2>2, <2>3, Zenon DEF RunCatch
<1>4. CASE UNCHANGED ffiVars
  <2>1. UNCHANGED <<pc, thread, kind, step, failed, lastError, said, outcome>>
    BY <1>4 DEF ffiVars
  <2>2. CallTypes' /\ Apart'
    BY <2>1 DEF ReasonInv, CallTypes, Apart
  <2>3. \A i \in Isolates : OutcomeInOrder(i)'
    BY <2>1 DEF ReasonInv, OutcomeInOrder
  <2>4. \A t \in Threads : ReasonInOrder(t)'
    BY <2>1 DEF ReasonInv, ReasonInOrder
  <2> QED BY <2>2, <2>3, <2>4 DEF ReasonInv
<1> QED BY <1>1, <1>2, <1>3, <1>4, OpenKeyReason, NotOursReason, TakeReason,
           ConsumeReason, FinishReason, Zenon DEF FfiNext

-----------------------------------------------------------------------------
(***************************************************************************)
(* Lists of blocks to free.                                                *)
(***************************************************************************)

\* A nonempty set of positions has a last one.
LEMMA LastPosition ==
  ASSUME NEW N \in Nat, NEW s \in SUBSET (1 .. N), s # {}
  PROVE  Max(s) \in s /\ \A y \in s : Max(s) >= y
<1> DEFINE T == {y \in Nat : \A x \in s : x <= y}
<1>1. N \in T
  OBVIOUS
<1>2. PICK m \in T : \A y \in T : m <= y
  BY <1>1, LeastNat, Zenon
<1>3. m \in s
  <2> SUFFICES ASSUME m \notin s PROVE FALSE
    OBVIOUS
  <2>1. m \in Nat /\ m # 0 /\ \A x \in s : x \in Nat /\ x <= m - 1
    <3>1. m \in Nat /\ \A x \in s : x \in Nat /\ x <= m /\ x # m /\ x >= 1
      OBVIOUS
    <3>2. PICK z : z \in s
      OBVIOUS
    <3> HIDE DEF T
    <3>3. z \in Nat /\ z >= 1 /\ z <= m
      BY <3>1, <3>2
    <3>4. \A x \in Nat : x <= m /\ x # m => x <= m - 1
      BY <3>1
    <3> QED BY <3>1, <3>3, <3>4
  <2>2. m - 1 \in T
    BY <2>1
  <2>3. m <= m - 1
    BY <1>2, <2>2
  <2> HIDE DEF T
  <2> QED BY <2>1, <2>3
<1>4. \A y \in s : m >= y
  BY <1>2
<1>5. \E x \in s : \A y \in s : x >= y
  BY <1>3, <1>4
<1> QED BY <1>5, Zenon DEF Max

\* What FoldLeft computes exists.
IsFoldLeft(N, base, next, g) ==
  \A s \in SUBSET (1 .. N) :
    g[s] = IF s = {} THEN base ELSE next[Max(s)][g[s \ {Max(s)}]]

LEMMA FoldLeftExists ==
  ASSUME NEW N \in Nat, NEW V, NEW base \in V, NEW next \in [1 .. N -> [V -> V]]
  PROVE  \E g \in [SUBSET (1 .. N) -> V] : IsFoldLeft(N, base, next, g)
<1> DEFINE pick == [s \in SUBSET (1 .. N) |-> Max(s)]
<1>1. \A s \in SUBSET (1 .. N) : s # {} => pick[s] \in s
  BY LastPosition
<1>2. IsFiniteSet(1 .. N)
  BY FS_Interval
<1>3. \A s \in SUBSET (1 .. N) : pick[s] = Max(s)
  OBVIOUS
<1> HIDE DEF pick
<1>4. PICK g \in [SUBSET (1 .. N) -> V] : IsFold(1 .. N, base, pick, next, g)
  BY <1>1, <1>2, FoldExists
<1>5. ASSUME NEW s \in SUBSET (1 .. N)
      PROVE  g[s] = IF s = {} THEN base ELSE next[Max(s)][g[s \ {Max(s)}]]
  <2>1. g[s] = IF s = {} THEN base ELSE next[pick[s]][g[s \ {pick[s]}]]
    BY <1>4 DEF IsFold
  <2>2. pick[s] = Max(s)
    BY <1>3
  <2> QED BY <2>1, <2>2, Zenon
<1> QED BY <1>5 DEF IsFoldLeft

\* The positions up to m.
LEMMA LastOf ==
  ASSUME NEW N \in Nat, NEW m \in Nat, m + 1 <= N
  PROVE  /\ 1 .. m + 1 \in SUBSET (1 .. N) /\ 1 .. m + 1 # {}
         /\ Max(1 .. m + 1) = m + 1 /\ (1 .. m + 1) \ {m + 1} = 1 .. m
<1>1. 1 .. m + 1 \in SUBSET (1 .. N) /\ m + 1 \in 1 .. m + 1
  OBVIOUS
<1>2. /\ Max(1 .. m + 1) \in 1 .. m + 1
      /\ \A y \in 1 .. m + 1 : Max(1 .. m + 1) >= y
  BY <1>1, LastPosition
<1>3. Max(1 .. m + 1) = m + 1
  BY <1>1, <1>2
<1> QED BY <1>1, <1>3

\* The blocks of a list, freed once each.
Once(list) == \A m, n \in 1 .. Len(list) : list[m] = list[n] => m = n

FreedTo(p, list, m) ==
  [b \in Blocks |-> IF p[b] = "live" /\ b \in {list[n] : n \in 1 .. m}
                    THEN "freed" ELSE p[b]]

\* Freeing block list[m + 1].
LEMMA FreedNext ==
  ASSUME NEW p \in [Blocks -> PointerStates], NEW list \in Seq(Blocks), Once(list),
         NEW m \in Nat, m + 1 <= Len(list)
  PROVE  LET b == list[m + 1]
             q == FreedTo(p, list, m)
         IN  /\ q[b] = p[b]
             /\ p[b] = "absent" => FreedTo(p, list, m + 1) = q
             /\ p[b] \in {"live", "null"} => FreedTo(p, list, m + 1) = Freed(q, b)
<1> DEFINE b == list[m + 1]
           q == FreedTo(p, list, m)
           D(n) == {list[x] : x \in 1 .. n}
<1>1. b \in Blocks
  BY ElementOfSeq
<1>2. b \notin D(m)
  BY DEF Once
<1>3. D(m + 1) = D(m) \cup {b}
  OBVIOUS
<1>4. /\ q = [c \in Blocks |-> IF p[c] = "live" /\ c \in D(m) THEN "freed" ELSE p[c]]
      /\ FreedTo(p, list, m + 1) =
           [c \in Blocks |-> IF p[c] = "live" /\ c \in D(m + 1) THEN "freed" ELSE p[c]]
  BY DEF FreedTo
<1> HIDE DEF q, D, b
<1>5. q[b] = p[b]
  BY <1>1, <1>2, <1>4
<1>6. CASE p[b] = "absent"
  <2>1. FreedTo(p, list, m + 1) = q
    BY <1>3, <1>4, <1>6
  <2> QED BY <1>5, <1>6, <2>1 DEF b, q
<1>7. CASE p[b] = "live"
  <2>1. Freed(q, b) = [q EXCEPT ![b] = "freed"]
    BY <1>5, <1>7 DEF Freed
  <2>2. FreedTo(p, list, m + 1) = [q EXCEPT ![b] = "freed"]
    BY <1>1, <1>3, <1>4, <1>7
  <2> QED BY <1>5, <1>7, <2>1, <2>2 DEF b, q
<1>8. CASE p[b] = "null"
  <2>1. Freed(q, b) = [q EXCEPT ![b] = "null"]
    BY <1>5, <1>8 DEF Freed
  <2>2. FreedTo(p, list, m + 1) = [q EXCEPT ![b] = "null"]
    BY <1>1, <1>3, <1>4, <1>8
  <2> QED BY <1>5, <1>8, <2>1, <2>2 DEF b, q
<1>9. p[b] \notin {"absent", "live", "null"} => q[b] = p[b]
  BY <1>5
<1> QED BY <1>5, <1>6, <1>7, <1>8 DEF b, q

\* What the native cleanups leave, ...
LEMMA FreedAllOnce ==
  ASSUME NEW p \in [Blocks -> PointerStates], NEW list \in Seq(Blocks), Once(list),
         \A n \in 1 .. Len(list) : p[list[n]] \in {"absent", "live", "null"}
  PROVE  FreedAll(p, list) = FreedTo(p, list, Len(list))
<1> DEFINE N == Len(list)
           V == [Blocks -> PointerStates \cup {"corrupt"}]
           op(q, b) == IF q[b] = "absent" THEN q ELSE Freed(q, b)
           next == [n \in 1 .. N |-> [q \in V |-> op(q, list[n])]]
           Folds(g) == g = [s \in SUBSET (1 .. N) |->
                              IF s = {} THEN p ELSE op(g[s \ {Max(s)}], list[Max(s)])]
<1>1. N \in Nat /\ DOMAIN list = 1 .. N /\ \A n \in 1 .. N : list[n] \in Blocks
  BY LenProperties, ElementOfSeq
<1>2. p \in V /\ next \in [1 .. N -> [V -> V]]
  <2>1. \A q \in V, b \in Blocks : Freed(q, b) \in V
    BY DEF Freed, PointerStates
  <2>2. \A q \in V, b \in Blocks : op(q, b) \in V
    <3> HIDE DEF V
    <3> QED BY <2>1
  <2>3. p \in V
    OBVIOUS
  <2> HIDE DEF op, V
  <2> QED BY <1>1, <2>2, <2>3
<1>3. PICK g \in [SUBSET (1 .. N) -> V] : IsFoldLeft(N, p, next, g)
  <2> HIDE DEF next, V, N
  <2> QED BY <1>1, <1>2, FoldLeftExists
<1>4. Folds(g)
  <2>1. ASSUME NEW s \in SUBSET (1 .. N), s # {}
        PROVE  g[s] = op(g[s \ {Max(s)}], list[Max(s)])
    <3>1. g[s] = next[Max(s)][g[s \ {Max(s)}]]
      BY <1>3, <2>1 DEF IsFoldLeft
    <3>2. Max(s) \in 1 .. N /\ g[s \ {Max(s)}] \in V
      BY <1>1, <2>1, LastPosition
    <3> HIDE DEF op, V, N
    <3> QED BY <3>1, <3>2
  <2>2. g[{}] = p
    BY <1>3 DEF IsFoldLeft
  <2> HIDE DEF op, V, N
  <2> QED BY <2>1, <2>2
<1> DEFINE fold == CHOOSE h : Folds(h)
<1>5. Folds(fold)
  BY <1>4, Zenon
<1>6. FreedAll(p, list) = fold[1 .. N]
  BY <1>1, Zenon DEF FreedAll, FoldLeft, MapThenFoldSet
<1> DEFINE H == {m \in Nat : m <= N => fold[1 .. m] = FreedTo(p, list, m)}
<1>7. 0 \in H
  <2>1. FreedTo(p, list, 0) = p
    BY DEF FreedTo
  <2>2. 1 .. 0 = {} /\ {} \in SUBSET (1 .. N)
    OBVIOUS
  <2> HIDE DEF fold, op
  <2>3. fold[{}] = p
    BY <1>5, <2>2
  <2> QED BY <2>1, <2>2, <2>3
<1>8. ASSUME NEW m \in Nat, m \in H PROVE m + 1 \in H
  <2> SUFFICES ASSUME m + 1 <= N PROVE fold[1 .. m + 1] = FreedTo(p, list, m + 1)
    OBVIOUS
  <2> DEFINE q == FreedTo(p, list, m)
             b == list[m + 1]
  <2>1. m + 1 \in 1 .. N /\ m <= N
    BY <1>1
  <2>2. fold[1 .. m] = q
    BY <1>8, <2>1
  <2>3. fold[1 .. m + 1] = op(fold[1 .. m], b)
    <3>1. /\ 1 .. m + 1 \in SUBSET (1 .. N) /\ 1 .. m + 1 # {}
          /\ Max(1 .. m + 1) = m + 1 /\ (1 .. m + 1) \ {m + 1} = 1 .. m
      BY <1>1, LastOf
    <3> DEFINE S == 1 .. m + 1
    <3>2. S \in SUBSET (1 .. N) /\ S # {}
      BY <3>1
    <3> HIDE DEF fold, op, S
    <3>3. fold[S] = op(fold[S \ {Max(S)}], list[Max(S)])
      BY <1>5, <3>2
    <3> QED BY <3>1, <3>3, Zenon DEF S
  <2>4. op(q, b) = FreedTo(p, list, m + 1)
    <3>1. /\ q[b] = p[b] /\ p[b] \in {"absent", "live", "null"}
          /\ p[b] = "absent" => FreedTo(p, list, m + 1) = q
          /\ p[b] \in {"live", "null"} => FreedTo(p, list, m + 1) = Freed(q, b)
      BY <2>1, FreedNext
    <3> HIDE DEF q, b
    <3> QED BY <3>1
  <2> QED BY <2>2, <2>3, <2>4
<1> HIDE DEF H
<1>9. Nat \subseteq H
  BY <1>7, <1>8, Induction
<1>10. fold[1 .. N] = FreedTo(p, list, N)
  <2> HIDE DEF fold, N
  <2> QED BY <1>1, <1>9 DEF H
<1> QED BY <1>6, <1>10, Zenon

\* ... and the Dart ones.
LEMMA FreedOnce ==
  ASSUME NEW p \in [Blocks -> PointerStates], NEW list \in Seq(Blocks), Once(list),
         \A n \in 1 .. Len(list) : p[list[n]] \in {"live", "null"}
  PROVE  FoldLeft(Freed, p, list) = FreedTo(p, list, Len(list))
<1> DEFINE N == Len(list)
           V == [Blocks -> PointerStates \cup {"corrupt"}]
           op(q, b) == Freed(q, b)
           next == [n \in 1 .. N |-> [q \in V |-> op(q, list[n])]]
           Folds(g) == g = [s \in SUBSET (1 .. N) |->
                              IF s = {} THEN p ELSE op(g[s \ {Max(s)}], list[Max(s)])]
<1>1. N \in Nat /\ DOMAIN list = 1 .. N /\ \A n \in 1 .. N : list[n] \in Blocks
  BY LenProperties, ElementOfSeq
<1>2. p \in V /\ next \in [1 .. N -> [V -> V]]
  <2>1. \A q \in V, b \in Blocks : Freed(q, b) \in V
    BY DEF Freed, PointerStates
  <2>2. \A q \in V, b \in Blocks : op(q, b) \in V
    <3> HIDE DEF V
    <3> QED BY <2>1
  <2>3. p \in V
    OBVIOUS
  <2> HIDE DEF op, V
  <2> QED BY <1>1, <2>2, <2>3
<1>3. PICK g \in [SUBSET (1 .. N) -> V] : IsFoldLeft(N, p, next, g)
  <2> HIDE DEF next, V, N
  <2> QED BY <1>1, <1>2, FoldLeftExists
<1>4. Folds(g)
  <2>1. ASSUME NEW s \in SUBSET (1 .. N), s # {}
        PROVE  g[s] = op(g[s \ {Max(s)}], list[Max(s)])
    <3>1. g[s] = next[Max(s)][g[s \ {Max(s)}]]
      BY <1>3, <2>1 DEF IsFoldLeft
    <3>2. Max(s) \in 1 .. N /\ g[s \ {Max(s)}] \in V
      BY <1>1, <2>1, LastPosition
    <3> HIDE DEF op, V, N
    <3> QED BY <3>1, <3>2
  <2>2. g[{}] = p
    BY <1>3 DEF IsFoldLeft
  <2> HIDE DEF op, V, N
  <2> QED BY <2>1, <2>2
<1> DEFINE fold == CHOOSE h : Folds(h)
<1>5. Folds(fold)
  BY <1>4, Zenon
<1>6. FoldLeft(Freed, p, list) = fold[1 .. N]
  BY <1>1, Zenon DEF FoldLeft, MapThenFoldSet
<1> DEFINE H == {m \in Nat : m <= N => fold[1 .. m] = FreedTo(p, list, m)}
<1>7. 0 \in H
  <2>1. FreedTo(p, list, 0) = p
    BY DEF FreedTo
  <2>2. 1 .. 0 = {} /\ {} \in SUBSET (1 .. N)
    OBVIOUS
  <2> HIDE DEF fold, op
  <2>3. fold[{}] = p
    BY <1>5, <2>2
  <2> QED BY <2>1, <2>2, <2>3
<1>8. ASSUME NEW m \in Nat, m \in H PROVE m + 1 \in H
  <2> SUFFICES ASSUME m + 1 <= N PROVE fold[1 .. m + 1] = FreedTo(p, list, m + 1)
    OBVIOUS
  <2> DEFINE q == FreedTo(p, list, m)
             b == list[m + 1]
  <2>1. m + 1 \in 1 .. N /\ m <= N
    BY <1>1
  <2>2. fold[1 .. m] = q
    BY <1>8, <2>1
  <2>3. fold[1 .. m + 1] = op(fold[1 .. m], b)
    <3>1. /\ 1 .. m + 1 \in SUBSET (1 .. N) /\ 1 .. m + 1 # {}
          /\ Max(1 .. m + 1) = m + 1 /\ (1 .. m + 1) \ {m + 1} = 1 .. m
      BY <1>1, LastOf
    <3> DEFINE S == 1 .. m + 1
    <3>2. S \in SUBSET (1 .. N) /\ S # {}
      BY <3>1
    <3> HIDE DEF fold, op, S
    <3>3. fold[S] = op(fold[S \ {Max(S)}], list[Max(S)])
      BY <1>5, <3>2
    <3> QED BY <3>1, <3>3, Zenon DEF S
  <2>4. op(q, b) = FreedTo(p, list, m + 1)
    <3>1. /\ q[b] = p[b] /\ p[b] \in {"live", "null"}
          /\ p[b] = "absent" => FreedTo(p, list, m + 1) = q
          /\ p[b] \in {"live", "null"} => FreedTo(p, list, m + 1) = Freed(q, b)
      BY <2>1, FreedNext
    <3> HIDE DEF q, b
    <3> QED BY <3>1
  <2> QED BY <2>2, <2>3, <2>4
<1> HIDE DEF H
<1>9. Nat \subseteq H
  BY <1>7, <1>8, Induction
<1>10. fold[1 .. N] = FreedTo(p, list, N)
  <2> HIDE DEF fold, N
  <2> QED BY <1>1, <1>9 DEF H
<1> QED BY <1>6, <1>10, Zenon

\* A list that frees each block of M, once.
Members(list) == {list[n] : n \in 1 .. Len(list)}
FreesEach(list, M) == list \in Seq(Blocks) /\ Once(list) /\ Members(list) = M

LEMMA FreesBoth ==
  ASSUME NEW s, NEW M, FreesEach(s, M), NEW t, NEW L, FreesEach(t, L), M \cap L = {}
  PROVE  FreesEach(s \o t, M \cup L)
<1> DEFINE u == s \o t
           m == Len(s)
           n == Len(t)
<1>1. s \in Seq(Blocks) /\ t \in Seq(Blocks)
  BY DEF FreesEach
<1>2. m \in Nat /\ n \in Nat
  BY <1>1, LenProperties
<1>3. /\ u \in Seq(Blocks) /\ Len(u) = m + n
      /\ \A i \in 1 .. m + n : u[i] = IF i <= m THEN s[i] ELSE t[i - m]
  BY <1>1, ConcatProperties
<1> HIDE DEF u, m, n
<1>4. \A i \in 1 .. m : i \in 1 .. m + n /\ u[i] = s[i]
  BY <1>2, <1>3
<1>5. \A i \in 1 .. n : i + m \in 1 .. m + n /\ u[i + m] = t[i]
  BY <1>2, <1>3
<1>6. \A i \in 1 .. m + n : i \in 1 .. m \/ (i - m \in 1 .. n /\ u[i] = t[i - m])
  BY <1>2, <1>3
<1>7. /\ \A i \in 1 .. m : s[i] \in M
      /\ \A i \in 1 .. n : t[i] \in L
      /\ \A b \in M : \E i \in 1 .. m : s[i] = b
      /\ \A b \in L : \E i \in 1 .. n : t[i] = b
      /\ \A i, j \in 1 .. m : s[i] = s[j] => i = j
      /\ \A i, j \in 1 .. n : t[i] = t[j] => i = j
  BY DEF FreesEach, Members, Once, m, n
<1>8. Once(u)
  <2> SUFFICES ASSUME NEW i \in 1 .. m + n, NEW j \in 1 .. m + n, u[i] = u[j] PROVE i = j
    BY <1>3 DEF Once
  <2>1. CASE i \in 1 .. m /\ j \in 1 .. m
    BY <1>4, <1>7, <2>1
  <2>2. CASE i - m \in 1 .. n /\ j - m \in 1 .. n /\ u[i] = t[i - m] /\ u[j] = t[j - m]
    <3>1. i - m = j - m
      BY <1>7, <2>2
    <3> QED BY <1>2, <3>1
  <2>3. CASE i \in 1 .. m /\ j - m \in 1 .. n /\ u[j] = t[j - m]
    BY <1>4, <1>7, <2>3
  <2>4. CASE j \in 1 .. m /\ i - m \in 1 .. n /\ u[i] = t[i - m]
    BY <1>4, <1>7, <2>4
  <2> QED BY <1>6, <2>1, <2>2, <2>3, <2>4
<1>9. Members(u) = M \cup L
  <2>1. \A i \in 1 .. m + n : u[i] \in M \cup L
    BY <1>4, <1>6, <1>7
  <2>2. \A b \in M \cup L : \E i \in 1 .. m + n : u[i] = b
    BY <1>4, <1>5, <1>7
  <2> QED BY <1>3, <2>1, <2>2 DEF Members
<1> QED BY <1>3, <1>8, <1>9 DEF FreesEach, u

\* The element loops: one block per element, ...
LEMMA EachOne ==
  ASSUME NEW x, Elements({x}) \subseteq Blocks
  PROVE  FreesEach(Each(<<x>>), Elements({x}))
<1> DEFINE e == [n \in 1 .. Items |-> <<x, n>>]
<1>1. Each(<<x>>) = e
  <2>1. Len(<<x>>) * Items = Items /\ Len(<<x>>) = 1
    BY ItemsAssumption
  <2>2. \A n \in 1 .. Items : (n - 1) % 1 = 0 /\ (n - 1) \div 1 = n - 1
    BY ItemsAssumption
  <2>3. \A n \in 1 .. Items : <<<<x>>[((n - 1) % 1) + 1], ((n - 1) \div 1) + 1>> = <<x, n>>
    BY <2>2
  <2> QED BY <2>1, <2>3 DEF Each
<1>2. e \in Seq(Blocks) /\ Len(e) = Items
  <2>1. \A n \in 1 .. Items : <<x, n>> \in Blocks
    BY DEF Elements
  <2> QED BY <2>1, ItemsAssumption
<1>3. \A n \in 1 .. Items : e[n] = <<x, n>>
  OBVIOUS
<1> HIDE DEF e
<1>4. Once(e)
  <2>1. \A m, n \in 1 .. Items : <<x, m>> = <<x, n>> => m = n
    OBVIOUS
  <2> QED BY <1>2, <1>3, <2>1 DEF Once
<1>5. Members(e) = Elements({x})
  <2>1. Members(e) = {<<x, n>> : n \in 1 .. Items}
    BY <1>2, <1>3 DEF Members
  <2> QED BY <2>1 DEF Elements
<1> QED BY <1>1, <1>2, <1>4, <1>5 DEF FreesEach

\* ... and four.
IsLoopOfFour(e, a, b, c, d) ==
  /\ e = [n \in 1 .. 4 * Items |-> e[n]]
  /\ \A k \in 1 .. Items :
       /\ e[4 * k - 3] = <<a, k>> /\ e[4 * k - 2] = <<b, k>>
       /\ e[4 * k - 1] = <<c, k>> /\ e[4 * k] = <<d, k>>

LEMMA EachOfFour ==
  ASSUME NEW a, NEW b, NEW c, NEW d
  PROVE  IsLoopOfFour(Each(<<a, b, c, d>>), a, b, c, d)
<1> DEFINE names == <<a, b, c, d>>
           e == Each(names)
<1>1. /\ Len(names) = 4 /\ names[1] = a /\ names[2] = b /\ names[3] = c /\ names[4] = d
  OBVIOUS
<1> HIDE DEF names
<1>2. e = [n \in 1 .. 4 * Items |-> <<names[((n - 1) % 4) + 1], ((n - 1) \div 4) + 1>>]
  BY <1>1 DEF Each
<1>3. ASSUME NEW k \in 1 .. Items, NEW r \in {1, 2, 3, 4}
      PROVE  4 * (k - 1) + r \in 1 .. 4 * Items /\ e[4 * (k - 1) + r] = <<names[r], k>>
  <2>1. 4 * (k - 1) + r \in 1 .. 4 * Items
    BY ItemsAssumption
  <2>2. /\ (4 * (k - 1) + r - 1) % 4 = r - 1 /\ (4 * (k - 1) + r - 1) \div 4 = k - 1
    BY ItemsAssumption
  <2>3. r - 1 + 1 = r /\ k - 1 + 1 = k
    BY ItemsAssumption
  <2> HIDE DEF e
  <2> QED BY <1>2, <2>1, <2>2, <2>3
<1> HIDE DEF e
<1>4. ASSUME NEW k \in 1 .. Items
      PROVE  /\ e[4 * k - 3] = <<a, k>> /\ e[4 * k - 2] = <<b, k>>
             /\ e[4 * k - 1] = <<c, k>> /\ e[4 * k] = <<d, k>>
  <2>1. /\ 4 * (k - 1) + 1 = 4 * k - 3 /\ 4 * (k - 1) + 2 = 4 * k - 2
        /\ 4 * (k - 1) + 3 = 4 * k - 1 /\ 4 * (k - 1) + 4 = 4 * k
    BY ItemsAssumption
  <2>2. /\ e[4 * (k - 1) + 1] = <<names[1], k>> /\ e[4 * (k - 1) + 2] = <<names[2], k>>
        /\ e[4 * (k - 1) + 3] = <<names[3], k>> /\ e[4 * (k - 1) + 4] = <<names[4], k>>
    BY <1>3
  <2> QED BY <1>1, <2>1, <2>2
<1>5. e = [n \in 1 .. 4 * Items |-> e[n]]
  BY <1>2
<1> QED BY <1>4, <1>5 DEF e, names, IsLoopOfFour

\* A position in a loop of four.
LEMMA FourCases ==
  ASSUME NEW n \in 1 .. 4 * Items
  PROVE  \E k \in 1 .. Items : n \in {4 * k - 3, 4 * k - 2, 4 * k - 1, 4 * k}
<1> DEFINE k == ((n - 1) \div 4) + 1
<1>1. n \in Nat /\ n >= 1 /\ n <= 4 * Items
  BY ItemsAssumption
<1>2. k \in 1 .. Items /\ n \in {4 * k - 3, 4 * k - 2, 4 * k - 1, 4 * k}
  BY <1>1, ItemsAssumption
<1> QED BY <1>2

LEMMA EachFour ==
  ASSUME NEW a, NEW b, NEW c, NEW d, Elements({a, b, c, d}) \subseteq Blocks,
         a # b, a # c, a # d, b # c, b # d, c # d
  PROVE  FreesEach(Each(<<a, b, c, d>>), Elements({a, b, c, d}))
<1> DEFINE e == Each(<<a, b, c, d>>)
<1>1. /\ e = [n \in 1 .. 4 * Items |-> e[n]]
      /\ \A k \in 1 .. Items :
           /\ e[4 * k - 3] = <<a, k>> /\ e[4 * k - 2] = <<b, k>>
           /\ e[4 * k - 1] = <<c, k>> /\ e[4 * k] = <<d, k>>
  <2>1. IsLoopOfFour(e, a, b, c, d)
    BY EachOfFour
  <2> HIDE DEF e
  <2> QED BY <2>1 DEF IsLoopOfFour
<1> HIDE DEF e
<1>2. \A n \in 1 .. 4 * Items : \E k \in 1 .. Items :
        \/ n = 4 * k - 3 /\ e[n] = <<a, k>>
        \/ n = 4 * k - 2 /\ e[n] = <<b, k>>
        \/ n = 4 * k - 1 /\ e[n] = <<c, k>>
        \/ n = 4 * k /\ e[n] = <<d, k>>
  BY <1>1, FourCases
<1>3. e \in Seq(Blocks) /\ Len(e) = 4 * Items
  <2>1. \A n \in 1 .. 4 * Items : e[n] \in Blocks
    BY <1>2 DEF Elements
  <2>2. 4 * Items \in Nat
    BY ItemsAssumption
  <2> QED BY <1>1, <2>1, <2>2
<1>4. Once(e)
  <2> SUFFICES ASSUME NEW m \in 1 .. 4 * Items, NEW n \in 1 .. 4 * Items, e[m] = e[n]
               PROVE  m = n
    BY <1>3 DEF Once
  <2>1. PICK j \in 1 .. Items :
          \/ m = 4 * j - 3 /\ e[m] = <<a, j>>
          \/ m = 4 * j - 2 /\ e[m] = <<b, j>>
          \/ m = 4 * j - 1 /\ e[m] = <<c, j>>
          \/ m = 4 * j /\ e[m] = <<d, j>>
    BY <1>2
  <2>2. PICK k \in 1 .. Items :
          \/ n = 4 * k - 3 /\ e[n] = <<a, k>>
          \/ n = 4 * k - 2 /\ e[n] = <<b, k>>
          \/ n = 4 * k - 1 /\ e[n] = <<c, k>>
          \/ n = 4 * k /\ e[n] = <<d, k>>
    BY <1>2
  <2>3. e[m][2] = j /\ e[n][2] = k /\ e[m][1] \in {a, b, c, d}
    BY <2>1, <2>2
  <2>4. j = k
    BY <2>3
  <2> QED BY <2>1, <2>2, <2>4
<1>5. Members(e) = Elements({a, b, c, d})
  <2>1. \A n \in 1 .. 4 * Items : e[n] \in Elements({a, b, c, d})
    BY <1>2 DEF Elements
  <2>2. ASSUME NEW x \in Elements({a, b, c, d})
        PROVE  \E n \in 1 .. 4 * Items : e[n] = x
    <3>1. PICK name \in {a, b, c, d}, k \in 1 .. Items : x = <<name, k>>
      BY DEF Elements
    <3>2. {4 * k - 3, 4 * k - 2, 4 * k - 1, 4 * k} \subseteq 1 .. 4 * Items
      BY ItemsAssumption
    <3> QED BY <1>1, <3>1, <3>2
  <2> QED BY <1>3, <2>1, <2>2 DEF Members
<1> QED BY <1>3, <1>4, <1>5 DEF FreesEach, e

-----------------------------------------------------------------------------
(***************************************************************************)
(* The cleanup tables.                                                     *)
(***************************************************************************)

\* A name is that of a pointer or that of an element's pointer.
LEMMA BlockNames ==
  /\ \A name \in {"result", "error", "address", "memo", "lTagHash",
                   "encryptedDiversifier", "nonceHex", "serial", "list", "usedCoins",
                   "outputScripts", "data", "context", "proof", "script", "key"} :
       B(name) \in Blocks
  /\ \A names \in SUBSET {"pubKey", "coin", "coinData", "coinContext", "contextData", "bytes"} :
       Elements(names) \subseteq Blocks
  /\ \A name, names : B(name) \notin Elements(names)
  /\ \A x, y : B(x) = B(y) <=> x = y
  /\ \A n, m : n \cap m = {} => Elements(n) \cap Elements(m) = {}
<1>1. \A name, names : B(name) \notin Elements(names)
  BY DEF B, Elements
<1>2. \A x, y : B(x) = B(y) <=> x = y
  BY DEF B
<1>3. \A n, m : n \cap m = {} => Elements(n) \cap Elements(m) = {}
  BY DEF Elements
<1>4. \A name \in {"result", "error", "address", "memo", "lTagHash",
                   "encryptedDiversifier", "nonceHex", "serial", "list", "usedCoins",
                   "outputScripts", "data", "context", "proof", "script", "key"} :
       B(name) \in Blocks
  BY DEF Blocks
<1>5. \A names \in SUBSET {"pubKey", "coin", "coinData", "coinContext", "contextData", "bytes"} :
       Elements(names) \subseteq Blocks
  BY DEF Blocks, Elements
<1> QED BY <1>1, <1>2, <1>3, <1>4, <1>5

\* Lists of single blocks.
LEMMA FreesOne ==
  ASSUME NEW a \in Blocks
  PROVE  FreesEach(<<a>>, {a})
BY DEF FreesEach, Once, Members

LEMMA FreesTwo ==
  ASSUME NEW a \in Blocks, NEW b \in Blocks, a # b
  PROVE  FreesEach(<<a, b>>, {a, b})
<1> DEFINE l == <<a, b>>
<1>1. l \in Seq(Blocks) /\ Len(l) = 2 /\ l[1] = a /\ l[2] = b
  OBVIOUS
<1>2. 1 .. 2 = {1, 2}
  OBVIOUS
<1> HIDE DEF l
<1>3. Once(l) /\ Members(l) = {a, b}
  BY <1>1, <1>2 DEF Once, Members
<1> QED BY <1>1, <1>3 DEF FreesEach, l

LEMMA FreesFour ==
  ASSUME NEW a \in Blocks, NEW b \in Blocks, NEW c \in Blocks, NEW d \in Blocks,
         a # b, a # c, a # d, b # c, b # d, c # d
  PROVE  FreesEach(<<a, b, c, d>>, {a, b, c, d})
<1> DEFINE l == <<a, b, c, d>>
<1>1. l \in Seq(Blocks) /\ Len(l) = 4 /\ l[1] = a /\ l[2] = b /\ l[3] = c /\ l[4] = d
  OBVIOUS
<1>2. 1 .. 4 = {1, 2, 3, 4}
  OBVIOUS
<1> HIDE DEF l
<1>3. Once(l)
  BY <1>1, <1>2 DEF Once
<1>4. Members(l) = {a, b, c, d}
  BY <1>1, <1>2 DEF Members
<1> QED BY <1>1, <1>3, <1>4 DEF FreesEach, l

CoinDataBlocks ==
  {B("address"), B("memo"), B("lTagHash"), B("encryptedDiversifier"), B("nonceHex"),
   B("serial"), B("result")}

LEMMA FreesSeven ==
  ASSUME NEW a, NEW b, NEW l,
         \/ a = "nonceHex" /\ b = "serial"
         \/ a = "serial" /\ b = "nonceHex",
         l = <<B("address"), B("memo"), B("lTagHash"), B("encryptedDiversifier"),
               B(a), B(b), B("result")>>
  PROVE  FreesEach(l, CoinDataBlocks)
<1>0. /\ B("address") \in Blocks /\ B("memo") \in Blocks /\ B("lTagHash") \in Blocks
      /\ B("encryptedDiversifier") \in Blocks /\ B(a) \in Blocks /\ B(b) \in Blocks
      /\ B("result") \in Blocks
  BY BlockNames
<1>1. /\ l \in Seq(Blocks) /\ Len(l) = 7 /\ l[1] = B("address") /\ l[2] = B("memo")
      /\ l[3] = B("lTagHash") /\ l[4] = B("encryptedDiversifier") /\ l[5] = B(a)
      /\ l[6] = B(b) /\ l[7] = B("result")
  BY <1>0
<1>2. 1 .. 7 = {1, 2, 3, 4, 5, 6, 7}
  OBVIOUS
<1>3. \A x, y : B(x) = B(y) <=> x = y
  BY BlockNames
<1>4. Once(l)
  BY <1>1, <1>2, <1>3 DEF Once
<1>5. Members(l) = CoinDataBlocks
  BY <1>1, <1>2 DEF Members, CoinDataBlocks
<1> QED BY <1>1, <1>4, <1>5 DEF FreesEach

RecipientBlocks == Elements({"pubKey"}) \cup {B("list"), B("result")}

LEMMA RecipientsFreed ==
  FreesEach(FreeRecipients, RecipientBlocks) /\ FreesEach(MintFrees, RecipientBlocks)
<1>1. FreesEach(Each(<<"pubKey">>), Elements({"pubKey"}))
  BY BlockNames, EachOne
<1>2. FreesEach(<<B("list"), B("result")>>, {B("list"), B("result")})
  BY BlockNames, FreesTwo
<1>3. Elements({"pubKey"}) \cap {B("list"), B("result")} = {}
  BY BlockNames
<1>4. FreesEach(Each(<<"pubKey">>) \o <<B("list"), B("result")>>, RecipientBlocks)
  BY <1>1, <1>2, <1>3, FreesBoth DEF RecipientBlocks
<1> QED BY <1>4 DEF FreeRecipients, MintFrees

Parts == {"coin", "coinData", "coinContext", "contextData"}
SpendBlocks ==
  Elements(Parts) \cup Elements({"bytes"})
    \cup {B("usedCoins"), B("outputScripts"), B("data"), B("result")}

LEMMA SpendResultFreed == FreesEach(FreeSpendResult, SpendBlocks)
<1> DEFINE parts == Each(<<"coinData", "contextData", "coin", "coinContext">>)
           bytes == Each(<<"bytes">>)
           rest == <<B("usedCoins"), B("outputScripts"), B("data"), B("result")>>
           R == {B("usedCoins"), B("outputScripts"), B("data"), B("result")}
<1>1. FreesEach(parts, Elements(Parts))
  <2>1. Parts = {"coinData", "contextData", "coin", "coinContext"}
    BY DEF Parts
  <2>2. Elements({"coinData", "contextData", "coin", "coinContext"}) \subseteq Blocks
    BY BlockNames
  <2>3. FreesEach(parts, Elements({"coinData", "contextData", "coin", "coinContext"}))
    BY <2>2, EachFour
  <2> QED BY <2>1, <2>3
<1>2. FreesEach(bytes, Elements({"bytes"}))
  BY BlockNames, EachOne
<1>3. FreesEach(rest, R)
  BY BlockNames, FreesFour
<1>4. Elements(Parts) \cap Elements({"bytes"}) = {}
  BY BlockNames DEF Parts
<1>5. (Elements(Parts) \cup Elements({"bytes"})) \cap R = {}
  BY BlockNames
<1> HIDE DEF parts, bytes, rest, R
<1>6. FreesEach(parts \o bytes, Elements(Parts) \cup Elements({"bytes"}))
  BY <1>1, <1>2, <1>4, FreesBoth
<1>7. FreesEach((parts \o bytes) \o rest, (Elements(Parts) \cup Elements({"bytes"})) \cup R)
  BY <1>3, <1>5, <1>6, FreesBoth
<1> QED BY <1>7 DEF FreeSpendResult, SpendBlocks, parts, bytes, rest, R

LEMMA SpendFreed ==
  /\ FreesEach(SpendFrees(FALSE), SpendBlocks)
  /\ FreesEach(SpendFrees(TRUE), {B("data"), B("result")})
<1> DEFINE bytes == Each(<<"bytes">>)
           scripts == <<B("outputScripts")>>
           parts == Each(<<"coinData", "coin", "contextData", "coinContext">>)
           coins == <<B("usedCoins")>>
           rest == <<B("data"), B("result")>>
           E == Elements({"bytes"})
           P == Elements(Parts)
           O == {B("outputScripts")}
           U == {B("usedCoins")}
           R == {B("data"), B("result")}
<1>1. FreesEach(parts, P)
  <2>1. Parts = {"coinData", "coin", "contextData", "coinContext"}
    BY DEF Parts
  <2>2. Elements({"coinData", "coin", "contextData", "coinContext"}) \subseteq Blocks
    BY BlockNames
  <2>3. FreesEach(parts, Elements({"coinData", "coin", "contextData", "coinContext"}))
    BY <2>2, EachFour
  <2> QED BY <2>1, <2>3
<1>2. FreesEach(bytes, E)
  BY BlockNames, EachOne
<1>3. FreesEach(scripts, O) /\ FreesEach(coins, U)
  BY BlockNames, FreesOne
<1>4. FreesEach(rest, R)
  BY BlockNames, FreesTwo
<1>5. /\ E \cap O = {} /\ (E \cup O) \cap P = {} /\ ((E \cup O) \cup P) \cap U = {}
      /\ (((E \cup O) \cup P) \cup U) \cap R = {}
  <2>1. E \cap P = {}
    BY BlockNames DEF Parts
  <2>2. E \cap O = {} /\ P \cap O = {} /\ E \cap U = {} /\ P \cap U = {} /\ E \cap R = {} /\ P \cap R = {}
    BY BlockNames
  <2>3. O \cap U = {} /\ O \cap R = {} /\ U \cap R = {}
    BY BlockNames
  <2> HIDE DEF E, P, O, U, R
  <2> QED BY <2>1, <2>2, <2>3
<1> HIDE DEF bytes, scripts, parts, coins, rest, E, P, O, U, R
<1>6. FreesEach(bytes \o scripts, E \cup O)
  BY <1>2, <1>3, <1>5, FreesBoth
<1>7. FreesEach((bytes \o scripts) \o parts, (E \cup O) \cup P)
  BY <1>1, <1>5, <1>6, FreesBoth
<1>8. FreesEach(((bytes \o scripts) \o parts) \o coins, ((E \cup O) \cup P) \cup U)
  BY <1>3, <1>5, <1>7, FreesBoth
<1>9. FreesEach((((bytes \o scripts) \o parts) \o coins) \o rest,
                (((E \cup O) \cup P) \cup U) \cup R)
  BY <1>4, <1>5, <1>8, FreesBoth
<1>10. (((E \cup O) \cup P) \cup U) \cup R = SpendBlocks
  BY DEF SpendBlocks, E, O, P, U, R
<1>11. SpendFrees(FALSE) = (((bytes \o scripts) \o parts) \o coins) \o rest
  BY Zenon DEF SpendFrees, bytes, scripts, parts, coins, rest
<1>12. SpendFrees(TRUE) = <<>> \o rest /\ <<>> \o rest = rest
  <2>1. SpendFrees(TRUE) = <<>> \o rest
    BY Zenon DEF SpendFrees, rest
  <2>2. rest \in Seq(Blocks)
    BY <1>4 DEF FreesEach
  <2> QED BY <2>1, <2>2, ConcatEmptySeq
<1>13. FreesEach(SpendFrees(TRUE), R)
  BY <1>4, <1>12
<1> QED BY <1>9, <1>10, <1>11, <1>13 DEF R

LEMMA Bodies ==
  /\ Body("buffer") = BufferBody /\ Body("tags") = HashTagsBody
  /\ Body("recover") = RecoverBody /\ Body("mint") = MintBody
  /\ Body("spend") = SpendBody /\ Body("context") = ContextBody
  /\ Body("validate") = ValidateBody /\ Body("proof") = ProofBody
  /\ Body("fee") = FeeBody /\ Body("name") = NameBody
BY Zenon DEF Body

LEMMA Unwinds ==
  /\ Unwind("buffer") = <<>> /\ Unwind("validate") = <<>> /\ Unwind("proof") = <<>>
  /\ Unwind("fee") = <<>> /\ Unwind("name") = <<>>
  /\ Unwind("tags") = <<B("result")>> /\ Unwind("context") = <<B("result")>>
  /\ Unwind("recover") = FreeCoinData /\ Unwind("mint") = FreeRecipients
  /\ Unwind("spend") = FreeSpendResult
BY DEF Unwind

LEMMA Handlers ==
  /\ \A k \in {"buffer", "tags", "recover", "mint", "context"} : Handler(k) = <<>>
  /\ Handler("spend") = SpendHandler /\ Handler("validate") = ErrorHandler
  /\ Handler("proof") = ErrorHandler /\ Handler("fee") = FeeHandler
  /\ Handler("name") = NameHandler
BY DEF Handler

LEMMA DartFrees ==
  /\ \A f : Frees("spend", f) = SpendFrees(f) /\ Frees("recover", f) = RecoverFrees
          /\ Frees("mint", f) = MintFrees /\ Frees("context", f) = <<B("context"), B("result")>>
          /\ Frees("validate", f) = <<B("error"), B("result")>>
          /\ Frees("fee", f) = <<B("error"), B("result")>>
          /\ Frees("proof", f) = <<B("error"), B("proof"), B("result")>>
          /\ Frees("name", f) = <<B("error"), B("script"), B("result")>>
          /\ Frees("buffer", f) = <<B("result")>> /\ Frees("tags", f) = <<B("result")>>
BY DEF Frees

LEMMA DartReads ==
  /\ Reads("spend", FALSE) = SpendReads(FALSE) /\ Reads("spend", TRUE) = SpendReads(TRUE)
  /\ Reads("recover", FALSE) = RecoverReads /\ Reads("mint", FALSE) = MintReads
  /\ Reads("context", FALSE) = {B("result"), B("context")}
  /\ Reads("buffer", FALSE) = {B("result")} /\ Reads("tags", FALSE) = {B("result")}
  /\ Reads("validate", FALSE) = {B("result")} /\ Reads("fee", FALSE) = {B("result")}
  /\ Reads("proof", FALSE) = {B("result"), B("proof")}
  /\ Reads("name", FALSE) = {B("result"), B("script")}
  /\ \A k \in {"validate", "fee", "name", "proof"} : Reads(k, TRUE) = {B("result"), B("error")}
<1>1. /\ Reads("spend", FALSE) = SpendReads(FALSE) /\ Reads("spend", TRUE) = SpendReads(TRUE)
      /\ Reads("recover", FALSE) = RecoverReads /\ Reads("mint", FALSE) = MintReads
      /\ Reads("context", FALSE) = {B("result"), B("context")}
  BY Zenon DEF Reads
<1>2. Reads("buffer", FALSE) = {B("result")} /\ Reads("tags", FALSE) = {B("result")}
  BY Zenon DEF Reads
<1>3. Reads("validate", FALSE) = {B("result")} /\ Reads("fee", FALSE) = {B("result")}
  BY Zenon DEF Reads
<1>4. Reads("proof", FALSE) = {B("result"), B("proof")}
  BY Zenon DEF Reads
<1>5. Reads("name", FALSE) = {B("result"), B("script")}
  BY Zenon DEF Reads
<1>6. /\ Reads("validate", TRUE) = {B("result"), B("error")}
      /\ Reads("fee", TRUE) = {B("result"), B("error")}
      /\ Reads("name", TRUE) = {B("result"), B("error")}
      /\ Reads("proof", TRUE) = {B("result"), B("error")}
  <2>1. ASSUME NEW k \in {"validate", "fee", "name", "proof"}
        PROVE  Reads(k, TRUE) = {B("result"), B("error")}
    BY DEF Reads
  <2> QED BY <2>1
<1> QED BY <1>1, <1>2, <1>3, <1>4, <1>5, <1>6

\* A function that allocates its blocks, F, from the outside in, with zeroed
\* structs, and frees on a failure what it has, of U; the Dart side reads and
\* frees the same.
Straight(k, body, U, F) ==
  /\ Len(body) \in Nat \ {0}
  /\ \A m \in 1 .. Len(body) :
       /\ body[m].tested = FALSE /\ body[m].op \in {"work", "calloc", "malloc"}
       /\ body[m].op # "work" => body[m].block \in F
       /\ body[m].op # "work" /\ m < Len(body) => body[m].block \in U
       /\ body[m].op = "malloc" => Fields(k, body[m].block) = {}
  /\ \A m, n \in 1 .. Len(body) :
       m < n /\ body[m].op # "work" /\ body[n].op # "work" =>
         body[m].block \notin Fields(k, body[n].block)
  /\ \A b \in F : \E m \in 1 .. Len(body) : body[m].op # "work" /\ body[m].block = b
  /\ B("key") \notin U /\ B("key") \notin F

IsStraight(k, U, F) ==
  /\ Straight(k, Body(k), U, F) /\ FreesEach(Unwind(k), U)
  /\ FreesEach(Frees(k, FALSE), F) /\ Reads(k, FALSE) \subseteq F

LEMMA StepParts ==
  /\ Work.op = "work" /\ Work.tested = FALSE
  /\ \A b : Calloc(b).op = "calloc" /\ Calloc(b).block = b /\ Calloc(b).tested = FALSE
  /\ \A b : Malloc(b).op = "malloc" /\ Malloc(b).block = b /\ Malloc(b).tested = FALSE
  /\ \A b : Null(b).op = "null" /\ Null(b).block = b /\ Null(b).tested = FALSE
  /\ \A b, l : /\ CallocOr(b, l).op = "calloc" /\ CallocOr(b, l).block = b
               /\ CallocOr(b, l).tested = TRUE /\ CallocOr(b, l).frees = l
  /\ \A b, l : /\ MallocOr(b, l).op = "malloc" /\ MallocOr(b, l).block = b
               /\ MallocOr(b, l).tested = TRUE /\ MallocOr(b, l).frees = l
BY DEF Work, Calloc, Malloc, Null, CallocOr, MallocOr, Step

LEMMA ResultFields ==
  /\ Fields("buffer", B("result")) = {} /\ Fields("tags", B("result")) = {}
  /\ Fields("recover", B("result")) = {B("address"), B("memo"), B("lTagHash"),
        B("encryptedDiversifier"), B("nonceHex"), B("serial")}
  /\ Fields("mint", B("result")) = {B("list")}
  /\ Fields("spend", B("result")) = {B("usedCoins"), B("outputScripts"), B("data")}
  /\ Fields("context", B("result")) = {B("context")}
  /\ Fields("validate", B("result")) = {B("error")} /\ Fields("fee", B("result")) = {B("error")}
  /\ Fields("proof", B("result")) = {B("proof"), B("error")}
  /\ Fields("name", B("result")) = {B("script"), B("error")}
<1> DEFINE In(k) ==
      CASE k = "recover" -> {B("address"), B("memo"), B("lTagHash"),
                             B("encryptedDiversifier"), B("nonceHex"), B("serial")}
        [] k = "mint"    -> {B("list")}
        [] k = "spend"   -> {B("usedCoins"), B("outputScripts"), B("data")}
        [] k = "context" -> {B("context")}
        [] k \in {"validate", "fee"} -> {B("error")}
        [] k = "proof"   -> {B("proof"), B("error")}
        [] k = "name"    -> {B("script"), B("error")}
        [] OTHER         -> {}
<1>1. \A k : Fields(k, B("result")) = In(k)
  BY DEF Fields, B
<1>2. In("recover") = {B("address"), B("memo"), B("lTagHash"),
                       B("encryptedDiversifier"), B("nonceHex"), B("serial")}
  OBVIOUS
<1>3. /\ In("mint") = {B("list")} /\ In("context") = {B("context")}
      /\ In("spend") = {B("usedCoins"), B("outputScripts"), B("data")}
  OBVIOUS
<1>4. /\ In("validate") = {B("error")} /\ In("fee") = {B("error")}
      /\ In("proof") = {B("proof"), B("error")} /\ In("name") = {B("script"), B("error")}
  OBVIOUS
<1>5. In("buffer") = {} /\ In("tags") = {}
  OBVIOUS
<1> HIDE DEF In
<1> QED BY <1>1, <1>2, <1>3, <1>4, <1>5

\* The blocks that hold no pointer, and the lists.
LEMMA OtherFields ==
  ASSUME NEW k
  PROVE  /\ \A name \in {"error", "address", "memo", "lTagHash", "encryptedDiversifier",
                          "nonceHex", "serial", "data", "context", "proof", "script"} :
              Fields(k, B(name)) = {}
         /\ Fields(k, B("list")) = Elements({"pubKey"})
         /\ Fields(k, B("usedCoins")) = Elements({"coin", "coinContext"})
         /\ Fields(k, B("outputScripts")) = Elements({"bytes"})
         /\ \A n \in 1 .. Items :
              /\ \A name \in {"pubKey", "bytes", "coinData", "contextData"} :
                   Fields(k, <<name, n>>) = {}
              /\ Fields(k, <<"coin", n>>) = {<<"coinData", n>>}
              /\ Fields(k, <<"coinContext", n>>) = {<<"contextData", n>>}
<1>1. \A name \in {"error", "address", "memo", "lTagHash", "encryptedDiversifier",
                   "nonceHex", "serial", "data", "context", "proof", "script"} :
        Fields(k, B(name)) = {}
  BY DEF Fields, B
<1>2. /\ Fields(k, B("list")) = Elements({"pubKey"})
      /\ Fields(k, B("usedCoins")) = Elements({"coin", "coinContext"})
      /\ Fields(k, B("outputScripts")) = Elements({"bytes"})
  BY DEF Fields, B
<1>3. ASSUME NEW n \in 1 .. Items
      PROVE  /\ \A name \in {"pubKey", "bytes", "coinData", "contextData"} :
                   Fields(k, <<name, n>>) = {}
             /\ Fields(k, <<"coin", n>>) = {<<"coinData", n>>}
             /\ Fields(k, <<"coinContext", n>>) = {<<"contextData", n>>}
  BY DEF Fields, B
<1> QED BY <1>1, <1>2, <1>3

LEMMA FreesNone == FreesEach(<<>>, {})
BY DEF FreesEach, Once, Members

\* The functions of a fixed number of steps.
LEMMA BufferStraight == IsStraight("buffer", {}, {B("result")})
<1> DEFINE body == BufferBody
<1>1. Len(body) = 2 /\ body[1] = Work /\ body[2] = Malloc(B("result")) /\ 1 .. 2 = {1, 2}
  BY DEF BufferBody
<1>2. Fields("buffer", B("result")) = {} /\ B("key") # B("result")
  BY ResultFields, BlockNames
<1> HIDE DEF body
<1>3. Straight("buffer", body, {}, {B("result")})
  BY <1>1, <1>2, StepParts DEF Straight
<1>4. FreesEach(<<B("result")>>, {B("result")}) /\ FreesEach(<<>>, {})
  BY BlockNames, FreesOne, FreesNone
<1> QED BY <1>3, <1>4, Bodies, Unwinds, DartFrees, DartReads DEF IsStraight, body

LEMMA TagsStraight == IsStraight("tags", {B("result")}, {B("result")})
<1> DEFINE body == HashTagsBody
<1>1. Len(body) = 2 /\ body[1] = Calloc(B("result")) /\ body[2] = Work /\ 1 .. 2 = {1, 2}
  BY DEF HashTagsBody
<1>2. Fields("tags", B("result")) = {} /\ B("key") # B("result")
  BY ResultFields, BlockNames
<1> HIDE DEF body
<1>3. Straight("tags", body, {B("result")}, {B("result")})
  BY <1>1, <1>2, StepParts DEF Straight
<1>4. FreesEach(<<B("result")>>, {B("result")})
  BY BlockNames, FreesOne
<1> QED BY <1>3, <1>4, Bodies, Unwinds, DartFrees, DartReads DEF IsStraight, body

LEMMA ContextStraight == IsStraight("context", {B("result")}, {B("context"), B("result")})
<1> DEFINE body == ContextBody
<1>1. /\ Len(body) = 3 /\ body[1] = Work /\ body[2] = Calloc(B("result"))
      /\ body[3] = Malloc(B("context")) /\ 1 .. 3 = {1, 2, 3}
  BY DEF ContextBody
<1>2. /\ Fields("context", B("result")) = {B("context")} /\ Fields("context", B("context")) = {}
      /\ B("key") # B("result") /\ B("key") # B("context") /\ B("result") # B("context")
  BY ResultFields, OtherFields, BlockNames
<1> HIDE DEF body
<1>3. Straight("context", body, {B("result")}, {B("context"), B("result")})
  BY <1>1, <1>2, StepParts DEF Straight
<1>4. /\ FreesEach(<<B("result")>>, {B("result")})
      /\ FreesEach(<<B("context"), B("result")>>, {B("context"), B("result")})
  BY BlockNames, FreesOne, FreesTwo
<1> QED BY <1>3, <1>4, Bodies, Unwinds, DartFrees, DartReads DEF IsStraight, body

LEMMA RecoverStraight == IsStraight("recover", CoinDataBlocks, CoinDataBlocks)
<1> DEFINE body == RecoverBody
           leaves == {B("address"), B("memo"), B("lTagHash"), B("encryptedDiversifier"),
                      B("nonceHex"), B("serial")}
<1>1. FreesEach(FreeCoinData, CoinDataBlocks) /\ FreesEach(RecoverFrees, CoinDataBlocks)
  <2>1. FreesEach(FreeCoinData, CoinDataBlocks)
    BY FreesSeven DEF FreeCoinData
  <2>2. FreesEach(RecoverFrees, CoinDataBlocks)
    BY FreesSeven DEF RecoverFrees
  <2> QED BY <2>1, <2>2
<1>2. /\ Len(body) = 8 /\ body[1] = Work /\ body[2] = Calloc(B("result"))
      /\ body[3] = Malloc(B("address")) /\ body[4] = Malloc(B("memo"))
      /\ body[5] = Malloc(B("lTagHash")) /\ body[6] = Malloc(B("encryptedDiversifier"))
      /\ body[7] = Malloc(B("nonceHex")) /\ body[8] = Malloc(B("serial"))
  BY DEF RecoverBody
<1>3. 1 .. 8 = {1, 2, 3, 4, 5, 6, 7, 8}
  OBVIOUS
<1>4. CoinDataBlocks = leaves \cup {B("result")} /\ B("result") \notin leaves
  BY BlockNames DEF CoinDataBlocks
<1>5. RecoverReads = CoinDataBlocks
  BY <1>4, ResultFields DEF RecoverReads
<1>6. Fields("recover", B("result")) = leaves /\ \A b \in leaves : Fields("recover", b) = {}
  BY ResultFields, OtherFields
<1>7. B("key") \notin CoinDataBlocks
  BY BlockNames DEF CoinDataBlocks
<1>8. \A m \in 1 .. 8 :
        \/ m = 1 /\ body[m] = Work
        \/ m = 2 /\ body[m] = Calloc(B("result"))
        \/ m > 2 /\ \E b \in leaves : body[m] = Malloc(b)
  BY <1>2, <1>3
<1>9. \A b \in leaves : \E m \in 1 .. 8 : body[m] = Malloc(b)
  BY <1>2, <1>3
<1> HIDE DEF body, leaves
<1>10. \A b \in CoinDataBlocks : \E m \in 1 .. 8 : body[m].op # "work" /\ body[m].block = b
  BY <1>2, <1>3, <1>4, <1>9, StepParts
<1>11. \A m \in 1 .. 8 :
         /\ body[m].tested = FALSE /\ body[m].op \in {"work", "calloc", "malloc"}
         /\ body[m].op # "work" => body[m].block \in CoinDataBlocks
         /\ body[m].op = "malloc" => Fields("recover", body[m].block) = {}
  BY <1>4, <1>6, <1>8, StepParts
<1>12. \A m, n \in 1 .. 8 :
         m < n /\ body[m].op # "work" /\ body[n].op # "work" =>
           body[m].block \notin Fields("recover", body[n].block)
  <2> SUFFICES ASSUME NEW m \in 1 .. 8, NEW n \in 1 .. 8, m < n, body[m].op # "work",
                      body[n].op # "work"
               PROVE  body[m].block \notin Fields("recover", body[n].block)
    OBVIOUS
  <2>1. m # 1 /\ n > 2
    BY <1>2, <1>3, StepParts
  <2>2. PICK b \in leaves : body[n] = Malloc(b)
    BY <1>8, <2>1
  <2> QED BY <1>6, <2>2, StepParts
<1>13. Straight("recover", body, CoinDataBlocks, CoinDataBlocks)
  BY <1>2, <1>7, <1>10, <1>11, <1>12 DEF Straight
<1> QED BY <1>1, <1>5, <1>13, Bodies, Unwinds, DartFrees, DartReads DEF IsStraight, body

\* The functions that return lists.
PlainSteps == {Work} \cup {Calloc(b) : b \in Blocks} \cup {Malloc(b) : b \in Blocks}

\* u is s followed by t, of lengths m and n.
Joined(u, s, m, t, n) ==
  /\ u \in Seq(PlainSteps) /\ Len(u) = m + n
  /\ \A i \in 1 .. m : i \in 1 .. m + n /\ u[i] = s[i]
  /\ \A i \in 1 .. n : m + i \in 1 .. m + n /\ u[m + i] = t[i]

LEMMA Joining ==
  ASSUME NEW s \in Seq(PlainSteps), NEW m \in Nat, Len(s) = m,
         NEW t \in Seq(PlainSteps), NEW n \in Nat, Len(t) = n
  PROVE  Joined(s \o t, s, m, t, n)
<1> DEFINE u == s \o t
<1>1. /\ u \in Seq(PlainSteps) /\ Len(u) = Len(s) + Len(t)
      /\ \A i \in 1 .. Len(s) + Len(t) : u[i] = IF i <= Len(s) THEN s[i] ELSE t[i - Len(s)]
  BY ConcatProperties
<1> HIDE DEF u
<1>2. \A i \in 1 .. m : i \in 1 .. m + n /\ u[i] = s[i]
  BY <1>1
<1>3. \A i \in 1 .. n : m + i \in 1 .. m + n /\ u[m + i] = t[i]
  <2> SUFFICES ASSUME NEW i \in 1 .. n PROVE m + i \in 1 .. m + n /\ u[m + i] = t[i]
    OBVIOUS
  <2>1. m + i \in 1 .. m + n /\ ~(m + i <= m) /\ m + i - m = i
    OBVIOUS
  <2> QED BY <1>1, <2>1
<1> QED BY <1>1, <1>2, <1>3 DEF Joined, u

LEMMA MintStraight == IsStraight("mint", RecipientBlocks, RecipientBlocks)
<1> DEFINE body == MintBody
           head == <<Work, Calloc(B("result")), Calloc(B("list"))>>
           loop == [n \in 1 .. Items |-> Malloc(<<"pubKey", n>>)]
<1>1. /\ \A n \in 1 .. Items : <<"pubKey", n>> \in Blocks /\ <<"pubKey", n>> \in RecipientBlocks
      /\ B("result") \in Blocks /\ B("list") \in Blocks
      /\ \A b \in RecipientBlocks :
           b = B("result") \/ b = B("list") \/ \E n \in 1 .. Items : b = <<"pubKey", n>>
      /\ B("result") \in RecipientBlocks /\ B("list") \in RecipientBlocks
  <2>1. Elements({"pubKey"}) = {<<"pubKey", n>> : n \in 1 .. Items}
    BY DEF Elements
  <2>2. Elements({"pubKey"}) \subseteq Blocks /\ B("result") \in Blocks /\ B("list") \in Blocks
    BY BlockNames
  <2> QED BY <2>1, <2>2 DEF RecipientBlocks
<1>2. head \in Seq(PlainSteps) /\ Len(head) = 3
  <2>1. Work \in PlainSteps /\ Calloc(B("result")) \in PlainSteps /\ Calloc(B("list")) \in PlainSteps
    BY <1>1 DEF PlainSteps
  <2> QED BY <2>1
<1>3. loop \in Seq(PlainSteps) /\ Len(loop) = Items
  <2>1. \A n \in 1 .. Items : Malloc(<<"pubKey", n>>) \in PlainSteps
    BY <1>1 DEF PlainSteps
  <2> QED BY <2>1, ItemsAssumption
<1>4. Joined(body, head, 3, loop, Items) /\ Len(body) = 3 + Items
  <2>1. body = head \o loop
    BY DEF MintBody
  <2> HIDE DEF body, head, loop
  <2>2. Joined(body, head, 3, loop, Items)
    BY <1>2, <1>3, <2>1, Joining, ItemsAssumption
  <2> QED BY <2>2 DEF Joined
<1>5. /\ body[1] = Work /\ body[2] = Calloc(B("result")) /\ body[3] = Calloc(B("list"))
      /\ \A n \in 1 .. Items : n + 3 \in 1 .. 3 + Items /\ body[n + 3] = Malloc(<<"pubKey", n>>)
  <2>1. /\ head[1] = Work /\ head[2] = Calloc(B("result")) /\ head[3] = Calloc(B("list"))
        /\ \A n \in 1 .. Items : loop[n] = Malloc(<<"pubKey", n>>)
    OBVIOUS
  <2> HIDE DEF head, loop, body
  <2>2. body[1] = head[1] /\ body[2] = head[2] /\ body[3] = head[3]
    BY <1>4 DEF Joined
  <2>3. \A n \in 1 .. Items : 3 + n \in 1 .. 3 + Items /\ body[3 + n] = loop[n]
    BY <1>4 DEF Joined
  <2>4. \A n \in 1 .. Items : 3 + n = n + 3
    BY ItemsAssumption
  <2> QED BY <2>1, <2>2, <2>3, <2>4
<1> HIDE DEF body, head, loop
<1>6. \A i \in 1 .. 3 + Items :
        \/ i = 1 \/ i = 2 \/ i = 3
        \/ i > 3 /\ \E n \in 1 .. Items : i = n + 3 /\ body[i] = Malloc(<<"pubKey", n>>)
  <2> SUFFICES ASSUME NEW i \in 1 .. 3 + Items, i > 3
               PROVE  \E n \in 1 .. Items : i = n + 3 /\ body[i] = Malloc(<<"pubKey", n>>)
    BY ItemsAssumption
  <2>1. i - 3 \in 1 .. Items /\ i = (i - 3) + 3
    BY ItemsAssumption
  <2> QED BY <1>5, <2>1
<1>7. /\ Fields("mint", B("result")) = {B("list")}
      /\ Fields("mint", B("list")) = Elements({"pubKey"})
      /\ \A n \in 1 .. Items : Fields("mint", <<"pubKey", n>>) = {}
      /\ B("result") # B("list") /\ B("result") \notin Elements({"pubKey"})
      /\ B("key") \notin RecipientBlocks
  <2>1. /\ Fields("mint", B("result")) = {B("list")}
        /\ Fields("mint", B("list")) = Elements({"pubKey"})
        /\ \A n \in 1 .. Items : Fields("mint", <<"pubKey", n>>) = {}
    BY ResultFields, OtherFields
  <2>2. /\ B("result") # B("list") /\ B("result") \notin Elements({"pubKey"})
        /\ B("key") \notin RecipientBlocks
    BY BlockNames DEF RecipientBlocks
  <2> QED BY <2>1, <2>2
<1>8. \A m \in 1 .. 3 + Items :
        /\ body[m].tested = FALSE /\ body[m].op \in {"work", "calloc", "malloc"}
        /\ body[m].op # "work" => body[m].block \in RecipientBlocks
        /\ body[m].op = "malloc" => Fields("mint", body[m].block) = {}
  <2> SUFFICES ASSUME NEW m \in 1 .. 3 + Items
               PROVE  /\ body[m].tested = FALSE /\ body[m].op \in {"work", "calloc", "malloc"}
                      /\ body[m].op # "work" => body[m].block \in RecipientBlocks
                      /\ body[m].op = "malloc" => Fields("mint", body[m].block) = {}
    OBVIOUS
  <2>1. CASE m \in {1, 2, 3}
    BY <1>1, <1>5, <2>1, StepParts
  <2>2. CASE m \notin {1, 2, 3}
    <3>1. PICK n \in 1 .. Items : body[m] = Malloc(<<"pubKey", n>>)
      BY <1>6, <2>2
    <3> QED BY <1>1, <1>7, <3>1, StepParts
  <2> QED BY <2>1, <2>2
<1>9. \A m, n \in 1 .. 3 + Items :
        m < n /\ body[m].op # "work" /\ body[n].op # "work" =>
          body[m].block \notin Fields("mint", body[n].block)
  <2> SUFFICES ASSUME NEW m \in 1 .. 3 + Items, NEW n \in 1 .. 3 + Items, m < n,
                      body[m].op # "work", body[n].op # "work"
               PROVE  body[m].block \notin Fields("mint", body[n].block)
    OBVIOUS
  <2>1. CASE n = 3
    <3>1. m = 2
      BY <1>5, <2>1, StepParts, ItemsAssumption
    <3> QED BY <1>5, <1>7, <2>1, <3>1, StepParts
  <2>2. CASE n > 3
    <3>1. PICK j \in 1 .. Items : body[n] = Malloc(<<"pubKey", j>>)
      BY <1>6, <2>2
    <3> QED BY <1>7, <3>1, StepParts
  <2>3. n # 1 /\ n # 2
    BY <1>5, StepParts, ItemsAssumption
  <2> QED BY <1>6, <2>1, <2>2, <2>3
<1>10. \A b \in RecipientBlocks : \E m \in 1 .. 3 + Items :
         body[m].op # "work" /\ body[m].block = b
  <2>1. 2 \in 1 .. 3 + Items /\ 3 \in 1 .. 3 + Items
    BY ItemsAssumption
  <2> QED BY <1>1, <1>5, <2>1, StepParts
<1>11. Straight("mint", body, RecipientBlocks, RecipientBlocks)
  <2>1. Len(body) \in Nat \ {0} /\ Len(body) = 3 + Items
    BY <1>4, ItemsAssumption
  <2> QED BY <1>7, <1>8, <1>9, <1>10, <2>1, Zenon DEF Straight
<1>12. MintReads \subseteq RecipientBlocks
  BY DEF MintReads, RecipientBlocks
<1> QED BY <1>11, <1>12, RecipientsFreed, Bodies, Unwinds, DartFrees, DartReads
        DEF IsStraight, body

\* The body of createSparkSpendTransaction, step by step.
SpendSteps(body) ==
  /\ Len(body) = 5 + 5 * Items
  /\ body[1] = Work /\ body[2] = Calloc(B("result")) /\ body[3] = Calloc(B("usedCoins"))
  /\ \A k \in 1 .. Items :
       /\ body[4 * k] = Calloc(<<"coin", k>>)
       /\ body[4 * k + 1] = Malloc(<<"coinData", k>>)
       /\ body[4 * k + 2] = Calloc(<<"coinContext", k>>)
       /\ body[4 * k + 3] = Malloc(<<"contextData", k>>)
       /\ body[4 + 4 * Items + k] = Malloc(<<"bytes", k>>)
  /\ body[4 + 4 * Items] = Calloc(B("outputScripts"))
  /\ body[5 + 5 * Items] = Malloc(B("data"))

LEMMA SpendBodySteps == SpendSteps(SpendBody)
<1> DEFINE used == Each(<<"coin", "coinData", "coinContext", "contextData">>)
           head == <<Work, Calloc(B("result")), Calloc(B("usedCoins"))>>
           loop == [n \in 1 .. Len(used) |->
                      IF used[n][1] \in {"coin", "coinContext"}
                      THEN Calloc(used[n]) ELSE Malloc(used[n])]
           mid == <<Calloc(B("outputScripts"))>>
           bytes == [n \in 1 .. Items |-> Malloc(<<"bytes", n>>)]
           last == <<Malloc(B("data"))>>
           u1 == head \o loop
           u2 == u1 \o mid
           u3 == u2 \o bytes
           body == u3 \o last
<1>1. IsLoopOfFour(used, "coin", "coinData", "coinContext", "contextData")
  BY EachOfFour
<1>2. /\ B("result") \in Blocks /\ B("usedCoins") \in Blocks /\ B("outputScripts") \in Blocks
      /\ B("data") \in Blocks
      /\ \A n \in 1 .. Items : <<"bytes", n>> \in Blocks
  <2>1. Elements({"bytes"}) \subseteq Blocks
    BY BlockNames
  <2>2. \A n \in 1 .. Items : <<"bytes", n>> \in Blocks
    BY <2>1 DEF Elements
  <2> QED BY <2>2, BlockNames
<1>3. FreesEach(used, Elements({"coin", "coinData", "coinContext", "contextData"}))
  BY BlockNames, EachFour
<1>4. Len(used) = 4 * Items /\ \A n \in 1 .. 4 * Items : used[n] \in Blocks
  <2> HIDE DEF used
  <2>1. used \in Seq(Blocks)
    BY <1>3 DEF FreesEach
  <2>2. DOMAIN used = 1 .. 4 * Items
    BY <1>1 DEF IsLoopOfFour
  <2>3. DOMAIN used = 1 .. Len(used) /\ Len(used) \in Nat
    BY <2>1, LenProperties
  <2>4. Len(used) = 4 * Items
    BY <2>2, <2>3, ItemsAssumption
  <2> QED BY <2>1, <2>4, ElementOfSeq
<1>5. body = SpendBody
  BY DEF SpendBody
<1>6. /\ head \in Seq(PlainSteps) /\ Len(head) = 3 /\ mid \in Seq(PlainSteps) /\ Len(mid) = 1
      /\ last \in Seq(PlainSteps) /\ Len(last) = 1
  <2>1. /\ Work \in PlainSteps /\ Calloc(B("result")) \in PlainSteps
        /\ Calloc(B("usedCoins")) \in PlainSteps /\ Calloc(B("outputScripts")) \in PlainSteps
        /\ Malloc(B("data")) \in PlainSteps
    BY <1>2 DEF PlainSteps
  <2> QED BY <2>1
<1>7. bytes \in Seq(PlainSteps) /\ Len(bytes) = Items
  <2>1. \A n \in 1 .. Items : Malloc(<<"bytes", n>>) \in PlainSteps
    BY <1>2 DEF PlainSteps
  <2> QED BY <2>1, ItemsAssumption
<1> HIDE DEF used
<1>8. loop \in Seq(PlainSteps) /\ Len(loop) = 4 * Items
  <2>1. \A n \in 1 .. 4 * Items : Calloc(used[n]) \in PlainSteps /\ Malloc(used[n]) \in PlainSteps
    BY <1>4 DEF PlainSteps
  <2>2. \A n \in 1 .. 4 * Items : loop[n] \in PlainSteps
    BY <1>4, <2>1
  <2>3. 4 * Items \in Nat
    BY ItemsAssumption
  <2> QED BY <1>4, <2>2, <2>3
<1>9. /\ \A n \in 1 .. 4 * Items :
           /\ used[n][1] \in {"coin", "coinContext"} => loop[n] = Calloc(used[n])
           /\ used[n][1] \notin {"coin", "coinContext"} => loop[n] = Malloc(used[n])
      /\ \A n \in 1 .. Items : bytes[n] = Malloc(<<"bytes", n>>)
      /\ head[1] = Work /\ head[2] = Calloc(B("result")) /\ head[3] = Calloc(B("usedCoins"))
      /\ mid[1] = Calloc(B("outputScripts")) /\ last[1] = Malloc(B("data"))
  BY <1>4
<1> HIDE DEF head, loop, mid, bytes, last, u1, u2, u3, body
<1>nat. /\ 4 * Items \in Nat /\ 3 + 4 * Items \in Nat /\ 4 + 4 * Items \in Nat
        /\ 4 + 5 * Items \in Nat /\ Items \in Nat /\ 3 \in Nat /\ 1 \in Nat
  BY ItemsAssumption
<1>10. Joined(u1, head, 3, loop, 4 * Items)
  BY <1>nat, <1>6, <1>8, Joining DEF u1
<1>11. Joined(u2, u1, 3 + 4 * Items, mid, 1)
  <2>1. u1 \in Seq(PlainSteps) /\ Len(u1) = 3 + 4 * Items
    BY <1>10 DEF Joined
  <2> QED BY <1>nat, <1>6, <2>1, Joining DEF u2
<1>12. 3 + 4 * Items + 1 = 4 + 4 * Items
  BY ItemsAssumption
<1>13. Joined(u3, u2, 4 + 4 * Items, bytes, Items)
  BY <1>7, <1>11, <1>12, Joining, ItemsAssumption DEF u3, Joined
<1>14. 4 + 4 * Items + Items = 4 + 5 * Items
  BY ItemsAssumption
<1>15. Joined(body, u3, 4 + 5 * Items, last, 1)
  <2>1. u3 \in Seq(PlainSteps) /\ Len(u3) = 4 + 5 * Items
    BY <1>13, <1>14 DEF Joined
  <2> QED BY <1>nat, <1>6, <2>1, Joining DEF body
<1>16. /\ \A i \in 1 .. 3 : body[i] = head[i]
       /\ \A i \in 1 .. 4 * Items : body[3 + i] = loop[i]
       /\ body[4 + 4 * Items] = mid[1]
       /\ \A i \in 1 .. Items : body[4 + 4 * Items + i] = bytes[i]
       /\ body[5 + 5 * Items] = last[1] /\ Len(body) = 5 + 5 * Items
  <2>1. /\ Len(body) = 4 + 5 * Items + 1
        /\ \A i \in 1 .. 4 + 5 * Items : body[i] = u3[i]
        /\ body[4 + 5 * Items + 1] = last[1]
    BY <1>15 DEF Joined
  <2>2. /\ \A i \in 1 .. 4 + 4 * Items : i \in 1 .. 4 + 5 * Items /\ u3[i] = u2[i]
        /\ \A i \in 1 .. Items :
             4 + 4 * Items + i \in 1 .. 4 + 5 * Items /\ u3[4 + 4 * Items + i] = bytes[i]
    BY <1>13, <1>14 DEF Joined
  <2>3. /\ \A i \in 1 .. 3 + 4 * Items : i \in 1 .. 4 + 4 * Items /\ u2[i] = u1[i]
        /\ u2[3 + 4 * Items + 1] = mid[1]
    BY <1>11, <1>12 DEF Joined
  <2>4. /\ \A i \in 1 .. 3 : i \in 1 .. 3 + 4 * Items /\ u1[i] = head[i]
        /\ \A i \in 1 .. 4 * Items : 3 + i \in 1 .. 3 + 4 * Items /\ u1[3 + i] = loop[i]
    BY <1>10 DEF Joined
  <2>5. /\ 4 + 5 * Items + 1 = 5 + 5 * Items /\ 4 + 4 * Items \in 1 .. 4 + 4 * Items
    BY ItemsAssumption
  <2>6. body[4 + 4 * Items] = mid[1]
    BY <1>12, <2>1, <2>2, <2>3, <2>5
  <2>7. \A i \in 1 .. Items : body[4 + 4 * Items + i] = bytes[i]
    BY <2>1, <2>2
  <2>8. \A i \in 1 .. 3 + 4 * Items : body[i] = u1[i]
    BY <2>1, <2>2, <2>3
  <2> QED BY <2>1, <2>4, <2>5, <2>6, <2>7, <2>8
<1>17. ASSUME NEW k \in 1 .. Items
       PROVE  /\ body[4 * k] = Calloc(<<"coin", k>>)
              /\ body[4 * k + 1] = Malloc(<<"coinData", k>>)
              /\ body[4 * k + 2] = Calloc(<<"coinContext", k>>)
              /\ body[4 * k + 3] = Malloc(<<"contextData", k>>)
  <2>1. /\ used[4 * k - 3] = <<"coin", k>> /\ used[4 * k - 2] = <<"coinData", k>>
        /\ used[4 * k - 1] = <<"coinContext", k>> /\ used[4 * k] = <<"contextData", k>>
    BY <1>1 DEF IsLoopOfFour
  <2>2. /\ 4 * k - 3 \in 1 .. 4 * Items /\ 4 * k - 2 \in 1 .. 4 * Items
        /\ 4 * k - 1 \in 1 .. 4 * Items /\ 4 * k \in 1 .. 4 * Items
    BY ItemsAssumption
  <2>3. /\ loop[4 * k - 3] = Calloc(<<"coin", k>>) /\ loop[4 * k - 2] = Malloc(<<"coinData", k>>)
        /\ loop[4 * k - 1] = Calloc(<<"coinContext", k>>)
        /\ loop[4 * k] = Malloc(<<"contextData", k>>)
    <3>1. /\ <<"coin", k>>[1] = "coin" /\ <<"coinData", k>>[1] = "coinData"
          /\ <<"coinContext", k>>[1] = "coinContext" /\ <<"contextData", k>>[1] = "contextData"
      OBVIOUS
    <3> QED BY <1>9, <2>1, <2>2, <3>1
  <2>4. /\ body[3 + (4 * k - 3)] = loop[4 * k - 3] /\ body[3 + (4 * k - 2)] = loop[4 * k - 2]
        /\ body[3 + (4 * k - 1)] = loop[4 * k - 1] /\ body[3 + 4 * k] = loop[4 * k]
    BY <1>16, <2>2
  <2>5. /\ 3 + (4 * k - 3) = 4 * k /\ 3 + (4 * k - 2) = 4 * k + 1
        /\ 3 + (4 * k - 1) = 4 * k + 2 /\ 3 + 4 * k = 4 * k + 3
    BY ItemsAssumption
  <2> QED BY <2>3, <2>4, <2>5
<1>18. body[1] = head[1] /\ body[2] = head[2] /\ body[3] = head[3]
  BY <1>16
<1>19. \A k \in 1 .. Items : body[4 + 4 * Items + k] = Malloc(<<"bytes", k>>)
  BY <1>9, <1>16
<1>20. SpendSteps(body)
  BY <1>9, <1>16, <1>17, <1>18, <1>19 DEF SpendSteps
<1> QED BY <1>5, <1>20

LEMMA SpendCases ==
  ASSUME NEW m \in 1 .. 5 + 5 * Items
  PROVE  \/ m \in {1, 2, 3, 4 + 4 * Items, 5 + 5 * Items}
         \/ m < 4 + 4 * Items /\ \E k \in 1 .. Items :
              m \in {4 * k, 4 * k + 1, 4 * k + 2, 4 * k + 3}
         \/ m > 4 + 4 * Items /\ \E k \in 1 .. Items : m = 4 + 4 * Items + k
<1>0. Items \in Nat
  BY ItemsAssumption
<1>1. CASE m > 3 /\ m < 4 + 4 * Items
  <2>1. m - 3 \in 1 .. 4 * Items
    BY <1>0, <1>1
  <2>2. PICK k \in 1 .. Items : m - 3 \in {4 * k - 3, 4 * k - 2, 4 * k - 1, 4 * k}
    BY <2>1, FourCases
  <2>3. m \in {4 * k, 4 * k + 1, 4 * k + 2, 4 * k + 3}
    BY <1>0, <2>2
  <2> QED BY <1>1, <2>3
<1>2. CASE m > 4 + 4 * Items /\ m < 5 + 5 * Items
  <2>1. m - (4 + 4 * Items) \in 1 .. Items /\ m = 4 + 4 * Items + (m - (4 + 4 * Items))
    BY <1>0, <1>2
  <2> QED BY <1>2, <2>1
<1>3. CASE m \in {1, 2, 3, 4 + 4 * Items, 5 + 5 * Items}
  BY <1>3
<1> QED BY <1>0, <1>1, <1>2, <1>3

\* What a step allocates.
IsStep(s, op, b) == s.op = op /\ s.block = b /\ s.tested = FALSE

LEMMA SpendStraight == IsStraight("spend", SpendBlocks, SpendBlocks)
<1> DEFINE body == SpendBody
           N == 5 + 5 * Items
           F(b) == Fields("spend", b)
<1>0. Items \in Nat /\ N \in Nat \ {0}
  BY ItemsAssumption
<1>1. /\ Len(body) = N /\ body[1].op = "work" /\ body[1].tested = FALSE
      /\ IsStep(body[2], "calloc", B("result")) /\ IsStep(body[3], "calloc", B("usedCoins"))
      /\ IsStep(body[4 + 4 * Items], "calloc", B("outputScripts"))
      /\ IsStep(body[N], "malloc", B("data"))
  BY SpendBodySteps, StepParts DEF SpendSteps, IsStep
<1>2. \A k \in 1 .. Items :
        /\ IsStep(body[4 * k], "calloc", <<"coin", k>>)
        /\ IsStep(body[4 * k + 1], "malloc", <<"coinData", k>>)
        /\ IsStep(body[4 * k + 2], "calloc", <<"coinContext", k>>)
        /\ IsStep(body[4 * k + 3], "malloc", <<"contextData", k>>)
        /\ IsStep(body[4 + 4 * Items + k], "malloc", <<"bytes", k>>)
  <2> SUFFICES ASSUME NEW k \in 1 .. Items
               PROVE  /\ IsStep(body[4 * k], "calloc", <<"coin", k>>)
                      /\ IsStep(body[4 * k + 1], "malloc", <<"coinData", k>>)
                      /\ IsStep(body[4 * k + 2], "calloc", <<"coinContext", k>>)
                      /\ IsStep(body[4 * k + 3], "malloc", <<"contextData", k>>)
                      /\ IsStep(body[4 + 4 * Items + k], "malloc", <<"bytes", k>>)
    OBVIOUS
  <2>1. /\ body[4 * k] = Calloc(<<"coin", k>>)
        /\ body[4 * k + 1] = Malloc(<<"coinData", k>>)
        /\ body[4 * k + 2] = Calloc(<<"coinContext", k>>)
        /\ body[4 * k + 3] = Malloc(<<"contextData", k>>)
        /\ body[4 + 4 * Items + k] = Malloc(<<"bytes", k>>)
    BY SpendBodySteps DEF SpendSteps
  <2> QED BY <2>1, StepParts DEF IsStep
<1>3. /\ F(B("result")) = {B("usedCoins"), B("outputScripts"), B("data")}
      /\ F(B("usedCoins")) = Elements({"coin", "coinContext"})
      /\ F(B("outputScripts")) = Elements({"bytes"}) /\ F(B("data")) = {}
      /\ \A k \in 1 .. Items :
           /\ F(<<"coin", k>>) = {<<"coinData", k>>}
           /\ F(<<"coinContext", k>>) = {<<"contextData", k>>}
           /\ F(<<"coinData", k>>) = {} /\ F(<<"contextData", k>>) = {} /\ F(<<"bytes", k>>) = {}
  BY ResultFields, OtherFields
<1> HIDE DEF body, F, N
<1>4. /\ {B("result"), B("usedCoins"), B("outputScripts"), B("data")} \subseteq SpendBlocks
      /\ \A k \in 1 .. Items : /\ <<"coin", k>> \in SpendBlocks /\ <<"coinData", k>> \in SpendBlocks
                               /\ <<"coinContext", k>> \in SpendBlocks
                               /\ <<"contextData", k>> \in SpendBlocks
                               /\ <<"bytes", k>> \in SpendBlocks
      /\ \A b \in SpendBlocks :
           \/ b \in {B("result"), B("usedCoins"), B("outputScripts"), B("data")}
           \/ \E k \in 1 .. Items : b \in {<<"coin", k>>, <<"coinData", k>>,
                <<"coinContext", k>>, <<"contextData", k>>, <<"bytes", k>>}
  <2>1. \A k \in 1 .. Items : /\ <<"coin", k>> \in Elements(Parts)
                              /\ <<"coinData", k>> \in Elements(Parts)
                              /\ <<"coinContext", k>> \in Elements(Parts)
                              /\ <<"contextData", k>> \in Elements(Parts)
                              /\ <<"bytes", k>> \in Elements({"bytes"})
    BY DEF Elements, Parts
  <2>2. \A b \in Elements(Parts) : \E k \in 1 .. Items :
          b \in {<<"coin", k>>, <<"coinData", k>>, <<"coinContext", k>>, <<"contextData", k>>}
    BY DEF Elements, Parts
  <2>3. \A b \in Elements({"bytes"}) : \E k \in 1 .. Items : b = <<"bytes", k>>
    BY DEF Elements
  <2> QED BY <2>1, <2>2, <2>3 DEF SpendBlocks
<1>part. ASSUME NEW m \in Nat, NEW k \in 1 .. Items,
                m \in {4 * k, 4 * k + 1, 4 * k + 2, 4 * k + 3}
         PROVE  \E op \in {"calloc", "malloc"}, name \in Parts :
                  /\ IsStep(body[m], op, <<name, k>>)
                  /\ op = "malloc" => F(<<name, k>>) = {}
                  /\ F(<<name, k>>) \subseteq {<<"coinData", k>>, <<"contextData", k>>}
  <2>1. CASE m = 4 * k
    BY <1>2, <1>3, <2>1 DEF Parts
  <2>2. CASE m = 4 * k + 1
    BY <1>2, <1>3, <2>2 DEF Parts
  <2>3. CASE m = 4 * k + 2
    BY <1>2, <1>3, <2>3 DEF Parts
  <2>4. CASE m = 4 * k + 3
    BY <1>2, <1>3, <2>4 DEF Parts
  <2> QED BY <1>part, <2>1, <2>2, <2>3, <2>4
<1>5. ASSUME NEW m \in 1 .. N
      PROVE  /\ body[m].tested = FALSE /\ body[m].op \in {"work", "calloc", "malloc"}
             /\ body[m].op # "work" => body[m].block \in SpendBlocks
             /\ body[m].op = "malloc" => F(body[m].block) = {}
  <2>1. CASE m \in {1, 2, 3, 4 + 4 * Items, N}
    BY <1>1, <1>3, <1>4, <2>1 DEF IsStep
  <2>2. ASSUME NEW k \in 1 .. Items, m \in {4 * k, 4 * k + 1, 4 * k + 2, 4 * k + 3}
        PROVE  /\ body[m].tested = FALSE /\ body[m].op \in {"work", "calloc", "malloc"}
               /\ body[m].op # "work" => body[m].block \in SpendBlocks
               /\ body[m].op = "malloc" => F(body[m].block) = {}
    <3>1. PICK op \in {"calloc", "malloc"}, name \in Parts :
            IsStep(body[m], op, <<name, k>>) /\ (op = "malloc" => F(<<name, k>>) = {})
      BY <1>part, <2>2
    <3>2. <<name, k>> \in SpendBlocks
      BY <1>4 DEF Parts
    <3> QED BY <3>1, <3>2 DEF IsStep
  <2>3. ASSUME NEW k \in 1 .. Items, m = 4 + 4 * Items + k
        PROVE  /\ body[m].tested = FALSE /\ body[m].op \in {"work", "calloc", "malloc"}
               /\ body[m].op # "work" => body[m].block \in SpendBlocks
               /\ body[m].op = "malloc" => F(body[m].block) = {}
    <3>1. /\ IsStep(body[m], "malloc", <<"bytes", k>>) /\ F(<<"bytes", k>>) = {}
          /\ <<"bytes", k>> \in SpendBlocks
      BY <1>2, <1>3, <1>4, <2>3
    <3> QED BY <3>1 DEF IsStep
  <2> QED BY <2>1, <2>2, <2>3, SpendCases DEF N
<1>6. ASSUME NEW b \in SpendBlocks
      PROVE  \E m \in 1 .. N : body[m].op # "work" /\ body[m].block = b
  <2>1. /\ 2 \in 1 .. N /\ 3 \in 1 .. N /\ 4 + 4 * Items \in 1 .. N /\ N \in 1 .. N
        /\ \A k \in 1 .. Items : /\ 4 * k \in 1 .. N /\ 4 * k + 1 \in 1 .. N /\ 4 * k + 2 \in 1 .. N
                                 /\ 4 * k + 3 \in 1 .. N /\ 4 + 4 * Items + k \in 1 .. N
    BY <1>0 DEF N
  <2>2. CASE b \in {B("result"), B("usedCoins"), B("outputScripts"), B("data")}
    BY <1>1, <2>1, <2>2 DEF IsStep
  <2>3. ASSUME NEW k \in 1 .. Items, b \in {<<"coin", k>>, <<"coinData", k>>,
                 <<"coinContext", k>>, <<"contextData", k>>, <<"bytes", k>>}
        PROVE  \E m \in 1 .. N : body[m].op # "work" /\ body[m].block = b
    BY <1>2, <2>1, <2>3 DEF IsStep
  <2> QED BY <1>4, <2>2, <2>3
<1>7. ASSUME NEW m \in 1 .. N, NEW n \in 1 .. N, m < n, body[m].op # "work",
             body[n].op # "work"
      PROVE  body[m].block \notin F(body[n].block)
  <2>1. m # 1 /\ n # 2 /\ n # 1
    BY <1>0, <1>1, <1>7
  <2>2. CASE m \in {2, 3}
    <3>1. body[m].block \in {B("result"), B("usedCoins")}
      BY <1>1, <2>2 DEF IsStep
    <3>2. \A k \in 1 .. Items : B("result") # <<"coinData", k>> /\ B("usedCoins") # <<"coinData", k>>
            /\ B("result") # <<"contextData", k>> /\ B("usedCoins") # <<"contextData", k>>
      BY DEF B
    <3>3. \A names : B("result") \notin Elements(names) /\ B("usedCoins") \notin Elements(names)
      BY BlockNames
    <3>4. CASE n \in {3, 4 + 4 * Items, N}
      BY <1>1, <1>3, <3>1, <3>3, <3>4 DEF IsStep
    <3>5. ASSUME NEW k \in 1 .. Items, n \in {4 * k, 4 * k + 1, 4 * k + 2, 4 * k + 3}
          PROVE  body[m].block \notin F(body[n].block)
      <4>1. PICK op \in {"calloc", "malloc"}, name \in Parts :
              /\ IsStep(body[n], op, <<name, k>>)
              /\ F(<<name, k>>) \subseteq {<<"coinData", k>>, <<"contextData", k>>}
        BY <1>part, <3>5
      <4> QED BY <3>1, <3>2, <4>1 DEF IsStep
    <3>6. ASSUME NEW k \in 1 .. Items, n = 4 + 4 * Items + k
          PROVE  body[m].block \notin F(body[n].block)
      BY <1>2, <1>3, <3>6 DEF IsStep
    <3> QED BY <2>1, <3>4, <3>5, <3>6, SpendCases DEF N
  <2>3. ASSUME NEW j \in 1 .. Items, m \in {4 * j, 4 * j + 1, 4 * j + 2, 4 * j + 3}
        PROVE  body[m].block \notin F(body[n].block)
    <3>1. \/ m = 4 * j /\ body[m].block = <<"coin", j>>
          \/ m = 4 * j + 1 /\ body[m].block = <<"coinData", j>>
          \/ m = 4 * j + 2 /\ body[m].block = <<"coinContext", j>>
          \/ m = 4 * j + 3 /\ body[m].block = <<"contextData", j>>
      BY <1>2, <2>3 DEF IsStep
    <3>2. CASE n \in {4 + 4 * Items, N}
      <4>1. body[m].block \notin Elements({"bytes"})
        BY <3>1 DEF Elements
      <4> QED BY <1>1, <1>3, <3>2, <4>1 DEF IsStep
    <3>3. ASSUME NEW k \in 1 .. Items, n \in {4 * k, 4 * k + 1, 4 * k + 2, 4 * k + 3}
          PROVE  body[m].block \notin F(body[n].block)
      <4>1. CASE n = 4 * k
        <5>1. F(body[n].block) = {<<"coinData", k>>}
          BY <1>2, <1>3, <4>1 DEF IsStep
        <5>2. body[m].block = <<"coinData", k>> => j = k /\ m = 4 * j + 1
          BY <3>1
        <5> QED BY <1>0, <4>1, <5>1, <5>2, <1>7
      <4>2. CASE n = 4 * k + 2
        <5>1. F(body[n].block) = {<<"contextData", k>>}
          BY <1>2, <1>3, <4>2 DEF IsStep
        <5>2. body[m].block = <<"contextData", k>> => j = k /\ m = 4 * j + 3
          BY <3>1
        <5> QED BY <1>0, <4>2, <5>1, <5>2, <1>7
      <4>3. CASE n = 4 * k + 1 \/ n = 4 * k + 3
        <5>1. \E name \in {"coinData", "contextData"} : IsStep(body[n], "malloc", <<name, k>>)
          BY <1>2, <4>3
        <5> QED BY <1>3, <5>1 DEF IsStep
      <4> QED BY <3>3, <4>1, <4>2, <4>3
    <3>4. ASSUME NEW k \in 1 .. Items, n = 4 + 4 * Items + k
          PROVE  body[m].block \notin F(body[n].block)
      BY <1>2, <1>3, <3>4 DEF IsStep
    <3>5. n # 3
      BY <1>0, <1>7, <3>1
    <3> QED BY <2>1, <3>2, <3>3, <3>4, <3>5, SpendCases DEF N
  <2>4. CASE m >= 4 + 4 * Items
    <3>1. n = N \/ \E k \in 1 .. Items : n = 4 + 4 * Items + k
      <4>1. n > 4 + 4 * Items
        BY <1>0, <1>7, <2>4
      <4> QED BY <1>0, <4>1, SpendCases DEF N
    <3>2. F(body[n].block) = {}
      <4>1. CASE n = N
        BY <1>1, <1>3, <4>1 DEF IsStep
      <4>2. ASSUME NEW k \in 1 .. Items, n = 4 + 4 * Items + k PROVE F(body[n].block) = {}
        <5>1. IsStep(body[n], "malloc", <<"bytes", k>>) /\ F(<<"bytes", k>>) = {}
          BY <1>2, <1>3, <4>2
        <5> QED BY <5>1 DEF IsStep
      <4> QED BY <3>1, <4>1, <4>2
    <3> QED BY <3>2
  <2> QED BY <1>0, <2>1, <2>2, <2>3, <2>4, SpendCases DEF N
<1>8. B("key") \notin SpendBlocks
  BY BlockNames DEF SpendBlocks
<1>9. Straight("spend", body, SpendBlocks, SpendBlocks)
  <2>1. Len(body) \in Nat \ {0} /\ Len(body) = N
    BY <1>0, <1>1
  <2> QED BY <1>5, <1>6, <1>7, <1>8, <2>1, Zenon DEF Straight, F
<1>10. SpendReads(FALSE) \subseteq SpendBlocks
  <2>1. Elements({"coin", "coinData", "coinContext", "contextData", "bytes"})
          = Elements(Parts) \cup Elements({"bytes"})
    BY DEF Elements, Parts
  <2> QED BY <2>1 DEF SpendReads, SpendBlocks
<1> QED BY <1>9, <1>10, SpendResultFreed, SpendFreed, Bodies, Unwinds, DartFrees, DartReads
        DEF IsStraight, body

-----------------------------------------------------------------------------
(***************************************************************************)
(* The pointers of a call.                                                 *)
(***************************************************************************)

PointerMaps == [Blocks -> PointerStates]

\* The live blocks, but for the key.
OnlyLive(p, L) == \A b \in Blocks \ {B("key")} : p[b] = "live" <=> b \in L

StraightKinds == {"buffer", "tags", "recover", "mint", "spend", "context"}

\* What the first n - 1 steps allocate.
MadeBefore(k, n) == {Body(k)[m].block : m \in {x \in 1 .. n - 1 : Body(k)[x].op # "work"}}

\* Before step n of the body, ...
BodyInOrder(k, n, p) ==
  /\ n \in 1 .. Len(Body(k))
  /\ k \in StraightKinds =>
       /\ \A b \in Blocks \ {B("key")} : p[b] \in {"absent", "null", "live"}
       /\ OnlyLive(p, MadeBefore(k, n))
  /\ k = "validate" =>
       OnlyLive(p, IF n = 1 THEN {} ELSE {B("result")}) /\ (n > 1 => p[B("error")] = "null")
  /\ k = "proof" =>
       /\ OnlyLive(p, IF n = 1 THEN {} ELSE {B("result")})
       /\ (n > 2 => p[B("proof")] = "null") /\ (n > 3 => p[B("error")] = "null")
  /\ k = "fee" => OnlyLive(p, IF n < 3 THEN {} ELSE {B("result")})
  /\ k = "name" =>
       OnlyLive(p, IF n < 3 THEN {} ELSE {B("result")}) /\ (n > 3 => p[B("error")] = "null")

\* ... before step n of the catch block, ...
CatchInOrder(k, n, p) ==
  /\ k \in {"spend", "validate", "proof", "fee", "name"}
  /\ n \in 1 .. Len(Handler(k))
  /\ k \in {"validate", "proof"} => OnlyLive(p, {B("result")})
  /\ k \in {"spend", "fee", "name"} => OnlyLive(p, IF n = 1 THEN {} ELSE {B("result")})
  /\ k = "proof" \/ (k = "name" /\ n = 3) =>
       p[IF k = "proof" THEN B("proof") ELSE B("script")] = "null"

\* ... and in a result.
ReturnInOrder(k, f, p) ==
  \E L, M : /\ FreesEach(Frees(k, f), M) /\ B("key") \notin M
            /\ OnlyLive(p, L) /\ Reads(k, f) \subseteq L /\ L \subseteq M
            /\ \A b \in M : p[b] \in {"live", "null"}

\* A native cleanup frees all that is live.
LEMMA CleanedUp ==
  ASSUME NEW p \in PointerMaps, NEW list, NEW U, FreesEach(list, U), B("key") \notin U,
         \A b \in U : p[b] \in {"absent", "live", "null"}, NEW L, OnlyLive(p, L), L \subseteq U
  PROVE  FreedAll(p, list) \in PointerMaps /\ OnlyLive(FreedAll(p, list), {})
<1> DEFINE q == FreedAll(p, list)
<1>1. list \in Seq(Blocks) /\ Once(list) /\ Members(list) = U
  BY DEF FreesEach
<1>2. \A n \in 1 .. Len(list) : list[n] \in U
  BY <1>1 DEF Members
<1>3. q = FreedTo(p, list, Len(list))
  BY <1>1, <1>2, FreedAllOnce DEF PointerMaps
<1>4. q = [b \in Blocks |-> IF p[b] = "live" /\ b \in U THEN "freed" ELSE p[b]]
  BY <1>1, <1>3 DEF FreedTo, Members
<1> HIDE DEF q
<1>5. q \in PointerMaps
  BY <1>4 DEF PointerMaps, PointerStates
<1>6. OnlyLive(q, {})
  BY <1>4 DEF OnlyLive
<1> QED BY <1>5, <1>6 DEF q

\* Reading a result and freeing it leaves nothing live.
LEMMA ResultConsumed ==
  ASSUME NEW p \in PointerMaps, NEW k, NEW f, ReturnInOrder(k, f, p), NEW read,
         read = [b \in Blocks |-> IF b \in Reads(k, f) /\ p[b] # "live"
                                  THEN "corrupt" ELSE p[b]]
  PROVE  /\ FoldLeft(Freed, read, Frees(k, f)) \in PointerMaps
         /\ OnlyLive(FoldLeft(Freed, read, Frees(k, f)), {})
<1> DEFINE list == Frees(k, f)
           q == FoldLeft(Freed, read, list)
<1>0. PICK L, M : /\ FreesEach(list, M) /\ B("key") \notin M
                  /\ OnlyLive(p, L) /\ Reads(k, f) \subseteq L /\ L \subseteq M
                  /\ \A b \in M : p[b] \in {"live", "null"}
  BY DEF ReturnInOrder
<1>1. list \in Seq(Blocks) /\ Once(list) /\ Members(list) = M
  BY <1>0 DEF FreesEach
<1> HIDE DEF list, q
<1>2. \A n \in 1 .. Len(list) : list[n] \in M
  BY <1>1 DEF Members
<1>3. M \subseteq Blocks
  BY <1>1, LenProperties, ElementOfSeq DEF Members
<1>4. \A b \in Reads(k, f) : b \in Blocks /\ p[b] = "live"
  BY <1>0, <1>3 DEF OnlyLive
<1>5. read = p
  BY <1>4 DEF PointerMaps
<1>6. q = FreedTo(p, list, Len(list))
  <2>1. \A n \in 1 .. Len(list) : p[list[n]] \in {"live", "null"}
    BY <1>0, <1>2
  <2>2. FoldLeft(Freed, p, list) = FreedTo(p, list, Len(list))
    BY <1>1, <2>1, FreedOnce DEF PointerMaps
  <2> QED BY <1>5, <2>2, Zenon DEF q
<1>7. q = [b \in Blocks |-> IF p[b] = "live" /\ b \in M THEN "freed" ELSE p[b]]
  BY <1>1, <1>6 DEF FreedTo, Members
<1>8. q \in PointerMaps /\ OnlyLive(q, {})
  BY <1>0, <1>7 DEF PointerMaps, PointerStates, OnlyLive
<1> QED BY <1>8 DEF q, list

\* The pointers after a step.
After(p, k, s) ==
  CASE s.op = "work" -> p
    [] s.op = "null" -> [p EXCEPT ![s.block] = "null"]
    [] OTHER -> Allocated(p, k, s)

LEMMA AllocatedParts ==
  ASSUME NEW p \in PointerMaps, NEW k, NEW s, NEW op \in {"calloc", "malloc"}, s.op = op,
         NEW b \in Blocks, s.block = b
  PROVE  /\ After(p, k, s) \in PointerMaps /\ After(p, k, s)[b] = "live"
         /\ \A c \in Blocks \ {b} :
              /\ c \in Fields(k, b) =>
                   After(p, k, s)[c] = IF op = "calloc" THEN "null" ELSE "unset"
              /\ c \notin Fields(k, b) => After(p, k, s)[c] = p[c]
<1>1. After(p, k, s) = Allocated(p, k, s)
  BY DEF After
<1> DEFINE q == Allocated(p, k, s)
<1>2. q = [c \in Blocks |-> IF c = b THEN "live"
                            ELSE IF c \in Fields(k, b)
                              THEN IF op = "calloc" THEN "null" ELSE "unset"
                            ELSE p[c]]
  BY DEF Allocated
<1> HIDE DEF q
<1>3. q \in PointerMaps
  BY <1>2 DEF PointerMaps, PointerStates
<1>4. q[b] = "live" /\ \A c \in Blocks \ {b} :
              /\ c \in Fields(k, b) => q[c] = IF op = "calloc" THEN "null" ELSE "unset"
              /\ c \notin Fields(k, b) => q[c] = p[c]
  BY <1>2
<1> QED BY <1>1, <1>3, <1>4 DEF q

LEMMA NulledParts ==
  ASSUME NEW p \in PointerMaps, NEW k, NEW s, s.op = "null", NEW b \in Blocks, s.block = b
  PROVE  /\ After(p, k, s) \in PointerMaps /\ After(p, k, s)[b] = "null"
         /\ \A c \in Blocks \ {b} : After(p, k, s)[c] = p[c]
<1>1. After(p, k, s) = [p EXCEPT ![b] = "null"]
  BY DEF After
<1> QED BY <1>1 DEF PointerMaps, PointerStates

LEMMA WorkedParts ==
  ASSUME NEW p, NEW k, NEW s, s.op = "work"
  PROVE  After(p, k, s) = p
BY DEF After

LEMMA AllStraight ==
  ASSUME NEW k \in StraightKinds
  PROVE  \E U, F : IsStraight(k, U, F)
BY BufferStraight, TagsStraight, ContextStraight, RecoverStraight, MintStraight,
   SpendStraight DEF StraightKinds

LEMMA FreesBlocks ==
  ASSUME NEW list, NEW M, FreesEach(list, M)
  PROVE  M \subseteq Blocks
BY LenProperties, ElementOfSeq DEF FreesEach, Members

\* The body goes on, or returns.
BodyGoesOn(k, n, q) ==
  /\ q \in PointerMaps
  /\ n = Len(Body(k)) => ReturnInOrder(k, FALSE, q)
  /\ n # Len(Body(k)) => BodyInOrder(k, n + 1, q)

LEMMA StraightNext ==
  ASSUME NEW k \in StraightKinds, NEW p \in PointerMaps, NEW n, BodyInOrder(k, n, p)
  PROVE  BodyGoesOn(k, n, After(p, k, Body(k)[n]))
<1> DEFINE body == Body(k)
           N == Len(body)
           s == body[n]
           q == After(p, k, s)
<1>1. PICK U, F : IsStraight(k, U, F)
  BY AllStraight
<1>2. /\ N \in Nat \ {0}
      /\ s.op \in {"work", "calloc", "malloc"}
      /\ s.op # "work" => s.block \in F
      /\ s.op = "malloc" => Fields(k, s.block) = {}
      /\ B("key") \notin F /\ n \in 1 .. N
  BY <1>1 DEF IsStraight, Straight, BodyInOrder
<1>3. F \subseteq Blocks
  BY <1>1, FreesBlocks DEF IsStraight
<1>4. /\ \A b \in Blocks \ {B("key")} : p[b] \in {"absent", "null", "live"}
      /\ OnlyLive(p, MadeBefore(k, n))
  BY DEF BodyInOrder
<1>5. s.op # "work" => \A b \in MadeBefore(k, n) : b \notin Fields(k, s.block)
  <2> SUFFICES ASSUME s.op # "work", NEW b \in MadeBefore(k, n)
               PROVE  b \notin Fields(k, s.block)
    OBVIOUS
  <2>1. PICK m \in 1 .. n - 1 : body[m].op # "work" /\ b = body[m].block
    BY DEF MadeBefore
  <2>2. m \in 1 .. N /\ m < n
    BY <1>2
  <2> QED BY <1>1, <1>2, <2>1, <2>2 DEF IsStraight, Straight
<1>6. MadeBefore(k, n + 1) = MadeBefore(k, n) \cup (IF s.op = "work" THEN {} ELSE {s.block})
  <2>1. 1 .. (n + 1) - 1 = 1 .. n /\ n \in 1 .. n /\ \A m \in 1 .. n : m = n \/ m \in 1 .. n - 1
    BY <1>2
  <2>2. 1 .. n - 1 \subseteq 1 .. n
    BY <1>2
  <2> QED BY <2>1, <2>2 DEF MadeBefore
<1> HIDE DEF q, s, N, body
<1>7. /\ q \in PointerMaps /\ OnlyLive(q, MadeBefore(k, n + 1))
      /\ \A b \in Blocks \ {B("key")} : q[b] \in {"absent", "null", "live"}
  <2>1. CASE s.op = "work"
    <3>1. q = p
      BY <2>1, WorkedParts DEF q, s, body
    <3> QED BY <1>4, <1>6, <2>1, <3>1
  <2>2. CASE s.op # "work"
    <3> DEFINE c == s.block
               op == s.op
    <3>1. op \in {"calloc", "malloc"} /\ c \in Blocks /\ c # B("key")
      BY <1>2, <1>3, <2>2
    <3>2. /\ q \in PointerMaps /\ q[c] = "live"
          /\ \A b \in Blocks \ {c} :
               /\ b \in Fields(k, c) => q[b] = IF op = "calloc" THEN "null" ELSE "unset"
               /\ b \notin Fields(k, c) => q[b] = p[b]
      BY <3>1, AllocatedParts DEF q
    <3>3. op = "malloc" => Fields(k, c) = {}
      BY <1>2
    <3>4. ASSUME NEW b \in Blocks \ {B("key")}
          PROVE  /\ q[b] \in {"absent", "null", "live"}
                 /\ q[b] = "live" <=> b \in MadeBefore(k, n + 1)
      <4>1. CASE b = c
        BY <1>6, <2>2, <3>2, <4>1
      <4>2. CASE b # c /\ b \in Fields(k, c)
        <5>1. q[b] = "null"
          BY <3>1, <3>2, <3>3, <4>2
        <5>2. b \notin MadeBefore(k, n + 1)
          BY <1>5, <1>6, <2>2, <4>2
        <5> QED BY <5>1, <5>2
      <4>3. CASE b # c /\ b \notin Fields(k, c)
        <5>1. q[b] = p[b]
          BY <3>2, <4>3
        <5>2. b \in MadeBefore(k, n + 1) <=> b \in MadeBefore(k, n)
          BY <1>6, <2>2, <4>3
        <5> QED BY <1>4, <5>1, <5>2 DEF OnlyLive
      <4> QED BY <4>1, <4>2, <4>3
    <3> QED BY <3>2, <3>4 DEF OnlyLive
  <2> QED BY <2>1, <2>2
<1>8. ASSUME n = N PROVE ReturnInOrder(k, FALSE, q)
  <2>1. MadeBefore(k, n + 1) = F
    <3>1. 1 .. (N + 1) - 1 = 1 .. N
      BY <1>2
    <3>2. MadeBefore(k, N + 1) = {body[m].block : m \in {x \in 1 .. N : body[x].op # "work"}}
      BY <3>1 DEF MadeBefore, body
    <3>3. /\ \A m \in 1 .. N : body[m].op # "work" => body[m].block \in F
          /\ \A b \in F : \E m \in 1 .. N : body[m].op # "work" /\ body[m].block = b
      BY <1>1 DEF IsStraight, Straight, body, N
    <3> QED BY <1>8, <3>2, <3>3
  <2>2. \A b \in F : q[b] = "live"
    BY <1>2, <1>3, <1>7, <2>1 DEF OnlyLive
  <2>3. FreesEach(Frees(k, FALSE), F) /\ Reads(k, FALSE) \subseteq F
    BY <1>1 DEF IsStraight
  <2> QED BY <1>2, <1>7, <2>1, <2>2, <2>3 DEF ReturnInOrder
<1>9. ASSUME n # N PROVE BodyInOrder(k, n + 1, q)
  <2>1. n + 1 \in 1 .. N
    BY <1>2, <1>9
  <2>2. k \notin {"validate", "proof", "fee", "name"}
    BY DEF StraightKinds
  <2> QED BY <1>7, <2>1, <2>2 DEF BodyInOrder, N, body
<1> QED BY <1>7, <1>8, <1>9 DEF BodyGoesOn, q, s, N, body

\* A straight body throws: its cleanup function frees what it made.
LEMMA StraightThrows ==
  ASSUME NEW k \in StraightKinds, NEW p \in PointerMaps, NEW n, BodyInOrder(k, n, p)
  PROVE  /\ FreedAll(p, Unwind(k)) \in PointerMaps
         /\ OnlyLive(FreedAll(p, Unwind(k)), {})
<1>1. PICK U, F : IsStraight(k, U, F)
  BY AllStraight
<1>2. /\ FreesEach(Unwind(k), U) /\ B("key") \notin U /\ U \subseteq Blocks
      /\ n \in 1 .. Len(Body(k)) /\ Len(Body(k)) \in Nat
  BY <1>1, FreesBlocks DEF IsStraight, Straight, BodyInOrder
<1>3. /\ \A b \in Blocks \ {B("key")} : p[b] \in {"absent", "null", "live"}
      /\ OnlyLive(p, MadeBefore(k, n))
  BY DEF BodyInOrder
<1>4. MadeBefore(k, n) \subseteq U
  <2> SUFFICES ASSUME NEW b \in MadeBefore(k, n) PROVE b \in U
    OBVIOUS
  <2>1. PICK m \in 1 .. n - 1 : Body(k)[m].op # "work" /\ b = Body(k)[m].block
    BY DEF MadeBefore
  <2>2. m \in 1 .. Len(Body(k)) /\ m < Len(Body(k))
    BY <1>2
  <2> QED BY <1>1, <2>1, <2>2 DEF IsStraight, Straight
<1>5. \A b \in U : p[b] \in {"absent", "live", "null"}
  BY <1>2, <1>3
<1> QED BY <1>2, <1>3, <1>4, <1>5, CleanedUp

\* What is live after the result is allocated, after a block in it that holds
\* no pointer is, and after an assignment of nullptr.
LEMMA ResultMade ==
  ASSUME NEW p \in PointerMaps, NEW k, NEW s, s.op \in {"calloc", "malloc"},
         s.block = B("result"), OnlyLive(p, {})
  PROVE  /\ After(p, k, s) \in PointerMaps /\ OnlyLive(After(p, k, s), {B("result")})
         /\ s.op = "calloc" => \A c \in Fields(k, B("result")) :
              c \in Blocks \ {B("result")} => After(p, k, s)[c] = "null"
<1> DEFINE q == After(p, k, s)
           r == B("result")
<1>1. r \in Blocks
  BY BlockNames
<1>2. /\ q \in PointerMaps /\ q[r] = "live"
      /\ \A c \in Blocks \ {r} :
           /\ c \in Fields(k, r) => q[c] = IF s.op = "calloc" THEN "null" ELSE "unset"
           /\ c \notin Fields(k, r) => q[c] = p[c]
  BY <1>1, AllocatedParts
<1> HIDE DEF q, r
<1>3. \A c \in Blocks \ {r} : q[c] = "live" => p[c] = "live"
  BY <1>2
<1>4. OnlyLive(q, {r})
  BY <1>2, <1>3 DEF OnlyLive
<1> QED BY <1>2, <1>4 DEF q, r

LEMMA PartMade ==
  ASSUME NEW p \in PointerMaps, NEW k, NEW s, s.op = "malloc", NEW b \in Blocks,
         s.block = b, b # B("key"), Fields(k, b) = {}, OnlyLive(p, {B("result")})
  PROVE  /\ After(p, k, s) \in PointerMaps
         /\ OnlyLive(After(p, k, s), {B("result"), b})
         /\ \A c \in Blocks \ {b} : After(p, k, s)[c] = p[c]
<1> DEFINE q == After(p, k, s)
<1>1. q \in PointerMaps /\ q[b] = "live" /\ \A c \in Blocks \ {b} : q[c] = p[c]
  BY AllocatedParts
<1> HIDE DEF q
<1>2. OnlyLive(q, {B("result"), b})
  BY <1>1 DEF OnlyLive
<1> QED BY <1>1, <1>2 DEF q

LEMMA Nulls ==
  ASSUME NEW p \in PointerMaps, NEW k, NEW s, s.op = "null", NEW b \in Blocks, s.block = b,
         NEW L, OnlyLive(p, L), b \notin L
  PROVE  /\ After(p, k, s) \in PointerMaps /\ OnlyLive(After(p, k, s), L)
         /\ After(p, k, s)[b] = "null"
         /\ \A c \in Blocks \ {b} : After(p, k, s)[c] = p[c]
<1> DEFINE q == After(p, k, s)
<1>1. q \in PointerMaps /\ q[b] = "null" /\ \A c \in Blocks \ {b} : q[c] = p[c]
  BY NulledParts
<1> HIDE DEF q
<1>2. OnlyLive(q, L)
  BY <1>1 DEF OnlyLive
<1> QED BY <1>1, <1>2 DEF q

LEMMA FreesThree ==
  ASSUME NEW a \in Blocks, NEW b \in Blocks, NEW c \in Blocks, a # b, a # c, b # c
  PROVE  FreesEach(<<a, b, c>>, {a, b, c})
<1> DEFINE l == <<a, b, c>>
<1>1. l \in Seq(Blocks) /\ Len(l) = 3 /\ l[1] = a /\ l[2] = b /\ l[3] = c
  OBVIOUS
<1>2. 1 .. 3 = {1, 2, 3}
  OBVIOUS
<1> HIDE DEF l
<1>3. Once(l) /\ Members(l) = {a, b, c}
  BY <1>1, <1>2 DEF Once, Members
<1> QED BY <1>1, <1>3 DEF FreesEach, l

\* The results with an error in them.
LEMMA ErrorResultFreed ==
  /\ FreesEach(<<B("error"), B("result")>>, {B("error"), B("result")})
  /\ FreesEach(<<B("error"), B("proof"), B("result")>>, {B("error"), B("proof"), B("result")})
  /\ FreesEach(<<B("error"), B("script"), B("result")>>, {B("error"), B("script"), B("result")})
  /\ B("key") \notin {B("error"), B("result"), B("proof"), B("script")}
BY BlockNames, FreesTwo, FreesThree

LEMMA ValidateNext ==
  ASSUME NEW p \in PointerMaps, NEW n, BodyInOrder("validate", n, p)
  PROVE  BodyGoesOn("validate", n, After(p, "validate", Body("validate")[n]))
<1> DEFINE k == "validate"
           body == Body(k)
           q == After(p, k, body[n])
           r == B("result")
           e == B("error")
<1>1. Len(body) = 2 /\ body[1] = CallocOr(r, <<>>) /\ body[2] = Work
  BY Bodies DEF ValidateBody
<1>2. /\ n \in {1, 2} /\ OnlyLive(p, IF n = 1 THEN {} ELSE {r})
      /\ n > 1 => p[e] = "null"
  <2>1. n \in 1 .. 2
    BY <1>1 DEF BodyInOrder
  <2>2. OnlyLive(p, IF n = 1 THEN {} ELSE {r}) /\ (n > 1 => p[e] = "null")
    BY Zenon DEF BodyInOrder
  <2> QED BY <2>1, <2>2
<1>3. r \in Blocks \ {B("key")} /\ e \in Blocks \ {B("key")} /\ e # r /\ Fields(k, r) = {e}
  BY BlockNames, ResultFields
<1> HIDE DEF r, e, body
<1>4. q \in PointerMaps /\ OnlyLive(q, {r}) /\ q[e] = "null"
  <2>1. CASE n = 1
    <3>1. body[n].op = "calloc" /\ body[n].block = r
      BY <1>1, <2>1, StepParts
    <3>2. OnlyLive(p, {})
      BY <1>2, <2>1
    <3>3. q \in PointerMaps /\ OnlyLive(q, {r}) /\ q[e] = "null"
      BY <1>3, <3>1, <3>2, ResultMade DEF r
    <3> QED BY <3>3
  <2>2. CASE n = 2
    <3>1. q = p
      BY <1>1, <2>2, StepParts, WorkedParts
    <3> QED BY <1>2, <2>2, <3>1
  <2> QED BY <1>2, <2>1, <2>2
<1> HIDE DEF q
<1>5. ReturnInOrder(k, FALSE, q)
  <2>1. /\ FreesEach(Frees(k, FALSE), {e, r}) /\ B("key") \notin {e, r}
        /\ Reads(k, FALSE) \subseteq {r}
    BY DartFrees, DartReads, ErrorResultFreed DEF r, e
  <2>2. q[r] = "live"
    BY <1>3, <1>4 DEF OnlyLive
  <2> QED BY <1>4, <2>1, <2>2 DEF ReturnInOrder
<1>6. n = 1 => BodyInOrder(k, n + 1, q)
  BY <1>1, <1>4 DEF BodyInOrder, StraightKinds, r, e, body
<1> QED BY <1>1, <1>2, <1>4, <1>5, <1>6 DEF BodyGoesOn, q, body
LEMMA ProofNext ==
  ASSUME NEW p \in PointerMaps, NEW n, BodyInOrder("proof", n, p)
  PROVE  BodyGoesOn("proof", n, After(p, "proof", Body("proof")[n]))
<1> DEFINE k == "proof"
           body == Body(k)
           q == After(p, k, body[n])
           r == B("result")
           e == B("error")
           f == B("proof")
<1>1. /\ Len(body) = 5 /\ body[1] = MallocOr(r, <<>>) /\ body[2] = Null(f)
      /\ body[3] = Null(e) /\ body[4] = Work /\ body[5] = MallocOr(f, <<r>>)
  BY Bodies DEF ProofBody
<1>2. /\ n \in {1, 2, 3, 4, 5} /\ OnlyLive(p, IF n = 1 THEN {} ELSE {r})
      /\ (n > 2 => p[f] = "null") /\ (n > 3 => p[e] = "null")
  <2>1. n \in 1 .. 5
    BY <1>1 DEF BodyInOrder
  <2>2. /\ OnlyLive(p, IF n = 1 THEN {} ELSE {r})
        /\ (n > 2 => p[f] = "null") /\ (n > 3 => p[e] = "null")
    BY Zenon DEF BodyInOrder
  <2> QED BY <2>1, <2>2
<1>3. /\ r \in Blocks \ {B("key")} /\ e \in Blocks \ {B("key")} /\ f \in Blocks \ {B("key")}
      /\ e # r /\ f # r /\ e # f /\ Fields(k, r) = {f, e} /\ Fields(k, f) = {}
  BY BlockNames, ResultFields, OtherFields
<1> HIDE DEF r, e, f, body
<1>4. CASE n < 5
  <2>1. /\ q \in PointerMaps /\ OnlyLive(q, {r})
        /\ (n > 1 => q[f] = "null") /\ (n > 2 => q[e] = "null")
    <3>1. CASE n = 1
      <4>1. body[n].op = "malloc" /\ body[n].block = r
        BY <1>1, <3>1, StepParts
      <4>2. OnlyLive(p, {})
        BY <1>2, <3>1
      <4>3. q \in PointerMaps /\ OnlyLive(q, {r})
        BY <4>1, <4>2, ResultMade DEF r
      <4> QED BY <3>1, <4>3
    <3>2. CASE n = 2
      <4>1. body[n].op = "null" /\ body[n].block = f
        BY <1>1, <3>2, StepParts
      <4>2. OnlyLive(p, {r})
        BY <1>2, <3>2
      <4>3. q \in PointerMaps /\ OnlyLive(q, {r}) /\ q[f] = "null"
        BY <1>3, <4>1, <4>2, Nulls
      <4> QED BY <3>2, <4>3
    <3>3. CASE n = 3
      <4>1. body[n].op = "null" /\ body[n].block = e
        BY <1>1, <3>3, StepParts
      <4>2. OnlyLive(p, {r}) /\ p[f] = "null"
        BY <1>2, <3>3
      <4>3. q \in PointerMaps /\ OnlyLive(q, {r}) /\ q[e] = "null" /\ q[f] = p[f]
        BY <1>3, <4>1, <4>2, Nulls
      <4> QED BY <3>3, <4>2, <4>3
    <3>4. CASE n = 4
      <4>1. q = p
        BY <1>1, <3>4, StepParts, WorkedParts
      <4> QED BY <1>2, <3>4, <4>1
    <3> QED BY <1>2, <1>4, <3>1, <3>2, <3>3, <3>4
  <2> HIDE DEF q
  <2>2. n + 1 \in 1 .. 5 /\ n + 1 # 1 /\ (n + 1 > 2 => n > 1) /\ (n + 1 > 3 => n > 2)
    BY <1>2, <1>4
  <2>3. BodyInOrder(k, n + 1, q)
    BY <1>1, <2>1, <2>2 DEF BodyInOrder, StraightKinds, r, e, f, body
  <2>4. n # Len(body)
    BY <1>1, <1>4
  <2> QED BY <2>1, <2>3, <2>4, Zenon DEF BodyGoesOn, q, body
<1>5. CASE n = 5
  <2>1. body[n].op = "malloc" /\ body[n].block = f
    BY <1>1, <1>5, StepParts
  <2>2. OnlyLive(p, {r}) /\ p[e] = "null"
    BY <1>2, <1>5
  <2>3. q \in PointerMaps /\ OnlyLive(q, {r, f}) /\ q[e] = p[e]
    <3>1. /\ q \in PointerMaps /\ OnlyLive(q, {r, f})
          /\ \A c \in Blocks \ {f} : q[c] = p[c]
      BY <1>3, <2>1, <2>2, PartMade DEF r
    <3> QED BY <1>3, <3>1
  <2> HIDE DEF q
  <2>4. q[r] = "live" /\ q[f] = "live"
    BY <1>3, <2>3 DEF OnlyLive
  <2>5. /\ FreesEach(Frees(k, FALSE), {e, f, r}) /\ B("key") \notin {e, f, r}
        /\ Reads(k, FALSE) \subseteq {r, f}
    BY DartFrees, DartReads, ErrorResultFreed DEF r, e, f
  <2>6. ReturnInOrder(k, FALSE, q)
    BY <2>2, <2>3, <2>4, <2>5 DEF ReturnInOrder
  <2> QED BY <1>1, <1>5, <2>3, <2>6 DEF BodyGoesOn, q, body
<1> QED BY <1>2, <1>4, <1>5

LEMMA FeeNext ==
  ASSUME NEW p \in PointerMaps, NEW n, BodyInOrder("fee", n, p)
  PROVE  BodyGoesOn("fee", n, After(p, "fee", Body("fee")[n]))
<1> DEFINE k == "fee"
           body == Body(k)
           q == After(p, k, body[n])
           r == B("result")
           e == B("error")
<1>1. Len(body) = 3 /\ body[1] = Work /\ body[2] = Calloc(r) /\ body[3] = Null(e)
  BY Bodies DEF FeeBody
<1>2. n \in {1, 2, 3} /\ OnlyLive(p, IF n < 3 THEN {} ELSE {r})
  <2>1. n \in 1 .. 3
    BY <1>1 DEF BodyInOrder
  <2>2. OnlyLive(p, IF n < 3 THEN {} ELSE {r})
    BY Zenon DEF BodyInOrder
  <2> QED BY <2>1, <2>2
<1>3. r \in Blocks \ {B("key")} /\ e \in Blocks \ {B("key")} /\ e # r /\ Fields(k, r) = {e}
  BY BlockNames, ResultFields
<1> HIDE DEF r, e, body
<1>4. CASE n = 1
  <2>1. q = p /\ OnlyLive(p, {})
    BY <1>1, <1>2, <1>4, StepParts, WorkedParts
  <2>2. BodyInOrder(k, n + 1, q)
    BY <1>1, <1>4, <2>1 DEF BodyInOrder, StraightKinds, r, body
  <2>3. n # Len(body)
    BY <1>1, <1>4
  <2> QED BY <2>1, <2>2, <2>3, Zenon DEF BodyGoesOn, body
<1>5. CASE n = 2
  <2>1. body[n].op = "calloc" /\ body[n].block = r /\ OnlyLive(p, {})
    BY <1>1, <1>2, <1>5, StepParts
  <2>2. q \in PointerMaps /\ OnlyLive(q, {r})
    BY <2>1, ResultMade DEF r
  <2> HIDE DEF q
  <2>3. BodyInOrder(k, n + 1, q)
    BY <1>1, <1>5, <2>2 DEF BodyInOrder, StraightKinds, r, body
  <2>4. n # Len(body)
    BY <1>1, <1>5
  <2> QED BY <2>2, <2>3, <2>4, Zenon DEF BodyGoesOn, q, body
<1>6. CASE n = 3
  <2>1. body[n].op = "null" /\ body[n].block = e /\ OnlyLive(p, {r})
    BY <1>1, <1>2, <1>6, StepParts
  <2>2. q \in PointerMaps /\ OnlyLive(q, {r}) /\ q[e] = "null"
    BY <1>3, <2>1, Nulls
  <2> HIDE DEF q
  <2>3. /\ FreesEach(Frees(k, FALSE), {e, r}) /\ B("key") \notin {e, r}
        /\ Reads(k, FALSE) \subseteq {r}
    BY DartFrees, DartReads, ErrorResultFreed DEF r, e
  <2>4. q[r] = "live"
    BY <1>3, <2>2 DEF OnlyLive
  <2>5. ReturnInOrder(k, FALSE, q)
    BY <2>2, <2>3, <2>4 DEF ReturnInOrder
  <2> QED BY <1>1, <1>6, <2>2, <2>5 DEF BodyGoesOn, q, body
<1> QED BY <1>2, <1>4, <1>5, <1>6

LEMMA NameNext ==
  ASSUME NEW p \in PointerMaps, NEW n, BodyInOrder("name", n, p)
  PROVE  BodyGoesOn("name", n, After(p, "name", Body("name")[n]))
<1> DEFINE k == "name"
           body == Body(k)
           q == After(p, k, body[n])
           r == B("result")
           e == B("error")
           f == B("script")
<1>1. /\ Len(body) = 4 /\ body[1] = Work /\ body[2] = MallocOr(r, <<>>)
      /\ body[3] = Null(e) /\ body[4] = MallocOr(f, <<r>>)
  BY Bodies DEF NameBody
<1>2. /\ n \in {1, 2, 3, 4} /\ OnlyLive(p, IF n < 3 THEN {} ELSE {r})
      /\ n > 3 => p[e] = "null"
  <2>1. n \in 1 .. 4
    BY <1>1 DEF BodyInOrder
  <2>2. OnlyLive(p, IF n < 3 THEN {} ELSE {r}) /\ (n > 3 => p[e] = "null")
    BY Zenon DEF BodyInOrder
  <2> QED BY <2>1, <2>2
<1>3. /\ r \in Blocks \ {B("key")} /\ e \in Blocks \ {B("key")} /\ f \in Blocks \ {B("key")}
      /\ e # r /\ f # r /\ e # f /\ Fields(k, r) = {f, e} /\ Fields(k, f) = {}
  BY BlockNames, ResultFields, OtherFields
<1> HIDE DEF r, e, f, body
<1>4. CASE n = 1
  <2>1. q = p /\ OnlyLive(p, {})
    BY <1>1, <1>2, <1>4, StepParts, WorkedParts
  <2>2. BodyInOrder(k, n + 1, q)
    BY <1>1, <1>4, <2>1 DEF BodyInOrder, StraightKinds, r, body
  <2>3. n # Len(body)
    BY <1>1, <1>4
  <2> QED BY <2>1, <2>2, <2>3, Zenon DEF BodyGoesOn, body
<1>5. CASE n = 2
  <2>1. body[n].op = "malloc" /\ body[n].block = r /\ OnlyLive(p, {})
    BY <1>1, <1>2, <1>5, StepParts
  <2>2. q \in PointerMaps /\ OnlyLive(q, {r})
    BY <2>1, ResultMade DEF r
  <2> HIDE DEF q
  <2>3. BodyInOrder(k, n + 1, q)
    BY <1>1, <1>5, <2>2 DEF BodyInOrder, StraightKinds, r, body
  <2>4. n # Len(body)
    BY <1>1, <1>5
  <2> QED BY <2>2, <2>3, <2>4, Zenon DEF BodyGoesOn, q, body
<1>6. CASE n = 3
  <2>1. body[n].op = "null" /\ body[n].block = e /\ OnlyLive(p, {r})
    BY <1>1, <1>2, <1>6, StepParts
  <2>2. q \in PointerMaps /\ OnlyLive(q, {r}) /\ q[e] = "null"
    BY <1>3, <2>1, Nulls
  <2> HIDE DEF q
  <2>3. BodyInOrder(k, n + 1, q)
    BY <1>1, <1>6, <2>2 DEF BodyInOrder, StraightKinds, r, e, body
  <2>4. n # Len(body)
    BY <1>1, <1>6
  <2> QED BY <2>2, <2>3, <2>4, Zenon DEF BodyGoesOn, q, body
<1>7. CASE n = 4
  <2>1. /\ body[n].op = "malloc" /\ body[n].block = f /\ OnlyLive(p, {r})
        /\ p[e] = "null"
    BY <1>1, <1>2, <1>7, StepParts
  <2>2. q \in PointerMaps /\ OnlyLive(q, {r, f}) /\ q[e] = p[e]
    <3>1. /\ q \in PointerMaps /\ OnlyLive(q, {r, f})
          /\ \A c \in Blocks \ {f} : q[c] = p[c]
      BY <1>3, <2>1, PartMade DEF r
    <3> QED BY <1>3, <3>1
  <2> HIDE DEF q
  <2>3. /\ FreesEach(Frees(k, FALSE), {e, f, r}) /\ B("key") \notin {e, f, r}
        /\ Reads(k, FALSE) \subseteq {r, f}
    BY DartFrees, DartReads, ErrorResultFreed DEF r, e, f
  <2>4. q[r] = "live" /\ q[f] = "live"
    BY <1>3, <2>2 DEF OnlyLive
  <2>5. ReturnInOrder(k, FALSE, q)
    BY <2>1, <2>2, <2>3, <2>4 DEF ReturnInOrder
  <2> QED BY <1>1, <1>7, <2>2, <2>5 DEF BodyGoesOn, q, body
<1> QED BY <1>2, <1>4, <1>5, <1>6, <1>7

LEMMA BodyNext ==
  ASSUME NEW k \in Kinds, NEW p \in PointerMaps, NEW n, BodyInOrder(k, n, p)
  PROVE  BodyGoesOn(k, n, After(p, k, Body(k)[n]))
BY StraightNext, ValidateNext, ProofNext, FeeNext, NameNext DEF Kinds, StraightKinds
\* Freeing nothing, and a result that is all there is.
LEMMA NothingFreed ==
  ASSUME NEW p \in PointerMaps
  PROVE  FreedAll(p, <<>>) = p
<1>1. FreedAll(p, <<>>) = FreedTo(p, <<>>, Len(<<>>))
  <2>1. <<>> \in Seq(Blocks) /\ Once(<<>>) /\ 1 .. Len(<<>>) = {}
    BY FreesNone DEF FreesEach
  <2> QED BY <2>1, FreedAllOnce DEF PointerMaps
<1>2. FreedTo(p, <<>>, Len(<<>>)) = p
  BY DEF FreedTo, PointerMaps
<1> QED BY <1>1, <1>2

LEMMA ResultFreed ==
  ASSUME NEW p \in PointerMaps, OnlyLive(p, {B("result")})
  PROVE  /\ FreedAll(p, <<B("result")>>) \in PointerMaps
         /\ OnlyLive(FreedAll(p, <<B("result")>>), {})
<1>1. B("result") \in Blocks /\ B("result") # B("key")
  BY BlockNames
<1>2. FreesEach(<<B("result")>>, {B("result")}) /\ p[B("result")] = "live"
  BY <1>1, FreesOne DEF OnlyLive
<1> QED BY <1>1, <1>2, CleanedUp

\* The body throws: what is left is what the catch block, if there is one,
\* starts from.
LEMMA BodyThrows ==
  ASSUME NEW k \in Kinds, NEW p \in PointerMaps, NEW n, BodyInOrder(k, n, p),
         Body(k)[n].op # "null", Body(k)[n].tested = FALSE
  PROVE  /\ FreedAll(p, Unwind(k)) \in PointerMaps
         /\ Handler(k) = <<>> => OnlyLive(FreedAll(p, Unwind(k)), {})
         /\ Handler(k) # <<>> => CatchInOrder(k, 1, FreedAll(p, Unwind(k)))
<1>1. CASE k \in StraightKinds
  <2> DEFINE q == FreedAll(p, Unwind(k))
  <2>1. q \in PointerMaps /\ OnlyLive(q, {})
    BY <1>1, StraightThrows
  <2>2. Handler(k) # <<>> => k = "spend"
    BY <1>1, Handlers DEF StraightKinds
  <2>3. Len(Handler("spend")) = 2
    BY Handlers DEF SpendHandler
  <2> HIDE DEF q
  <2>4. CatchInOrder("spend", 1, q)
    BY <2>1, <2>3 DEF CatchInOrder
  <2> QED BY <2>1, <2>2, <2>4 DEF q
<1>2. CASE k \in {"validate", "proof", "fee", "name"}
  <2>1. FreedAll(p, Unwind(k)) = p
    BY <1>2, Unwinds, NothingFreed
  <2>2. Handler(k) # <<>>
    BY <1>2, Handlers DEF ErrorHandler, FeeHandler, NameHandler
  <2>3. CatchInOrder(k, 1, p)
    <3>1. CASE k = "validate"
      <4>1. Body(k) = <<CallocOr(B("result"), <<>>), Work>> /\ Handler(k) = ErrorHandler
        BY <3>1, Bodies, Handlers DEF ValidateBody
      <4>2. n \in 1 .. 2 /\ n # 1 /\ Len(Handler(k)) = 1
        BY <4>1, StepParts DEF BodyInOrder, ErrorHandler
      <4>3. OnlyLive(p, {B("result")})
        BY <3>1, <4>2 DEF BodyInOrder
      <4> QED BY <3>1, <4>2, <4>3 DEF CatchInOrder
    <3>2. CASE k = "proof"
      <4>1. /\ Body(k) = <<MallocOr(B("result"), <<>>), Null(B("proof")), Null(B("error")),
                           Work, MallocOr(B("proof"), <<B("result")>>)>>
            /\ Handler(k) = ErrorHandler
        BY <3>2, Bodies, Handlers DEF ProofBody
      <4>2. n \in 1 .. 5 /\ n # 1 /\ n # 2 /\ n # 3 /\ Len(Handler(k)) = 1
        BY <4>1, StepParts DEF BodyInOrder, ErrorHandler
      <4>3. OnlyLive(p, {B("result")}) /\ p[B("proof")] = "null"
        BY <3>2, <4>2 DEF BodyInOrder
      <4> QED BY <3>2, <4>2, <4>3 DEF CatchInOrder
    <3>3. CASE k = "fee"
      <4>1. /\ Body(k) = <<Work, Calloc(B("result")), Null(B("error"))>>
            /\ Handler(k) = FeeHandler
        BY <3>3, Bodies, Handlers DEF FeeBody
      <4>2. n \in 1 .. 3 /\ n # 3 /\ Len(Handler(k)) = 2
        BY <4>1, StepParts DEF BodyInOrder, FeeHandler
      <4>3. OnlyLive(p, {})
        BY <3>3, <4>2 DEF BodyInOrder
      <4> QED BY <3>3, <4>2, <4>3 DEF CatchInOrder
    <3>4. CASE k = "name"
      <4>1. /\ Body(k) = <<Work, MallocOr(B("result"), <<>>), Null(B("error")),
                           MallocOr(B("script"), <<B("result")>>)>>
            /\ Handler(k) = NameHandler
        BY <3>4, Bodies, Handlers DEF NameBody
      <4>2. n \in 1 .. 4 /\ n # 2 /\ n # 3 /\ n # 4 /\ Len(Handler(k)) = 3
        BY <4>1, StepParts DEF BodyInOrder, NameHandler
      <4>3. OnlyLive(p, {})
        BY <3>4, <4>2 DEF BodyInOrder
      <4> QED BY <3>4, <4>2, <4>3 DEF CatchInOrder
    <3> QED BY <1>2, <3>1, <3>2, <3>3, <3>4
  <2> QED BY <2>1, <2>2, <2>3
<1> QED BY <1>1, <1>2 DEF Kinds, StraightKinds

\* An allocation tested in place fails: what it frees is all there is.
LEMMA BodyFails ==
  ASSUME NEW k \in Kinds, NEW p \in PointerMaps, NEW n, BodyInOrder(k, n, p),
         Body(k)[n].tested # FALSE
  PROVE  /\ FreedAll(p, Body(k)[n].frees) \in PointerMaps
         /\ OnlyLive(FreedAll(p, Body(k)[n].frees), {})
<1>1. k \notin StraightKinds /\ k # "fee"
  <2>1. ASSUME k \in StraightKinds PROVE FALSE
    <3>1. PICK U, F : IsStraight(k, U, F)
      BY <2>1, AllStraight
    <3> QED BY <3>1 DEF IsStraight, Straight, BodyInOrder
  <2>2. ASSUME k = "fee" PROVE FALSE
    <3>1. Body(k) = <<Work, Calloc(B("result")), Null(B("error"))>>
      BY <2>2, Bodies DEF FeeBody
    <3>2. Body(k)[1].tested = FALSE /\ Body(k)[2].tested = FALSE /\ Body(k)[3].tested = FALSE
      BY <3>1, StepParts
    <3>3. n \in {1, 2, 3}
      BY <3>1 DEF BodyInOrder
    <3> QED BY <3>2, <3>3
  <2> QED BY <2>1, <2>2
<1>2. \/ Body(k)[n].frees = <<>> /\ OnlyLive(p, {})
      \/ Body(k)[n].frees = <<B("result")>> /\ OnlyLive(p, {B("result")})
  <2>1. CASE k = "validate"
    <3>1. Body(k) = <<CallocOr(B("result"), <<>>), Work>>
      BY <2>1, Bodies DEF ValidateBody
    <3>2. Body(k)[1].frees = <<>> /\ Body(k)[2].tested = FALSE
      BY <3>1, StepParts
    <3>3. n \in {1, 2}
      BY <3>1 DEF BodyInOrder
    <3>4. n = 1
      BY <3>2, <3>3
    <3> QED BY <2>1, <3>2, <3>4 DEF BodyInOrder
  <2>2. CASE k = "proof"
    <3>1. Body(k) = <<MallocOr(B("result"), <<>>), Null(B("proof")), Null(B("error")),
                      Work, MallocOr(B("proof"), <<B("result")>>)>>
      BY <2>2, Bodies DEF ProofBody
    <3>2. n \in {1, 5}
      <4>1. n \in {1, 2, 3, 4, 5}
        BY <3>1 DEF BodyInOrder
      <4>2. Body(k)[2].tested = FALSE /\ Body(k)[3].tested = FALSE /\ Body(k)[4].tested = FALSE
        BY <3>1, StepParts
      <4> QED BY <4>1, <4>2
    <3>3. Body(k)[1].frees = <<>> /\ Body(k)[5].frees = <<B("result")>>
      BY <3>1, StepParts
    <3> QED BY <2>2, <3>2, <3>3 DEF BodyInOrder
  <2>3. CASE k = "name"
    <3>1. Body(k) = <<Work, MallocOr(B("result"), <<>>), Null(B("error")),
                      MallocOr(B("script"), <<B("result")>>)>>
      BY <2>3, Bodies DEF NameBody
    <3>2. n \in {2, 4}
      <4>1. n \in {1, 2, 3, 4}
        BY <3>1 DEF BodyInOrder
      <4>2. Body(k)[1].tested = FALSE /\ Body(k)[3].tested = FALSE
        BY <3>1, StepParts
      <4> QED BY <4>1, <4>2
    <3>3. Body(k)[2].frees = <<>> /\ Body(k)[4].frees = <<B("result")>>
      BY <3>1, StepParts
    <3> QED BY <2>3, <3>2, <3>3 DEF BodyInOrder
  <2> QED BY <1>1, <2>1, <2>2, <2>3 DEF Kinds, StraightKinds
<1> QED BY <1>2, NothingFreed, ResultFreed
\* The catch block goes on, or returns a result with an error in it.
CatchGoesOn(k, n, q) ==
  /\ q \in PointerMaps
  /\ n = Len(Handler(k)) => ReturnInOrder(k, TRUE, q)
  /\ n # Len(Handler(k)) => CatchInOrder(k, n + 1, q)

LEMMA ErrorMade ==
  ASSUME NEW p \in PointerMaps, NEW k \in {"validate", "proof", "fee", "name"}, NEW s,
         s.op = "malloc", s.block = B("error"), OnlyLive(p, {B("result")}),
         k = "proof" => p[B("proof")] = "null", k = "name" => p[B("script")] = "null"
  PROVE  After(p, k, s) \in PointerMaps /\ ReturnInOrder(k, TRUE, After(p, k, s))
<1> DEFINE q == After(p, k, s)
           r == B("result")
           e == B("error")
           M == CASE k = "proof" -> {e, B("proof"), r}
                  [] k = "name"  -> {e, B("script"), r}
                  [] OTHER       -> {e, r}
<1>1. /\ r \in Blocks \ {B("key")} /\ e \in Blocks \ {B("key")} /\ e # r /\ Fields(k, e) = {}
      /\ B("proof") \in Blocks \ {e} /\ B("script") \in Blocks \ {e}
  BY BlockNames, OtherFields
<1>2. q \in PointerMaps /\ OnlyLive(q, {r, e}) /\ \A c \in Blocks \ {e} : q[c] = p[c]
  BY <1>1, PartMade
<1>3. FreesEach(Frees(k, TRUE), M) /\ B("key") \notin M /\ {r, e} \subseteq M
  <2>1. CASE k = "proof"
    BY <2>1, DartFrees, ErrorResultFreed
  <2>2. CASE k = "name"
    BY <2>2, DartFrees, ErrorResultFreed
  <2>3. CASE k \in {"validate", "fee"}
    BY <2>3, DartFrees, ErrorResultFreed
  <2> QED BY <2>1, <2>2, <2>3
<1>4. Reads(k, TRUE) \subseteq {r, e}
  BY DartReads
<1>5. q[r] = "live" /\ q[e] = "live"
  BY <1>1, <1>2 DEF OnlyLive
<1>6. (k = "proof" => q[B("proof")] = "null") /\ (k = "name" => q[B("script")] = "null")
  BY <1>1, <1>2
<1>7. \A b \in M : q[b] \in {"live", "null"}
  BY <1>5, <1>6
<1> HIDE DEF q, r, e, M
<1>8. ReturnInOrder(k, TRUE, q)
  BY <1>2, <1>3, <1>4, <1>7 DEF ReturnInOrder
<1> QED BY <1>2, <1>8 DEF q

LEMMA SpendCatchNext ==
  ASSUME NEW p \in PointerMaps, NEW n, CatchInOrder("spend", n, p)
  PROVE  CatchGoesOn("spend", n, After(p, "spend", Handler("spend")[n]))
<1> DEFINE k == "spend"
           steps == Handler(k)
           q == After(p, k, steps[n])
           r == B("result")
           d == B("data")
<1>1. /\ Len(steps) = 2 /\ steps[1] = CallocOr(r, <<>>) /\ steps[2] = MallocOr(d, <<r>>)
  BY Handlers DEF SpendHandler
<1>2. n \in {1, 2} /\ OnlyLive(p, IF n = 1 THEN {} ELSE {r})
  <2>1. n \in 1 .. 2
    BY <1>1 DEF CatchInOrder
  <2>2. OnlyLive(p, IF n = 1 THEN {} ELSE {r})
    BY DEF CatchInOrder
  <2> QED BY <2>1, <2>2
<1>3. /\ r \in Blocks \ {B("key")} /\ d \in Blocks \ {B("key")} /\ d # r /\ Fields(k, d) = {}
  BY BlockNames, OtherFields
<1> HIDE DEF steps
<1>4. CASE n = 1
  <2>1. steps[n].op = "calloc" /\ steps[n].block = r /\ OnlyLive(p, {})
    BY <1>1, <1>2, <1>4, StepParts
  <2>2. q \in PointerMaps /\ OnlyLive(q, {r})
    BY <2>1, ResultMade
  <2> HIDE DEF q
  <2>3. CatchInOrder(k, n + 1, q) /\ n # Len(steps)
    BY <1>1, <1>4, <2>2 DEF CatchInOrder, steps
  <2> QED BY <2>2, <2>3, Zenon DEF CatchGoesOn, q, steps
<1>5. CASE n = 2
  <2> HIDE DEF r, d
  <2>1. steps[n].op = "malloc" /\ steps[n].block = d /\ OnlyLive(p, {r})
    BY <1>1, <1>2, <1>5, StepParts
  <2>2. d \in Blocks /\ d # B("key")
    BY <1>3
  <2>3. q \in PointerMaps /\ OnlyLive(q, {r, d})
    BY <1>3, <2>1, <2>2, PartMade DEF r
  <2> HIDE DEF q
  <2>4. q[r] = "live" /\ q[d] = "live"
    BY <1>3, <2>3 DEF OnlyLive
  <2>5. FreesEach(Frees(k, TRUE), {d, r}) /\ Reads(k, TRUE) \subseteq {d, r}
    BY SpendFreed, DartFrees, DartReads DEF SpendReads, r, d
  <2>6. ReturnInOrder(k, TRUE, q)
    <3>1. {r, d} = {d, r} /\ B("key") \notin {d, r}
      BY <1>3
    <3> QED BY <2>3, <2>4, <2>5, <3>1 DEF ReturnInOrder
  <2>7. n = Len(steps)
    BY <1>1, <1>5
  <2> QED BY <2>3, <2>6, <2>7, Zenon DEF CatchGoesOn, q, steps
<1> QED BY <1>2, <1>4, <1>5
LEMMA CatchNext ==
  ASSUME NEW k, NEW p \in PointerMaps, NEW n, CatchInOrder(k, n, p)
  PROVE  CatchGoesOn(k, n, After(p, k, Handler(k)[n]))
<1> DEFINE steps == Handler(k)
           q == After(p, k, steps[n])
           r == B("result")
           e == B("error")
<1>1. CASE k = "spend"
  BY <1>1, SpendCatchNext
<1>2. CASE k \in {"validate", "proof"}
  <2>1. Len(steps) = 1 /\ steps[1] = MallocOr(e, <<r>>)
    BY <1>2, Handlers DEF ErrorHandler
  <2>2. n = 1 /\ OnlyLive(p, {r}) /\ (k = "proof" => p[B("proof")] = "null")
    <3>1. n = 1
      BY <2>1 DEF CatchInOrder
    <3>2. OnlyLive(p, {r}) /\ (k = "proof" => p[B("proof")] = "null")
      BY <1>2 DEF CatchInOrder
    <3> QED BY <3>1, <3>2
  <2>3. steps[n].op = "malloc" /\ steps[n].block = e /\ n = Len(steps)
    BY <2>1, <2>2, StepParts
  <2>4. q \in PointerMaps /\ ReturnInOrder(k, TRUE, q)
    BY <1>2, <2>2, <2>3, ErrorMade
  <2> QED BY <2>3, <2>4, Zenon DEF CatchGoesOn
<1>3. CASE k = "fee"
  <2>1. Len(steps) = 2 /\ steps[1] = MallocOr(r, <<>>) /\ steps[2] = MallocOr(e, <<r>>)
    BY <1>3, Handlers DEF FeeHandler
  <2>2. n \in {1, 2} /\ OnlyLive(p, IF n = 1 THEN {} ELSE {r})
    <3>1. n \in 1 .. 2
      BY <2>1 DEF CatchInOrder
    <3>2. OnlyLive(p, IF n = 1 THEN {} ELSE {r})
      BY <1>3 DEF CatchInOrder
    <3> QED BY <3>1, <3>2
  <2>3. CASE n = 1
    <3>1. steps[n].op = "malloc" /\ steps[n].block = r /\ OnlyLive(p, {})
      BY <2>1, <2>2, <2>3, StepParts
    <3>2. q \in PointerMaps /\ OnlyLive(q, {r})
      BY <3>1, ResultMade
    <3> HIDE DEF q
    <3>3. CatchInOrder(k, n + 1, q) /\ n # Len(steps)
      BY <1>3, <2>1, <2>3, <3>2 DEF CatchInOrder
    <3> QED BY <3>2, <3>3, Zenon DEF CatchGoesOn, q
  <2>4. CASE n = 2
    <3>1. steps[n].op = "malloc" /\ steps[n].block = e /\ OnlyLive(p, {r}) /\ n = Len(steps)
      BY <2>1, <2>2, <2>4, StepParts
    <3>2. q \in PointerMaps /\ ReturnInOrder(k, TRUE, q)
      BY <1>3, <3>1, ErrorMade
    <3> QED BY <3>1, <3>2, Zenon DEF CatchGoesOn
  <2> QED BY <2>2, <2>3, <2>4
<1>4. CASE k = "name"
  <2> DEFINE f == B("script")
  <2>1. /\ Len(steps) = 3 /\ steps[1] = MallocOr(r, <<>>) /\ steps[2] = Null(f)
        /\ steps[3] = MallocOr(e, <<r>>)
    BY <1>4, Handlers DEF NameHandler
  <2>2. n \in {1, 2, 3} /\ OnlyLive(p, IF n = 1 THEN {} ELSE {r}) /\ (n = 3 => p[f] = "null")
    <3>1. n \in 1 .. 3
      BY <2>1 DEF CatchInOrder
    <3>2. OnlyLive(p, IF n = 1 THEN {} ELSE {r}) /\ (n = 3 => p[f] = "null")
      BY <1>4 DEF CatchInOrder
    <3> QED BY <3>1, <3>2
  <2>3. CASE n = 1
    <3>1. steps[n].op = "malloc" /\ steps[n].block = r /\ OnlyLive(p, {})
      BY <2>1, <2>2, <2>3, StepParts
    <3>2. q \in PointerMaps /\ OnlyLive(q, {r})
      BY <3>1, ResultMade
    <3> HIDE DEF q
    <3>3. CatchInOrder(k, n + 1, q) /\ n # Len(steps)
      BY <1>4, <2>1, <2>3, <3>2 DEF CatchInOrder
    <3> QED BY <3>2, <3>3, Zenon DEF CatchGoesOn, q
  <2>4. CASE n = 2
    <3>1. steps[n].op = "null" /\ steps[n].block = f /\ OnlyLive(p, {r})
      BY <2>1, <2>2, <2>4, StepParts
    <3>2. f \in Blocks /\ f \notin {r}
      BY BlockNames
    <3>3. q \in PointerMaps /\ OnlyLive(q, {r}) /\ q[f] = "null"
      BY <3>1, <3>2, Nulls
    <3> HIDE DEF q
    <3>4. CatchInOrder(k, n + 1, q) /\ n # Len(steps)
      BY <1>4, <2>1, <2>4, <3>3 DEF CatchInOrder
    <3> QED BY <3>3, <3>4, Zenon DEF CatchGoesOn, q
  <2>5. CASE n = 3
    <3>1. /\ steps[n].op = "malloc" /\ steps[n].block = e /\ OnlyLive(p, {r})
          /\ p[f] = "null" /\ n = Len(steps)
      BY <2>1, <2>2, <2>5, StepParts
    <3>2. q \in PointerMaps /\ ReturnInOrder(k, TRUE, q)
      BY <1>4, <3>1, ErrorMade
    <3> QED BY <3>1, <3>2, Zenon DEF CatchGoesOn
  <2> QED BY <2>2, <2>3, <2>4, <2>5
<1> QED BY <1>1, <1>2, <1>3, <1>4 DEF CatchInOrder

LEMMA CatchFails ==
  ASSUME NEW k, NEW p \in PointerMaps, NEW n, CatchInOrder(k, n, p),
         Handler(k)[n].tested # FALSE
  PROVE  /\ FreedAll(p, Handler(k)[n].frees) \in PointerMaps
         /\ OnlyLive(FreedAll(p, Handler(k)[n].frees), {})
<1> DEFINE steps == Handler(k)
           r == B("result")
<1>1. \/ steps[n].frees = <<>> /\ OnlyLive(p, {})
      \/ steps[n].frees = <<r>> /\ OnlyLive(p, {r})
  <2>1. CASE k \in {"validate", "proof"}
    <3>1. Len(steps) = 1 /\ steps[1].frees = <<r>>
      BY <2>1, Handlers, StepParts DEF ErrorHandler
    <3>2. n = 1
      BY <3>1 DEF CatchInOrder
    <3> QED BY <2>1, <3>1, <3>2 DEF CatchInOrder
  <2>2. CASE k \in {"spend", "fee"}
    <3>1. Len(steps) = 2 /\ steps[1].frees = <<>> /\ steps[2].frees = <<r>>
      BY <2>2, Handlers, StepParts DEF SpendHandler, FeeHandler
    <3>2. n \in {1, 2}
      BY <3>1 DEF CatchInOrder
    <3> QED BY <2>2, <3>1, <3>2 DEF CatchInOrder
  <2>3. CASE k = "name"
    <3>1. /\ Len(steps) = 3 /\ steps[1].frees = <<>> /\ steps[3].frees = <<r>>
          /\ steps[2].tested = FALSE
      BY <2>3, Handlers, StepParts DEF NameHandler
    <3>2. n \in {1, 2, 3}
      BY <3>1 DEF CatchInOrder
    <3>3. n # 2
      BY <3>1
    <3> QED BY <2>3, <3>1, <3>2, <3>3 DEF CatchInOrder
  <2> QED BY <2>1, <2>2, <2>3 DEF CatchInOrder
<1> QED BY <1>1, NothingFreed, ResultFreed
-----------------------------------------------------------------------------
(***************************************************************************)
(* The invariant of the memory, and the properties.                        *)
(***************************************************************************)

\* The pointers p of a call at pc c, in step n of function k.
PointersInOrder(c, k, n, f, p) ==
  /\ p \in PointerMaps
  /\ c \in {"idle", "key"} => n = 1 /\ \A b \in Blocks : p[b] = "absent"
  /\ c = "body" => BodyInOrder(k, n, p)
  /\ c = "catch" => CatchInOrder(k, n, p)
  /\ c = "returned" => ReturnInOrder(k, f, p)
  /\ c \in {"null", "finally"} => OnlyLive(p, {})

MemoryInv ==
  /\ ptr \in [Isolates -> PointerMaps]
  /\ \A i \in Isolates : PointersInOrder(pc[i], kind[i], step[i], failed[i], ptr[i])

FfiInv == ReasonInv /\ MemoryInv

LEMMA MemoryInit == FfiInit => MemoryInv
<1> SUFFICES ASSUME FfiInit PROVE MemoryInv
  OBVIOUS
<1> DEFINE p == [b \in Blocks |-> "absent"]
<1>1. p \in PointerMaps
  BY DEF PointerMaps, PointerStates
<1>2. ptr = [i \in Isolates |-> p] /\ pc = [i \in Isolates |-> "idle"]
      /\ step = [i \in Isolates |-> 1]
  BY DEF FfiInit
<1>3. \A b \in Blocks : p[b] = "absent"
  OBVIOUS
<1> HIDE DEF p
<1>4. ASSUME NEW i \in Isolates
      PROVE  PointersInOrder(pc[i], kind[i], step[i], failed[i], ptr[i])
  BY <1>1, <1>2, <1>3 DEF PointersInOrder
<1>5. ptr \in [Isolates -> PointerMaps]
  BY <1>1, <1>2
<1> QED BY <1>4, <1>5 DEF MemoryInv

\* A step of call i keeps it, if it keeps it for i.
LEMMA MemoryOfCall ==
  ASSUME MemoryInv, NEW i \in Isolates, NEW q, ptr' = [ptr EXCEPT ![i] = q],
         \A j \in Isolates \ {i} : /\ pc'[j] = pc[j] /\ kind'[j] = kind[j]
                                   /\ step'[j] = step[j] /\ failed'[j] = failed[j],
         PointersInOrder(pc'[i], kind'[i], step'[i], failed'[i], q)
  PROVE  MemoryInv'
<1>1. q \in PointerMaps
  BY DEF PointersInOrder
<1>2. ptr' \in [Isolates -> PointerMaps] /\ ptr'[i] = q
      /\ \A j \in Isolates \ {i} : ptr'[j] = ptr[j]
  BY <1>1 DEF MemoryInv
<1>3. ASSUME NEW j \in Isolates
      PROVE  PointersInOrder(pc'[j], kind'[j], step'[j], failed'[j], ptr'[j])
  <2>1. CASE j = i
    BY <1>2, <2>1
  <2>2. CASE j # i
    BY <1>2, <2>2 DEF MemoryInv
  <2> QED BY <2>1, <2>2
<1> QED BY <1>2, <1>3 DEF MemoryInv

\* The same when the pointers stay as they are.
LEMMA MemoryKept ==
  ASSUME MemoryInv, NEW i \in Isolates, UNCHANGED ptr,
         \A j \in Isolates \ {i} : /\ pc'[j] = pc[j] /\ kind'[j] = kind[j]
                                   /\ step'[j] = step[j] /\ failed'[j] = failed[j],
         PointersInOrder(pc'[i], kind'[i], step'[i], failed'[i], ptr[i])
  PROVE  MemoryInv'
<1>1. ptr' = [ptr EXCEPT ![i] = ptr[i]]
  BY DEF MemoryInv
<1> QED BY <1>1, MemoryOfCall

LEMMA BodyStarts ==
  ASSUME NEW k \in Kinds, NEW p \in PointerMaps,
         \A b \in Blocks \ {B("key")} : p[b] = "absent"
  PROVE  BodyInOrder(k, 1, p)
<1>1. OnlyLive(p, {})
  BY DEF OnlyLive
<1>2. MadeBefore(k, 1) = {}
  <2>1. 1 .. 1 - 1 = {}
    OBVIOUS
  <2> QED BY <2>1 DEF MadeBefore
<1>3. 1 \in 1 .. Len(Body(k))
  <2>1. CASE k \in StraightKinds
    <3>1. PICK U, F : IsStraight(k, U, F)
      BY <2>1, AllStraight
    <3> QED BY <3>1 DEF IsStraight, Straight
  <2>2. CASE k \in {"validate", "proof", "fee", "name"}
    <3>1. Len(Body(k)) \in {2, 3, 4, 5}
      BY <2>2, Bodies DEF ValidateBody, ProofBody, FeeBody, NameBody
    <3> QED BY <3>1
  <2> QED BY <2>1, <2>2 DEF Kinds, StraightKinds
<1>4. \A b \in Blocks \ {B("key")} : p[b] \in {"absent", "null", "live"}
  OBVIOUS
<1>5. 1 < 3 /\ ~(1 > 1) /\ ~(1 > 2) /\ ~(1 > 3)
  OBVIOUS
<1> QED BY <1>1, <1>2, <1>3, <1>4, <1>5, Zenon DEF BodyInOrder

LEMMA BeginMemory ==
  ASSUME FfiInv, NEW i \in Isolates, NEW t \in Threads, NEW k \in Kinds,
         NEW withKey \in BOOLEAN, Begin(i, t, k, withKey)
  PROVE  MemoryInv'
<1>1. /\ pc[i] = "idle" /\ kind' = [kind EXCEPT ![i] = k]
      /\ pc' = [pc EXCEPT ![i] = IF withKey THEN "key" ELSE "body"]
      /\ UNCHANGED <<step, ptr, failed>>
  BY DEF Begin
<1>2. /\ pc'[i] = (IF withKey THEN "key" ELSE "body") /\ kind'[i] = k
      /\ \A j \in Isolates \ {i} : pc'[j] = pc[j] /\ kind'[j] = kind[j]
  BY <1>1 DEF FfiInv, ReasonInv, CallTypes
<1>3. ptr[i] \in PointerMaps /\ step[i] = 1 /\ \A b \in Blocks : ptr[i][b] = "absent"
  BY <1>1 DEF FfiInv, MemoryInv, PointersInOrder
<1>4. BodyInOrder(k, 1, ptr[i])
  BY <1>3, BodyStarts
<1>5. PointersInOrder(pc'[i], kind'[i], step'[i], failed'[i], ptr[i])
  <2>1. CASE withKey
    BY <1>1, <1>2, <1>3, <2>1 DEF PointersInOrder
  <2>2. CASE ~withKey
    BY <1>1, <1>2, <1>3, <1>4, <2>2 DEF PointersInOrder
  <2> QED BY <2>1, <2>2
<1> QED BY <1>1, <1>2, <1>5, MemoryKept DEF FfiInv

LEMMA OpenKeyMemory ==
  ASSUME FfiInv, NEW i \in Isolates, OpenKey(i)
  PROVE  MemoryInv'
<1>1. pc[i] = "key" /\ UNCHANGED <<kind, step, failed>>
  BY DEF OpenKey
<1>2. ptr[i] \in PointerMaps /\ step[i] = 1 /\ \A b \in Blocks : ptr[i][b] = "absent"
  BY <1>1 DEF FfiInv, MemoryInv, PointersInOrder
<1>3. kind[i] \in Kinds
  BY <1>1, OwnReason DEF FfiInv
<1>4. CASE /\ ptr' = [ptr EXCEPT ![i][B("key")] = "live"]
           /\ pc' = [pc EXCEPT ![i] = "body"]
  <2> DEFINE q == [ptr[i] EXCEPT ![B("key")] = "live"]
  <2>1. ptr' = [ptr EXCEPT ![i] = q]
    BY <1>4
  <2>2. q \in PointerMaps /\ \A b \in Blocks \ {B("key")} : q[b] = "absent"
    BY <1>2 DEF PointerMaps, PointerStates
  <2> HIDE DEF q
  <2>3. BodyInOrder(kind[i], 1, q)
    BY <1>3, <2>2, BodyStarts
  <2>4. pc'[i] = "body" /\ \A j \in Isolates \ {i} : pc'[j] = pc[j]
    BY <1>4 DEF FfiInv, ReasonInv, CallTypes
  <2>5. PointersInOrder(pc'[i], kind'[i], step'[i], failed'[i], q)
    BY <1>1, <1>2, <2>2, <2>3, <2>4 DEF PointersInOrder
  <2> QED BY <1>1, <2>1, <2>4, <2>5, MemoryOfCall DEF FfiInv
<1>5. CASE Record(i) /\ UNCHANGED ptr
  <2>1. pc'[i] = "null" /\ \A j \in Isolates \ {i} : pc'[j] = pc[j]
    BY <1>5 DEF Record, FfiInv, ReasonInv, CallTypes
  <2>2. OnlyLive(ptr[i], {})
    BY <1>2 DEF OnlyLive
  <2>3. PointersInOrder(pc'[i], kind'[i], step'[i], failed'[i], ptr[i])
    BY <1>2, <2>1, <2>2 DEF PointersInOrder
  <2> QED BY <1>1, <1>5, <2>1, <2>3, MemoryKept DEF FfiInv
<1> QED BY <1>4, <1>5 DEF OpenKey

\* A step of the function fails for good.
LEMMA FailureMemory ==
  ASSUME FfiInv, NEW i \in Isolates, Record(i), UNCHANGED <<kind, step, failed>>,
         NEW q \in PointerMaps, ptr' = [ptr EXCEPT ![i] = q], OnlyLive(q, {})
  PROVE  MemoryInv'
<1>1. pc'[i] = "null" /\ \A j \in Isolates \ {i} : pc'[j] = pc[j]
  BY DEF Record, FfiInv, ReasonInv, CallTypes
<1>2. PointersInOrder(pc'[i], kind'[i], step'[i], failed'[i], q)
  BY <1>1 DEF PointersInOrder
<1> QED BY <1>1, <1>2, MemoryOfCall DEF FfiInv
LEMMA TestedOrNot ==
  ASSUME NEW k \in Kinds, NEW n \in 1 .. Len(Body(k)), ~Body(k)[n].tested
  PROVE  Body(k)[n].tested = FALSE
<1>1. CASE k \in StraightKinds
  <2>1. PICK U, F : IsStraight(k, U, F)
    BY <1>1, AllStraight
  <2> QED BY <2>1 DEF IsStraight, Straight
<1>2. CASE k \in {"validate", "proof", "fee", "name"}
  <2>1. Body(k)[n].tested \in BOOLEAN
    <3>1. CASE k = "validate"
      <4>1. /\ Len(Body(k)) = 2
            /\ Body(k)[1].tested = TRUE /\ Body(k)[2].tested = FALSE
        BY <3>1, Bodies, StepParts DEF ValidateBody
      <4>2. n \in {1, 2}
        BY <4>1
      <4> QED BY <4>1, <4>2, Zenon
    <3>2. CASE k = "proof"
      <4>1. /\ Len(Body(k)) = 5
            /\ Body(k)[1].tested = TRUE /\ Body(k)[2].tested = FALSE
            /\ Body(k)[3].tested = FALSE /\ Body(k)[4].tested = FALSE
            /\ Body(k)[5].tested = TRUE
        BY <3>2, Bodies, StepParts DEF ProofBody
      <4>2. n \in {1, 2, 3, 4, 5}
        BY <4>1
      <4> QED BY <4>1, <4>2, Zenon
    <3>3. CASE k = "fee"
      <4>1. /\ Len(Body(k)) = 3
            /\ Body(k)[1].tested = FALSE /\ Body(k)[2].tested = FALSE
            /\ Body(k)[3].tested = FALSE
        BY <3>3, Bodies, StepParts DEF FeeBody
      <4>2. n \in {1, 2, 3}
        BY <4>1
      <4> QED BY <4>1, <4>2, Zenon
    <3>4. CASE k = "name"
      <4>1. /\ Len(Body(k)) = 4
            /\ Body(k)[1].tested = FALSE /\ Body(k)[2].tested = TRUE
            /\ Body(k)[3].tested = FALSE /\ Body(k)[4].tested = TRUE
        BY <3>4, Bodies, StepParts DEF NameBody
      <4>2. n \in {1, 2, 3, 4}
        BY <4>1
      <4> QED BY <4>1, <4>2, Zenon
    <3> QED BY <1>2, <3>1, <3>2, <3>3, <3>4
  <2> QED BY <2>1, Zenon
<1> QED BY <1>1, <1>2 DEF Kinds, StraightKinds

LEMMA SucceedMemory ==
  ASSUME FfiInv, NEW i \in Isolates, NEW c \in {"body", "catch"}, pc[i] = c, NEW steps,
         Succeed(i, steps), NEW q, q = After(ptr[i], kind[i], steps[step[i]]),
         q \in PointerMaps,
         step[i] = Len(steps) => ReturnInOrder(kind[i], c = "catch", q),
         step[i] # Len(steps) => PointersInOrder(c, kind[i], step[i] + 1, failed[i], q)
  PROVE  MemoryInv'
<1>1. ptr' = [ptr EXCEPT ![i] = q] /\ UNCHANGED kind
  <2> DEFINE s == steps[step[i]]
  <2>1. /\ ptr' = [ptr EXCEPT ![i] = CASE s.op = "work" -> ptr[i]
                                     [] s.op = "null" -> [ptr[i] EXCEPT ![s.block] = "null"]
                                     [] OTHER -> Allocated(ptr[i], kind[i], s)]
        /\ UNCHANGED kind
    BY Zenon DEF Succeed
  <2> QED BY <2>1, Zenon DEF After
<1>2. CASE step[i] = Len(steps)
  <2>1. /\ pc' = [pc EXCEPT ![i] = "returned"] /\ UNCHANGED step
        /\ failed' = [failed EXCEPT ![i] = pc[i] = "catch"]
    BY <1>2, Zenon DEF Succeed
  <2>2. pc'[i] = "returned" /\ \A j \in Isolates \ {i} : pc'[j] = pc[j]
    BY <2>1 DEF FfiInv, ReasonInv, CallTypes
  <2>3. failed'[i] = (c = "catch") /\ \A j \in Isolates \ {i} : failed'[j] = failed[j]
    BY <2>1, Zenon DEF FfiInv, ReasonInv, CallTypes
  <2>4. PointersInOrder(pc'[i], kind'[i], step'[i], failed'[i], q)
    <3>1. ReturnInOrder(kind'[i], failed'[i], q)
      BY <1>1, <1>2, <2>3, Zenon
    <3> QED BY <2>2, <3>1 DEF PointersInOrder
  <2> QED BY <1>1, <2>1, <2>2, <2>3, <2>4, MemoryOfCall DEF FfiInv
<1>3. CASE step[i] # Len(steps)
  <2>1. step' = [step EXCEPT ![i] = @ + 1] /\ UNCHANGED <<pc, failed>>
    BY <1>3, Zenon DEF Succeed
  <2>2. step'[i] = step[i] + 1 /\ \A j \in Isolates \ {i} : step'[j] = step[j]
    BY <2>1 DEF FfiInv, ReasonInv, CallTypes
  <2>3. PointersInOrder(pc'[i], kind'[i], step'[i], failed'[i], q)
    BY <1>1, <1>3, <2>1, <2>2
  <2> QED BY <1>1, <2>1, <2>2, <2>3, MemoryOfCall DEF FfiInv
<1> QED BY <1>2, <1>3

LEMMA BodyMemory ==
  ASSUME FfiInv, NEW i \in Isolates, RunBody(i)
  PROVE  MemoryInv'
<1> DEFINE k == kind[i]
           n == step[i]
           p == ptr[i]
           s == Body(k)[n]
<1>1. pc[i] = "body"
  BY DEF RunBody
<1>2. k \in Kinds
  BY <1>1, OwnReason DEF FfiInv
<1>3. p \in PointerMaps /\ BodyInOrder(k, n, p)
  BY <1>1 DEF FfiInv, MemoryInv, PointersInOrder
<1>4. CASE Succeed(i, Body(k))
  <2> DEFINE q == After(p, k, s)
  <2>1. BodyGoesOn(k, n, q)
    BY <1>2, <1>3, BodyNext
  <2>2. /\ q \in PointerMaps
        /\ n = Len(Body(k)) => ReturnInOrder(k, FALSE, q)
        /\ n # Len(Body(k)) => PointersInOrder("body", k, n + 1, failed[i], q)
    BY <2>1 DEF BodyGoesOn, PointersInOrder
  <2>3. ("body" = "catch") = FALSE
    OBVIOUS
  <2>4. n = Len(Body(k)) => ReturnInOrder(k, "body" = "catch", q)
    BY <2>2, <2>3, Zenon
  <2> HIDE DEF q
  <2>5. q = After(p, k, Body(k)[n])
    BY DEF q
  <2> QED BY <1>1, <1>4, <2>2, <2>4, <2>5, SucceedMemory
<1>5. CASE s.op # "null" /\ ~s.tested /\ Throws(i)
  <2> DEFINE q == FreedAll(p, Unwind(k))
  <2>1. s.tested = FALSE
    BY <1>2, <1>3, <1>5, TestedOrNot DEF BodyInOrder
  <2>2. /\ q \in PointerMaps /\ (Handler(k) = <<>> => OnlyLive(q, {}))
        /\ (Handler(k) # <<>> => CatchInOrder(k, 1, q))
    BY <1>2, <1>3, <1>5, <2>1, BodyThrows
  <2>3. ptr' = [ptr EXCEPT ![i] = q] /\ UNCHANGED <<kind, failed>>
    BY <1>5, Zenon DEF Throws
  <2> HIDE DEF q
  <2>4. CASE Handler(k) = <<>>
    <3>1. Record(i) /\ UNCHANGED step
      BY <1>5, <2>4, Zenon DEF Throws
    <3> QED BY <2>2, <2>3, <2>4, <3>1, FailureMemory
  <2>5. CASE Handler(k) # <<>>
    <3>1. pc' = [pc EXCEPT ![i] = "catch"] /\ step' = [step EXCEPT ![i] = 1]
      BY <1>5, <2>5, Zenon DEF Throws
    <3>2. /\ pc'[i] = "catch" /\ step'[i] = 1
          /\ \A j \in Isolates \ {i} : pc'[j] = pc[j] /\ step'[j] = step[j]
      BY <3>1 DEF FfiInv, ReasonInv, CallTypes
    <3>3. PointersInOrder(pc'[i], kind'[i], step'[i], failed'[i], q)
      BY <2>2, <2>3, <2>5, <3>2 DEF PointersInOrder
    <3> QED BY <2>3, <3>2, <3>3, MemoryOfCall DEF FfiInv
  <2> QED BY <2>4, <2>5
<1>6. CASE s.tested /\ FailsInPlace(i, s.frees)
  <2> DEFINE q == FreedAll(p, s.frees)
  <2>1. s.tested # FALSE
    BY <1>6, Zenon
  <2>2. q \in PointerMaps /\ OnlyLive(q, {})
    BY <1>2, <1>3, <2>1, BodyFails
  <2>3. ptr' = [ptr EXCEPT ![i] = q] /\ UNCHANGED <<kind, step, failed>> /\ Record(i)
    BY <1>6, Zenon DEF FailsInPlace
  <2> HIDE DEF q
  <2> QED BY <2>2, <2>3, FailureMemory
<1> QED BY <1>4, <1>5, <1>6, Zenon DEF RunBody

LEMMA CatchMemory ==
  ASSUME FfiInv, NEW i \in Isolates, RunCatch(i)
  PROVE  MemoryInv'
<1> DEFINE k == kind[i]
           n == step[i]
           p == ptr[i]
           s == Handler(k)[n]
<1>1. pc[i] = "catch"
  BY DEF RunCatch
<1>2. p \in PointerMaps /\ CatchInOrder(k, n, p)
  BY <1>1 DEF FfiInv, MemoryInv, PointersInOrder
<1>3. CASE Succeed(i, Handler(k))
  <2> DEFINE q == After(p, k, s)
  <2>1. CatchGoesOn(k, n, q)
    BY <1>2, CatchNext
  <2>2. /\ q \in PointerMaps
        /\ n = Len(Handler(k)) => ReturnInOrder(k, TRUE, q)
        /\ n # Len(Handler(k)) => PointersInOrder("catch", k, n + 1, failed[i], q)
    BY <2>1 DEF CatchGoesOn, PointersInOrder
  <2>3. ("catch" = "catch") = TRUE
    OBVIOUS
  <2>4. n = Len(Handler(k)) => ReturnInOrder(k, "catch" = "catch", q)
    BY <2>2, <2>3, Zenon
  <2> HIDE DEF q
  <2>5. q = After(p, k, Handler(k)[n])
    BY DEF q
  <2> QED BY <1>1, <1>3, <2>2, <2>4, <2>5, SucceedMemory
<1>4. CASE s.tested /\ FailsInPlace(i, s.frees)
  <2> DEFINE q == FreedAll(p, s.frees)
  <2>1. s.tested # FALSE
    BY <1>4, Zenon
  <2>2. q \in PointerMaps /\ OnlyLive(q, {})
    BY <1>2, <2>1, CatchFails
  <2>3. ptr' = [ptr EXCEPT ![i] = q] /\ UNCHANGED <<kind, step, failed>> /\ Record(i)
    BY <1>4, Zenon DEF FailsInPlace
  <2> HIDE DEF q
  <2> QED BY <2>2, <2>3, FailureMemory
<1> QED BY <1>3, <1>4, Zenon DEF RunCatch
LEMMA NotOursMemory ==
  ASSUME FfiInv, NEW i \in Isolates, NotOurs(i)
  PROVE  MemoryInv'
<1>1. /\ pc[i] = "body" /\ kind[i] = "recover" /\ step[i] = 1
      /\ pc' = [pc EXCEPT ![i] = "null"] /\ UNCHANGED <<kind, step, ptr, failed>>
  BY DEF NotOurs
<1>2. pc'[i] = "null" /\ \A j \in Isolates \ {i} : pc'[j] = pc[j]
  BY <1>1 DEF FfiInv, ReasonInv, CallTypes
<1>3. ptr[i] \in PointerMaps /\ BodyInOrder("recover", 1, ptr[i])
  BY <1>1 DEF FfiInv, MemoryInv, PointersInOrder
<1>4. OnlyLive(ptr[i], {})
  <2>1. OnlyLive(ptr[i], MadeBefore("recover", 1))
    BY <1>3 DEF BodyInOrder, StraightKinds
  <2>2. 1 .. 1 - 1 = {}
    OBVIOUS
  <2>3. MadeBefore("recover", 1) = {}
    BY <2>2 DEF MadeBefore
  <2> QED BY <2>1, <2>3
<1>5. PointersInOrder(pc'[i], kind'[i], step'[i], failed'[i], ptr[i])
  BY <1>2, <1>3, <1>4 DEF PointersInOrder
<1> QED BY <1>1, <1>2, <1>5, MemoryKept DEF FfiInv

LEMMA TakeMemory ==
  ASSUME FfiInv, NEW i \in Isolates, TakeLastError(i)
  PROVE  MemoryInv'
<1>1. /\ pc[i] = "null" /\ pc' = [pc EXCEPT ![i] = "finally"]
      /\ UNCHANGED <<kind, step, ptr, failed>>
  BY DEF TakeLastError
<1>2. pc'[i] = "finally" /\ \A j \in Isolates \ {i} : pc'[j] = pc[j]
  BY <1>1 DEF FfiInv, ReasonInv, CallTypes
<1>3. ptr[i] \in PointerMaps /\ OnlyLive(ptr[i], {})
  BY <1>1 DEF FfiInv, MemoryInv, PointersInOrder
<1>4. PointersInOrder(pc'[i], kind'[i], step'[i], failed'[i], ptr[i])
  BY <1>2, <1>3 DEF PointersInOrder
<1> QED BY <1>1, <1>2, <1>4, MemoryKept DEF FfiInv

LEMMA ConsumeMemory ==
  ASSUME FfiInv, NEW i \in Isolates, Consume(i)
  PROVE  MemoryInv'
<1> DEFINE read == [b \in Blocks |->
                      IF b \in Reads(kind[i], failed[i]) /\ ptr[i][b] # "live"
                      THEN "corrupt" ELSE ptr[i][b]]
           q == FoldLeft(Freed, read, Frees(kind[i], failed[i]))
<1>1. /\ pc[i] = "returned" /\ pc' = [pc EXCEPT ![i] = "finally"]
      /\ UNCHANGED <<kind, step, failed>>
  BY DEF Consume
<1>2. ptr' = [ptr EXCEPT ![i] = q]
  BY Zenon DEF Consume
<1>3. ptr[i] \in PointerMaps /\ ReturnInOrder(kind[i], failed[i], ptr[i])
  BY <1>1 DEF FfiInv, MemoryInv, PointersInOrder
<1>4. q \in PointerMaps /\ OnlyLive(q, {})
  BY <1>3, ResultConsumed, Zenon
<1> HIDE DEF q
<1>5. pc'[i] = "finally" /\ \A j \in Isolates \ {i} : pc'[j] = pc[j]
  BY <1>1 DEF FfiInv, ReasonInv, CallTypes
<1>6. PointersInOrder(pc'[i], kind'[i], step'[i], failed'[i], q)
  BY <1>4, <1>5 DEF PointersInOrder
<1> QED BY <1>1, <1>2, <1>5, <1>6, MemoryOfCall DEF FfiInv

LEMMA FinishMemory ==
  ASSUME FfiInv, NEW i \in Isolates, Finish(i)
  PROVE  MemoryInv'
<1> DEFINE q == [b \in Blocks |-> IF ptr[i][b] = "live" /\ b # B("key") THEN "live" ELSE "absent"]
<1>1. /\ pc[i] = "finally" /\ pc' = [pc EXCEPT ![i] = "idle"]
      /\ kind' = [kind EXCEPT ![i] = None] /\ step' = [step EXCEPT ![i] = 1]
      /\ failed' = [failed EXCEPT ![i] = FALSE]
  BY DEF Finish
<1>2. ptr' = [ptr EXCEPT ![i] = q]
  BY Zenon DEF Finish
<1>3. ptr[i] \in PointerMaps /\ OnlyLive(ptr[i], {})
  BY <1>1 DEF FfiInv, MemoryInv, PointersInOrder
<1>4. \A b \in Blocks : q[b] = "absent"
  BY <1>3 DEF OnlyLive
<1>5. q \in PointerMaps
  BY DEF PointerMaps, PointerStates
<1> HIDE DEF q
<1>6. /\ pc'[i] = "idle" /\ step'[i] = 1
      /\ \A j \in Isolates \ {i} : /\ pc'[j] = pc[j] /\ kind'[j] = kind[j]
                                   /\ step'[j] = step[j] /\ failed'[j] = failed[j]
  BY <1>1 DEF FfiInv, ReasonInv, CallTypes
<1>7. PointersInOrder(pc'[i], kind'[i], step'[i], failed'[i], q)
  BY <1>4, <1>5, <1>6 DEF PointersInOrder
<1> QED BY <1>2, <1>6, <1>7, MemoryOfCall DEF FfiInv

\* The inductive invariant of the boundary: who may have left a reason on
\* which thread, and what every call's pointers hold at each of its steps.
THEOREM FfiInvariant == FfiSpec => []FfiInv
<1>1. FfiInit => FfiInv
  BY ReasonInit, MemoryInit DEF FfiInv
<1>2. FfiInv /\ [FfiNext]_ffiVars => FfiInv'
  <2> SUFFICES ASSUME FfiInv, [FfiNext]_ffiVars PROVE FfiInv'
    OBVIOUS
  <2>1. ReasonInv'
    BY ReasonStep DEF FfiInv
  <2>2. CASE UNCHANGED ffiVars
    <3>1. UNCHANGED <<pc, kind, step, failed, ptr>>
      BY <2>2 DEF ffiVars
    <3>2. MemoryInv'
      BY <3>1 DEF FfiInv, MemoryInv
    <3> QED BY <2>1, <3>2 DEF FfiInv
  <2>3. CASE FfiNext
    <3>1. MemoryInv'
      BY <2>3, BeginMemory, OpenKeyMemory, BodyMemory, CatchMemory, NotOursMemory,
         TakeMemory, ConsumeMemory, FinishMemory, Zenon DEF FfiNext
    <3> QED BY <2>1, <3>1 DEF FfiInv
  <2> QED BY <2>2, <2>3
<1> QED BY <1>1, <1>2, PTL DEF FfiSpec

\* Types, and no pointer is ever "corrupt": whichever allocation failed or
\* work threw, neither the native functions nor the Dart wrappers free or
\* read a pointer that is indeterminate, freed or inside a struct that does
\* not exist.
THEOREM PointersAreSound == FfiSpec => []FfiTypeOK
<1>1. FfiInv => FfiTypeOK
  BY DEF FfiInv, ReasonInv, CallTypes, PCs, MemoryInv, PointerMaps, FfiTypeOK
<1> QED BY <1>1, FfiInvariant, PTL

\* A LibSpark call that has ended has returned all its native memory, for
\* results of every length and whichever of its steps failed.
THEOREM CallsLeakNothing == FfiSpec => []NothingLeaks
<1>1. FfiInv => NothingLeaks
  BY DEF FfiInv, MemoryInv, PointersInOrder, NothingLeaks
<1> QED BY <1>1, FfiInvariant, PTL

\* The reason a call throws or logs is one that its own native function
\* recorded in lastError, on any number of isolates and threads.
THEOREM ReasonsAreOwn == FfiSpec => []ReasonIsOwn
<1>1. FfiInv => ReasonIsOwn
  BY DEF FfiInv, ReasonInv, OutcomeInOrder, ReasonIsOwn
<1> QED BY <1>1, FfiInvariant, PTL

\* lastError of a thread holds a reason only while the call that recorded it
\* is on the thread and about to take it.
THEOREM NoReasonStays == FfiSpec => []NoReasonLeftBehind
<1>1. FfiInv => NoReasonLeftBehind
  BY DEF FfiInv, ReasonInv, ReasonInOrder, NoReasonLeftBehind
<1> QED BY <1>1, FfiInvariant, PTL
=============================================================================
