---------------------------- MODULE FfiBoundary ----------------------------
(***************************************************************************)
(* The FFI boundary: LibSpark's Dart calls, the native functions of        *)
(* flutter_libsparkmobile.cpp they make, the native memory both sides      *)
(* allocate and free, and the thread_local reason of the last failure.     *)
(*                                                                         *)
(* A native function is a list of steps: allocations, each of which may    *)
(* fail, assignments of nullptr, and work that may throw.  What it frees   *)
(* on a failure, what it returns then, and what the Dart side frees        *)
(* afterwards are tables taken from the code.  An isolate's call is        *)
(* synchronous: it keeps its thread until it ends.                         *)
(***************************************************************************)
EXTENDS Naturals, Sequences, SequencesExt

CONSTANTS
  Isolates,   (* Dart isolates                                             *)
  Threads,    (* OS threads the Dart VM runs them on                       *)
  Items       (* elements of each list a native call returns               *)

ASSUME ItemsAssumption == Items \in Nat

None == "none"

ASSUME NoneAssumption == None \notin Isolates /\ None \notin Threads

\* A block of native memory: the name of the pointer that owns it, and the
\* element it belongs to (0: not an element of a list).
B(name) == <<name, 0>>
Each(names) == [n \in 1 .. Len(names) * Items |->
                  <<names[((n - 1) % Len(names)) + 1],
                    ((n - 1) \div Len(names)) + 1>>]
Elements(names) == {<<name, k>> : name \in names, k \in 1 .. Items}

Blocks ==
  {B(name) : name \in {"result", "error", "address", "memo", "lTagHash",
                       "encryptedDiversifier", "nonceHex", "serial", "list",
                       "usedCoins", "outputScripts", "data", "context",
                       "proof", "script", "key"}}
  \cup Elements({"pubKey", "coin", "coinData", "coinContext", "contextData",
                 "bytes"})

\* What a pointer holds: nothing yet (the struct it is in does not exist),
\* an indeterminate value, nullptr, a live block, a freed one.  A free or a
\* read of a pointer that is not fit for it makes it "corrupt".
PointerStates == {"absent", "unset", "null", "live", "freed"}

-----------------------------------------------------------------------------
(***************************************************************************)
(* The native functions.                                                   *)
(***************************************************************************)

Kinds == {"buffer", "tags", "recover", "mint", "spend", "context",
          "validate", "proof", "fee", "name"}

Step(op, b, tested, frees) ==
  [op |-> op, block |-> b, tested |-> tested, frees |-> frees]

Work == Step("work", B(None), FALSE, <<>>)
Null(b) == Step("null", b, FALSE, <<>>)

\* Allocations whose failure throws std::bad_alloc ...
Calloc(b) == Step("calloc", b, FALSE, <<>>)
Malloc(b) == Step("malloc", b, FALSE, <<>>)
\* ... and those tested in place, which free some blocks and then fail(...).
CallocOr(b, frees) == Step("calloc", b, TRUE, frees)
MallocOr(b, frees) == Step("malloc", b, TRUE, frees)

\* The pointers inside a block.
Fields(kind, b) ==
  CASE b = B("result") ->
         (CASE kind = "recover" -> {B("address"), B("memo"), B("lTagHash"),
                                    B("encryptedDiversifier"), B("nonceHex"),
                                    B("serial")}
            [] kind = "mint"    -> {B("list")}
            [] kind = "spend"   -> {B("usedCoins"), B("outputScripts"), B("data")}
            [] kind = "context" -> {B("context")}
            [] kind \in {"validate", "fee"} -> {B("error")}
            [] kind = "proof"   -> {B("proof"), B("error")}
            [] kind = "name"    -> {B("script"), B("error")}
            [] OTHER            -> {})
    [] b = B("list")          -> Elements({"pubKey"})
    [] b = B("usedCoins")     -> Elements({"coin", "coinContext"})
    [] b = B("outputScripts") -> Elements({"bytes"})
    [] b[1] = "coin"          -> {<<"coinData", b[2]>>}
    [] b[1] = "coinContext"   -> {<<"contextData", b[2]>>}
    [] OTHER                  -> {}

\* The try block of each function.  getAddress, getAddressFromFullViewKey,
\* serializeFullViewKey and hashTag make one buffer of the result;
BufferBody == <<Work, Malloc(B("result"))>>
HashTagsBody == <<Calloc(B("result")), Work>>
RecoverBody ==
  <<Work, Calloc(B("result")), Malloc(B("address")), Malloc(B("memo")),
    Malloc(B("lTagHash")), Malloc(B("encryptedDiversifier")),
    Malloc(B("nonceHex")), Malloc(B("serial"))>>
MintBody ==
  <<Work, Calloc(B("result")), Calloc(B("list"))>>
    \o [n \in 1 .. Items |-> Malloc(<<"pubKey", n>>)]
SpendBody ==
  LET used == Each(<<"coin", "coinData", "coinContext", "contextData">>)
  IN  <<Work, Calloc(B("result")), Calloc(B("usedCoins"))>>
        \o [n \in 1 .. Len(used) |->
              IF used[n][1] \in {"coin", "coinContext"}
              THEN Calloc(used[n]) ELSE Malloc(used[n])]
        \o <<Calloc(B("outputScripts"))>>
        \o [n \in 1 .. Items |-> Malloc(<<"bytes", n>>)]
        \o <<Malloc(B("data"))>>
ContextBody == <<Work, Calloc(B("result")), Malloc(B("context"))>>
ValidateBody == <<CallocOr(B("result"), <<>>), Work>>
\* ... cGetSparkNameCommitment is laid out like the ownership proof.
ProofBody ==
  <<MallocOr(B("result"), <<>>), Null(B("proof")), Null(B("error")), Work,
    MallocOr(B("proof"), <<B("result")>>)>>
FeeBody == <<Work, Calloc(B("result")), Null(B("error"))>>
NameBody ==
  <<Work, MallocOr(B("result"), <<>>), Null(B("error")),
    MallocOr(B("script"), <<B("result")>>)>>

Body(kind) ==
  CASE kind = "buffer"   -> BufferBody
    [] kind = "tags"     -> HashTagsBody
    [] kind = "recover"  -> RecoverBody
    [] kind = "mint"     -> MintBody
    [] kind = "spend"    -> SpendBody
    [] kind = "context"  -> ContextBody
    [] kind = "validate" -> ValidateBody
    [] kind = "proof"    -> ProofBody
    [] kind = "fee"      -> FeeBody
    [] kind = "name"     -> NameBody

\* Mutant of FreeRecipients: the scripts are forgotten.
FreeListOnly == <<B("list"), B("result")>>

\* The native cleanup functions.
FreeCoinData ==
  <<B("address"), B("memo"), B("lTagHash"), B("encryptedDiversifier"),
    B("nonceHex"), B("serial"), B("result")>>
FreeRecipients == Each(<<"pubKey">>) \o <<B("list"), B("result")>>
FreeSpendResult ==
  Each(<<"coinData", "contextData", "coin", "coinContext">>) \o Each(<<"bytes">>)
    \o <<B("usedCoins"), B("outputScripts"), B("data"), B("result")>>

\* What unique_ptr frees when the body throws.
Unwind(kind) ==
  CASE kind = "recover" -> FreeCoinData
    [] kind = "mint"    -> FreeRecipients
    [] kind = "spend"   -> FreeSpendResult
    [] kind \in {"tags", "context"} -> <<B("result")>>
    [] OTHER            -> <<>>

\* The functions that hand an exception's text back in their result build it
\* in the catch block.
SpendHandler == <<CallocOr(B("result"), <<>>), MallocOr(B("data"), <<B("result")>>)>>
ErrorHandler == <<MallocOr(B("error"), <<B("result")>>)>>
FeeHandler == <<MallocOr(B("result"), <<>>), MallocOr(B("error"), <<B("result")>>)>>

\* Mutant of NameHandler: result->script is left unset.
NameHandlerUnset == FeeHandler

NameHandler ==
  <<MallocOr(B("result"), <<>>), Null(B("script")),
    MallocOr(B("error"), <<B("result")>>)>>

\* The others have none and record the reason.
Handler(kind) ==
  CASE kind = "spend" -> SpendHandler
    [] kind \in {"validate", "proof"} -> ErrorHandler
    [] kind = "fee"   -> FeeHandler
    [] kind = "name"  -> NameHandler
    [] OTHER          -> <<>>

-----------------------------------------------------------------------------
(***************************************************************************)
(* The Dart side of each call.                                             *)
(***************************************************************************)

\* createSparkSendTransaction and _freeSpendResult.
SpendReads(failed) ==
  {B("result"), B("data")} \cup
  IF failed THEN {}
  ELSE {B("usedCoins"), B("outputScripts")}
         \cup Elements({"coin", "coinData", "coinContext", "contextData", "bytes"})
SpendFrees(failed) ==
  (IF failed THEN <<>>
   ELSE Each(<<"bytes">>) \o <<B("outputScripts")>>
          \o Each(<<"coinData", "coin", "contextData", "coinContext">>)
          \o <<B("usedCoins")>>)
  \o <<B("data"), B("result")>>

\* _recoverCoin.
RecoverReads == {B("result")} \cup Fields("recover", B("result"))
RecoverFrees ==
  <<B("address"), B("memo"), B("lTagHash"), B("encryptedDiversifier"),
    B("serial"), B("nonceHex"), B("result")>>

\* createSparkMintRecipients.
MintReads == {B("result"), B("list")} \cup Elements({"pubKey"})
MintFrees == Each(<<"pubKey">>) \o <<B("list"), B("result")>>

\* What the wrapper reads of a result before it frees it.
Reads(kind, failed) ==
  CASE kind = "spend"   -> SpendReads(failed)
    [] kind = "recover" -> RecoverReads
    [] kind = "mint"    -> MintReads
    [] kind = "context" -> {B("result"), B("context")}
    [] kind \in {"validate", "fee", "name", "proof"} /\ failed ->
         {B("result"), B("error")}
    [] kind = "name" /\ ~failed  -> {B("result"), B("script")}
    [] kind = "proof" /\ ~failed -> {B("result"), B("proof")}
    [] OTHER            -> {B("result")}

\* What its finally block frees, in order.
Frees(kind, failed) ==
  CASE kind = "spend"   -> SpendFrees(failed)
    [] kind = "recover" -> RecoverFrees
    [] kind = "mint"    -> MintFrees
    [] kind = "context" -> <<B("context"), B("result")>>
    [] kind \in {"validate", "fee"} -> <<B("error"), B("result")>>
    [] kind = "proof"   -> <<B("error"), B("proof"), B("result")>>
    [] kind = "name"    -> <<B("error"), B("script"), B("result")>>
    [] OTHER            -> <<B("result")>>

-----------------------------------------------------------------------------
VARIABLES
  pc,         (* where each isolate's call is                              *)
  thread,     (* the thread it runs on                                     *)
  kind,       (* the native function it calls                              *)
  step,       (* the next step of that function                            *)
  ptr,        (* the pointers of the call                                  *)
  failed,     (* the result it returned carries an error                   *)
  lastError,  (* per thread: the isolate whose call recorded a reason      *)
  said,       (* what the native function said                             *)
  outcome     (* what the Dart call did: "value", "not ours", "threw" or   *)
              (* "logged", and whose reason it threw or logged             *)

ffiVars == <<pc, thread, kind, step, ptr, failed, lastError, said, outcome>>

FfiInit ==
  /\ pc = [i \in Isolates |-> "idle"]
  /\ thread = [i \in Isolates |-> None]
  /\ kind = [i \in Isolates |-> None]
  /\ step = [i \in Isolates |-> 1]
  /\ ptr = [i \in Isolates |-> [b \in Blocks |-> "absent"]]
  /\ failed = [i \in Isolates |-> FALSE]
  /\ lastError = [t \in Threads |-> None]
  /\ said = [i \in Isolates |-> None]
  /\ outcome = [i \in Isolates |-> <<None, None>>]

\* Mutant of Slot: lastError is a plain global.
OneSlot(i) == CHOOSE t \in Threads : TRUE

\* The isolate's lastError.
Slot(i) == thread[i]

\* free(p): nothing for nullptr.
Freed(p, b) ==
  [p EXCEPT ![b] = CASE @ = "live" -> "freed"
                     [] @ = "null" -> "null"
                     [] OTHER      -> "corrupt"]

\* A native cleanup: it tests a struct's pointer before it looks inside, and
\* a unique_ptr that was never set does nothing.
FreedAll(p, frees) ==
  FoldLeft(LAMBDA q, b : IF q[b] = "absent" THEN q ELSE Freed(q, b), p, frees)

\* malloc leaves the pointers in a block indeterminate, calloc null.
Allocated(p, k, s) ==
  [b \in Blocks |->
     IF b = s.block THEN "live"
     ELSE IF b \in Fields(k, s.block)
       THEN IF s.op = "calloc" THEN "null" ELSE "unset"
     ELSE p[b]]

-----------------------------------------------------------------------------
(***************************************************************************)
(* Steps of a call.                                                        *)
(***************************************************************************)

\* A Dart call starts on a thread no other call is on.  Some need a full
\* view key first, which they hold until they end.
Begin(i, t, k, withKey) ==
  /\ pc[i] = "idle" /\ \A j \in Isolates : thread[j] # t
  /\ thread' = [thread EXCEPT ![i] = t]
  /\ kind' = [kind EXCEPT ![i] = k]
  /\ pc' = [pc EXCEPT ![i] = IF withKey THEN "key" ELSE "body"]
  /\ UNCHANGED <<step, ptr, failed, lastError, said, outcome>>

\* setLastError, and nullptr to the caller.
Record(i) ==
  /\ lastError' = [lastError EXCEPT ![Slot(i)] = i]
  /\ said' = [said EXCEPT ![i] = "failed"]
  /\ pc' = [pc EXCEPT ![i] = "null"]

\* getFullViewKeyFromPrivateKeyData or deserializeFullViewKey.
OpenKey(i) ==
  /\ pc[i] = "key"
  /\ \/ /\ ptr' = [ptr EXCEPT ![i][B("key")] = "live"]
        /\ pc' = [pc EXCEPT ![i] = "body"]
        /\ UNCHANGED <<lastError, said>>
     \/ /\ Record(i)
        /\ UNCHANGED ptr
  /\ UNCHANGED <<thread, kind, step, failed, outcome>>

\* A step of the body or of the catch block succeeds; the last one returns.
Succeed(i, steps) ==
  LET s == steps[step[i]]
  IN  /\ ptr' = [ptr EXCEPT ![i] = CASE s.op = "work" -> @
                                     [] s.op = "null" -> [@ EXCEPT ![s.block] = "null"]
                                     [] OTHER -> Allocated(@, kind[i], s)]
      /\ IF step[i] = Len(steps)
         THEN /\ pc' = [pc EXCEPT ![i] = "returned"]
              /\ said' = [said EXCEPT ![i] = IF pc[i] = "body" THEN "value" ELSE "failed"]
              /\ failed' = [failed EXCEPT ![i] = pc[i] = "catch"]
              /\ step' = step
         ELSE step' = [step EXCEPT ![i] = @ + 1] /\ UNCHANGED <<pc, said, failed>>
      /\ UNCHANGED <<thread, kind, lastError, outcome>>

\* Work throws, or an allocation that throws std::bad_alloc fails.
Throws(i) ==
  /\ ptr' = [ptr EXCEPT ![i] = FreedAll(@, Unwind(kind[i]))]
  /\ IF Handler(kind[i]) = <<>>
     THEN Record(i) /\ step' = step
     ELSE /\ pc' = [pc EXCEPT ![i] = "catch"] /\ step' = [step EXCEPT ![i] = 1]
          /\ UNCHANGED <<lastError, said>>
  /\ UNCHANGED <<thread, kind, failed, outcome>>

\* An allocation tested in place fails.
FailsInPlace(i, frees) ==
  /\ ptr' = [ptr EXCEPT ![i] = FreedAll(@, frees)]
  /\ Record(i)
  /\ UNCHANGED <<thread, kind, step, failed, outcome>>

RunBody(i) ==
  LET s == Body(kind[i])[step[i]]
  IN  /\ pc[i] = "body"
      /\ \/ Succeed(i, Body(kind[i]))
         \/ s.op # "null" /\ ~s.tested /\ Throws(i)
         \/ s.tested /\ FailsInPlace(i, s.frees)

RunCatch(i) ==
  LET s == Handler(kind[i])[step[i]]
  IN  /\ pc[i] = "catch"
      /\ \/ Succeed(i, Handler(kind[i]))
         \/ s.tested /\ FailsInPlace(i, s.frees)

\* idAndRecoverCoinByFullViewKey: the coin does not parse or decrypt.
NotOurs(i) ==
  /\ pc[i] = "body" /\ kind[i] = "recover" /\ step[i] = 1
  /\ lastError' = [lastError EXCEPT ![Slot(i)] = None]
  /\ said' = [said EXCEPT ![i] = "not ours"]
  /\ pc' = [pc EXCEPT ![i] = "null"]
  /\ UNCHANGED <<thread, kind, step, ptr, failed, outcome>>

\* Mutant of AfterReading: native_last_error does not clear.
AfterReadingKept(i) == lastError[Slot(i)]

\* Reading the reason clears it.
AfterReading(i) == None

\* A failure is an exception, except that validateAddress logs it and answers
\* that the address is not valid.
Reported(i) == IF kind[i] = "validate" THEN "logged" ELSE "threw"

\* A null result: _takeLastError, which gets nothing when there is no reason
\* or native_last_error cannot allocate the copy, and then the exception,
\* which for _recoverCoin depends on there being a reason.
TakeLastError(i) ==
  LET reason == lastError[Slot(i)]
  IN  /\ pc[i] = "null"
      /\ \E message \in {reason, None} :
           outcome' = [outcome EXCEPT ![i] =
             IF kind[i] = "recover" /\ ptr[i][B("key")] = "live" /\ message = None
             THEN <<"not ours", None>> ELSE <<Reported(i), message>>]
      /\ lastError' = [lastError EXCEPT ![Slot(i)] = AfterReading(i)]
      /\ pc' = [pc EXCEPT ![i] = "finally"]
      /\ UNCHANGED <<thread, kind, step, ptr, failed, said>>

\* A result: it is read, and freed in the finally block.
Consume(i) ==
  LET read == [b \in Blocks |->
                 IF b \in Reads(kind[i], failed[i]) /\ ptr[i][b] # "live"
                 THEN "corrupt" ELSE ptr[i][b]]
  IN  /\ pc[i] = "returned"
      /\ ptr' = [ptr EXCEPT ![i] =
                   FoldLeft(Freed, read, Frees(kind[i], failed[i]))]
      /\ outcome' = [outcome EXCEPT ![i] =
                       IF failed[i] THEN <<Reported(i), i>> ELSE <<"value", None>>]
      /\ pc' = [pc EXCEPT ![i] = "finally"]
      /\ UNCHANGED <<thread, kind, step, failed, lastError, said>>

\* The outer finally: the key is deleted.  The call ends, and of its pointers
\* only the blocks they leaked remain.
Finish(i) ==
  /\ pc[i] = "finally"
  /\ ptr' = [ptr EXCEPT ![i] =
               [b \in Blocks |-> IF @[b] = "live" /\ b # B("key") THEN "live" ELSE "absent"]]
  /\ pc' = [pc EXCEPT ![i] = "idle"]
  /\ thread' = [thread EXCEPT ![i] = None]
  /\ kind' = [kind EXCEPT ![i] = None]
  /\ step' = [step EXCEPT ![i] = 1]
  /\ failed' = [failed EXCEPT ![i] = FALSE]
  /\ said' = [said EXCEPT ![i] = None]
  /\ outcome' = [outcome EXCEPT ![i] = <<None, None>>]
  /\ UNCHANGED lastError

FfiNext ==
  \E i \in Isolates :
    \/ \E t \in Threads, k \in Kinds, withKey \in BOOLEAN :
         /\ k = "recover" => withKey
         /\ withKey => k \in {"recover", "buffer"}
         /\ Begin(i, t, k, withKey)
    \/ OpenKey(i)
    \/ RunBody(i)
    \/ RunCatch(i)
    \/ NotOurs(i)
    \/ TakeLastError(i)
    \/ Consume(i)
    \/ Finish(i)

FfiSpec == FfiInit /\ [][FfiNext]_ffiVars

-----------------------------------------------------------------------------
(***************************************************************************)
(* Properties.                                                             *)
(***************************************************************************)

\* Types.  No pointer is ever "corrupt": neither side frees or reads one
\* that is indeterminate, freed or inside a struct that does not exist,
\* whichever allocation failed.
FfiTypeOK ==
  /\ pc \in [Isolates -> {"idle", "key", "body", "catch", "null", "returned", "finally"}]
  /\ thread \in [Isolates -> Threads \cup {None}]
  /\ kind \in [Isolates -> Kinds \cup {None}]
  /\ ptr \in [Isolates -> [Blocks -> PointerStates]]
  /\ failed \in [Isolates -> BOOLEAN]
  /\ lastError \in [Threads -> Isolates \cup {None}]
  /\ said \in [Isolates -> {None, "value", "not ours", "failed"}]

\* A call that has ended has returned all the native memory it allocated,
\* whichever of its steps failed.
NothingLeaks ==
  \A i \in Isolates : pc[i] = "idle" => \A b \in Blocks : ptr[i][b] # "live"

\* "Returns why the most recent call on this thread returned NULL": the
\* reason a call throws or logs is one that its own native function recorded, never
\* an earlier call's on the thread nor another isolate's.
ReasonIsOwn ==
  \A i \in Isolates :
    outcome[i][2] # None => outcome[i][2] = i /\ said[i] = "failed"

\* No reason stays behind for a later call on the thread to find.
NoReasonLeftBehind ==
  \A t \in Threads :
    lastError[t] # None => \E i \in Isolates : thread[i] = t /\ pc[i] = "null"

\* identifyAndRecoverCoin "Throws if recovery fails": it answers null, not
\* ours, only when the native function found that the coin is not ours.
NullMeansNotOurs ==
  \A i \in Isolates : outcome[i][1] = "not ours" => said[i] = "not ours"

=============================================================================
