------------------------------ MODULE Logging ------------------------------
(***************************************************************************)
(* Log of logging.dart and the logging around LibSpark's calls.  Log.l     *)
(* hands each enabled message to the application's callback in the middle  *)
(* of a call, and the callback may throw, change the levels or call        *)
(* LibSpark again.  The calls of an isolate are a stack of frames, the     *)
(* innermost last; only the innermost one runs.                            *)
(*                                                                         *)
(* onLog = null is the empty set of levels, and "debug" stands for debug   *)
(* and trace: the wrappers log at trace when it is enabled, else at debug. *)
(***************************************************************************)
EXTENDS Naturals, Sequences, SequencesExt

CONSTANTS
  Pieces,     (* blocks of native memory in a result                       *)
  MaxDepth,   (* bound: frames at a time                                   *)
  MaxCalls    (* bound: ids given out                                      *)

ASSUME LoggingAssumption ==
  Pieces \in Nat \ {0} /\ MaxDepth \in Nat /\ MaxCalls \in Nat

Levels == SUBSET {"debug", "warning"}

\* "getAddress" stands for every wrapper that logs its BEGIN and END and
\* frees a result; the two that work with a full view key log nothing of
\* their own and end in _deleteFullViewKey.
Wrappers == {"getAddress", "validateAddress", "identifyAndRecoverCoin"}

Callbacks == {"in_BEGIN", "in_warning", "in_take", "in_free", "in_END"}
Points == Callbacks \cup {"begin", "open", "call", "warning", "read", "take",
                          "free", "unwind", "deleting", "end"}

\* A call: where it is, its id and start (0: null), the native blocks and the
\* full view key it still holds, what it throws, and whether it gave a
\* warning to the callback or a callback of it threw.
Frame ==
  [fn : Wrappers \cup {"_deleteFullViewKey"}, pc : Points, id : Nat,
   held : Nat, key : BOOLEAN, threw : {"no", "error", "callback", "null_check"},
   warned : BOOLEAN, callbackThrew : BOOLEAN]

VARIABLES
  levels,     (* Log.levels                                                *)
  stack,      (* the running calls                                         *)
  nextId,     (* _id + 1                                                   *)
  log,        (* the BEGINs and ENDs the callback was given                *)
  ended       (* the calls of the last step to end: none or one            *)

logVars == <<levels, stack, nextId, log, ended>>

LogInit ==
  levels = {"warning"} /\ stack = <<>> /\ nextId = 1 /\ log = <<>> /\ ended = {}

-----------------------------------------------------------------------------
enableDebugLogging == "debug" \in levels

Top == stack[Len(stack)]

NewFrame(f) ==
  [fn |-> f, pc |-> IF f = "identifyAndRecoverCoin" THEN "open" ELSE "begin",
   id |-> 0, held |-> 0, key |-> FALSE, threw |-> "no", warned |-> FALSE,
   callbackThrew |-> FALSE]

\* The innermost call goes on as frame f.
Become(f) == stack' = [stack EXCEPT ![Len(stack)] = f] /\ ended' = {}

\* It ends, as f.  An exception of _deleteFullViewKey, which runs in a
\* finally block, replaces its caller's.
Leave(f) ==
  /\ ended' = {f}
  /\ stack' =
       IF f.fn = "_deleteFullViewKey"
       THEN [Front(stack) EXCEPT ![Len(stack) - 1].threw =
                                   IF f.threw = "no" THEN @ ELSE f.threw,
                                 ![Len(stack) - 1].callbackThrew =
                                   @ \/ f.callbackThrew]
       ELSE Front(stack)

\* Log.l: the callback runs when the level is enabled, else the call goes on.
LogOr(level, callback, otherwise) ==
  IF level \in levels THEN [Top EXCEPT !.pc = callback] ELSE otherwise

-----------------------------------------------------------------------------
(***************************************************************************)
(* The application, outside of any call or in its callback.                *)
(***************************************************************************)

ApplicationRuns == stack # <<>> => Top.pc \in Callbacks

\* The bounds: every running call may still take an id.
CallFunction(f) ==
  /\ ApplicationRuns
  /\ Len(stack) < MaxDepth /\ nextId + Len(stack) <= MaxCalls
  /\ stack' = Append(stack, NewFrame(f)) /\ ended' = {}
  /\ UNCHANGED <<levels, nextId, log>>

SetLevels(L) ==
  /\ ApplicationRuns
  /\ levels' = L /\ ended' = {}
  /\ UNCHANGED <<stack, nextId, log>>

\* Mutant of AfterCallback: the reason is freed here and by its reader.
AfterCallbackFreesTwice(f) ==
  CASE f.pc = "in_BEGIN"   -> [f EXCEPT !.pc = "call"]
    [] f.pc = "in_warning" -> [f EXCEPT !.pc = "free"]
    [] f.pc = "in_take"    -> [f EXCEPT !.pc = "take", !.held = @ - 2]
    [] f.pc = "in_free"    -> [f EXCEPT !.pc = "free", !.held = @ - 1]
    [] OTHER               -> f

\* Where the call goes on after a callback, ...
AfterCallback(f) ==
  CASE f.pc = "in_BEGIN"   -> [f EXCEPT !.pc = "call"]
    [] f.pc = "in_warning" -> [f EXCEPT !.pc = "free"]
    [] f.pc = "in_take"    -> [f EXCEPT !.pc = "take", !.held = @ - 1]
    [] f.pc = "in_free"    -> [f EXCEPT !.pc = "free", !.held = @ - 1]
    [] OTHER               -> f

\* ... and where one that throws takes it: a warning is given inside the try
\* whose finally block frees the result, a BEGIN outside of every try.
AfterThrow(f) ==
  LET g == [f EXCEPT !.threw = "callback", !.callbackThrew = TRUE]
  IN  CASE f.pc = "in_warning"            -> [g EXCEPT !.pc = "free"]
        [] f.pc \in {"in_take", "in_free"} -> [g EXCEPT !.pc = "unwind"]
        [] OTHER                          -> g

CallbackReturns ==
  /\ stack # <<>> /\ Top.pc \in Callbacks
  /\ IF Top.pc = "in_END" THEN Leave(Top) ELSE Become(AfterCallback(Top))
  /\ UNCHANGED <<levels, nextId, log>>

CallbackThrows ==
  /\ stack # <<>> /\ Top.pc \in Callbacks
  /\ IF Top.pc \in {"in_BEGIN", "in_END"}
     THEN Leave(AfterThrow(Top)) ELSE Become(AfterThrow(Top))
  /\ UNCHANGED <<levels, nextId, log>>

-----------------------------------------------------------------------------
(***************************************************************************)
(* Steps of a call.                                                        *)
(***************************************************************************)

At(point) == stack # <<>> /\ Top.pc = point

\* "BEGIN($id)", with the id and the start kept for the END.
Begin ==
  /\ At("begin")
  /\ IF enableDebugLogging
     THEN /\ nextId' = nextId + 1
          /\ log' = Append(log, <<"BEGIN", nextId>>)
          /\ Become([Top EXCEPT !.pc = "in_BEGIN", !.id = nextId])
     ELSE /\ Become([Top EXCEPT !.pc = "call"])
          /\ UNCHANGED <<nextId, log>>
  /\ UNCHANGED levels

\* getFullViewKeyFromPrivateKeyData or deserializeFullViewKey; a failure has
\* a reason to free, or none.
OpenKey ==
  /\ At("open")
  /\ \/ Become([Top EXCEPT !.pc = "call", !.key = TRUE])
     \/ \E n \in {0, 1} :
          Become([Top EXCEPT !.pc = "take", !.held = n, !.threw = "error"])
  /\ UNCHANGED <<levels, nextId, log>>

\* A wrapper's arguments are refused, or its native function returns nullptr,
\* a result, or, for validateAddress, a result with an errorMessage.
NativeCall ==
  /\ At("call") /\ Top.fn # "_deleteFullViewKey"
  /\ \/ Become([Top EXCEPT !.pc = "read", !.held = Pieces])
     \/ /\ Top.fn = "validateAddress"
        /\ Become([Top EXCEPT !.pc = "warning", !.held = Pieces])
     \/ \E n \in {0, 1} :
          Become([Top EXCEPT !.pc = "take", !.held = n,
                             !.threw = IF \/ Top.fn = "validateAddress"
                                          \/ Top.fn = "identifyAndRecoverCoin" /\ n = 0
                                       THEN "no" ELSE "error"])
     \/ Become([Top EXCEPT !.pc = "unwind",
                           !.threw = IF Top.fn = "validateAddress" THEN "no" ELSE "error"])
  /\ UNCHANGED <<levels, nextId, log>>

\* native_deleteFullViewKey.
DeleteKey ==
  /\ At("call") /\ Top.fn = "_deleteFullViewKey"
  /\ stack' = [stack EXCEPT ![Len(stack)].pc = "unwind",
                            ![Len(stack) - 1].key = FALSE]
  /\ ended' = {}
  /\ UNCHANGED <<levels, nextId, log>>

\* Mutant of AfterRead: the result is not freed in a finally block.
AfterReadNoFinally(threw) == IF threw = "no" THEN "free" ELSE "unwind"

\* Reading the result may throw; its finally block frees it either way.
AfterRead(threw) == "free"

Read ==
  /\ At("read")
  /\ \E threw \in {"no", "error"} :
       Become([Top EXCEPT !.pc = AfterRead(threw), !.threw = threw])
  /\ UNCHANGED <<levels, nextId, log>>

\* Log.w of validateAddress.
Warn ==
  /\ At("warning")
  /\ Become([LogOr("warning", "in_warning", [Top EXCEPT !.pc = "free"])
               EXCEPT !.warned = "warning" \in levels])
  /\ UNCHANGED <<levels, nextId, log>>

\* Mutant of FreeLevel: freeNative warns.
FreeWarns == "warning"

\* freeNative logs and then frees, one block at a time: the blocks of the
\* result, or the reason that _takeLastError read.
FreeLevel == "debug"

FreeNative ==
  /\ \/ At("take") /\ Top.held > 0
        /\ Become(LogOr(FreeLevel, "in_take", [Top EXCEPT !.held = @ - 1]))
     \/ At("free") /\ Top.held > 0
        /\ Become(LogOr(FreeLevel, "in_free", [Top EXCEPT !.held = @ - 1]))
     \/ At("take") /\ Top.held = 0
        /\ Become([Top EXCEPT !.pc = IF Top.fn = "validateAddress" THEN "warning"
                                     ELSE "unwind"])
     \/ At("free") /\ Top.held = 0
        /\ Become([Top EXCEPT !.pc = "unwind"])
  /\ UNCHANGED <<levels, nextId, log>>

\* The outer finally: a key is deleted, by a call that logs itself.
Unwind ==
  /\ At("unwind")
  /\ \/ /\ Top.fn = "identifyAndRecoverCoin" /\ Top.key
        /\ stack' = Append([stack EXCEPT ![Len(stack)].pc = "deleting"],
                           NewFrame("_deleteFullViewKey"))
        /\ ended' = {}
     \/ /\ Top.fn = "identifyAndRecoverCoin" /\ ~Top.key
        /\ Leave(Top)
     \/ /\ Top.fn # "identifyAndRecoverCoin"
        /\ Become([Top EXCEPT !.pc = "end"])
  /\ UNCHANGED <<levels, nextId, log>>

KeyDeleted == At("deleting") /\ Leave(Top) /\ UNCHANGED <<levels, nextId, log>>

\* Mutant of NoStart: a missing start is not noticed.
NoStartUnnoticed(f) == FALSE

\* start! throws, before Log.l is called, when the BEGIN was not logged.
NoStart(f) == f.id = 0

\* "END($id) ... Duration=", when debug logging is enabled now.
End ==
  /\ At("end")
  /\ IF ~enableDebugLogging THEN Leave(Top) /\ log' = log
     ELSE IF NoStart(Top) THEN Leave([Top EXCEPT !.threw = "null_check"]) /\ log' = log
     ELSE /\ log' = Append(log, <<"END", Top.id>>)
          /\ Become([Top EXCEPT !.pc = "in_END"])
  /\ UNCHANGED <<levels, nextId>>

LogNext ==
  \/ \E f \in Wrappers : CallFunction(f)
  \/ \E L \in Levels : SetLevels(L)
  \/ CallbackReturns \/ CallbackThrows
  \/ Begin \/ OpenKey \/ NativeCall \/ DeleteKey \/ Read \/ Warn \/ FreeNative
  \/ Unwind \/ KeyDeleted \/ End

LogSpec == LogInit /\ [][LogNext]_logVars

-----------------------------------------------------------------------------
(***************************************************************************)
(* Properties.                                                             *)
(***************************************************************************)

\* Types: no block is freed twice, and of the running calls only the innermost
\* is not waiting for a callback or for the deletion of its key.
LogTypeOK ==
  /\ levels \in Levels
  /\ stack \in Seq(Frame)
  /\ nextId \in Nat
  /\ ended \subseteq Frame
  /\ \A n \in 1 .. Len(stack) - 1 :
       IF stack[n + 1].fn = "_deleteFullViewKey"
       THEN stack[n].pc = "deleting" /\ stack[n].fn = "identifyAndRecoverCoin"
       ELSE stack[n].pc \in Callbacks

\* The positions in the log of an event of a call.
Shown(event, id) == {n \in 1 .. Len(log) : log[n] = <<event, id>>}

\* What the callback is given reads as nested calls: an END has the id of one
\* earlier BEGIN, no id begins or ends twice, and two calls never cross, even
\* when callbacks make calls, throw, or change the levels in mid-call.
WellBracketed ==
  \A n \in 1 .. Len(log) :
    LET id == log[n][2]
    IN  /\ Shown(log[n][1], id) = {n}
        /\ log[n][1] = "END" =>
             \E b \in Shown("BEGIN", id) :
               /\ b < n
               /\ \A c \in b + 1 .. n - 1 :
                    log[c][1] = "END" =>
                      \E d \in Shown("BEGIN", log[c][2]) : b < d

\* Native memory and keys outlive a call only when a callback of that call,
\* or of the deletion of its key, threw: nothing else that goes wrong in a
\* call, and no change of the levels, loses one.
LeaksOnlyByCallback ==
  \A f \in ended : f.held > 0 \/ f.key => f.callbackThrew

\* Logging changes what a call returns only if a callback throws, but for one
\* case: validateAddress loses its answer to start! when the callback it gave
\* its warning to enabled debug logging.
AnswerLostOnlyByWarning ==
  \A f \in ended :
    /\ f.threw = "callback" => f.callbackThrew
    /\ f.threw = "null_check" =>
         f.fn = "validateAddress" /\ f.warned /\ f.id = 0 /\ enableDebugLogging

=============================================================================
