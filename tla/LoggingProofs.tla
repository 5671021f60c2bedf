--------------------------- MODULE LoggingProofs ---------------------------
(***************************************************************************)
(* The safety properties of Logging, for results of every size, calls to   *)
(* every depth and any number of ids.                                      *)
(***************************************************************************)
EXTENDS Logging, SequenceTheorems, TLAPS

\* Where a call may hold blocks that it is still to free.
Holding == {"read", "warning", "in_warning", "take", "in_take", "free", "in_free"}

\* What holds of every running call f, with debug logging on or off.
MemoryInOrder(f) ==
  /\ f.pc \in {"in_take", "in_free"} => f.held > 0
  /\ f.held > 0 /\ f.pc \notin Holding => f.callbackThrew
  /\ f.key => f.fn = "identifyAndRecoverCoin"

PlaceInOrder(f) ==
  /\ f.fn = "identifyAndRecoverCoin" =>
       f.pc \in {"open", "call", "read", "take", "in_take", "free", "in_free",
                 "unwind", "deleting"}
  /\ f.fn = "_deleteFullViewKey" =>
       f.pc \in {"begin", "in_BEGIN", "call", "unwind", "end", "in_END"}
  /\ f.pc \in {"warning", "in_warning"} => f.fn = "validateAddress"
  /\ f.pc \in {"open", "deleting"} => f.fn = "identifyAndRecoverCoin"

\* A call whose BEGIN was not logged gets to run a callback only by a warning.
StartInOrder(f, debug) ==
  /\ f.threw = "callback" => f.callbackThrew
  /\ f.threw # "null_check"
  /\ f.fn = "identifyAndRecoverCoin" \/ f.pc = "begin" => f.id = 0
  /\ f.pc \in {"begin", "open", "in_BEGIN", "call", "warning", "take", "in_take"} => ~f.warned
  /\ f.fn # "identifyAndRecoverCoin" /\ f.id = 0 /\ f.pc # "begin" =>
       \/ f.fn = "validateAddress" /\ f.warned
       \/ ~debug /\ f.pc \notin Callbacks

FrameInOrder(f, debug) ==
  f \in Frame /\ MemoryInOrder(f) /\ PlaceInOrder(f) /\ StartInOrder(f, debug)

\* f is the caller of g.
CallInOrder(f, g) ==
  /\ IF g.fn = "_deleteFullViewKey"
     THEN f.pc = "deleting" /\ f.fn = "identifyAndRecoverCoin"
     ELSE f.pc \in Callbacks
  /\ g.fn = "_deleteFullViewKey" /\ g.pc \in {"unwind", "end", "in_END"} => ~f.key

Linked(s, debug) ==
  /\ s \in Seq(Frame)
  /\ \A n \in 1 .. Len(s) : FrameInOrder(s[n], debug)
  /\ \A n \in 1 .. Len(s) - 1 : CallInOrder(s[n], s[n + 1])
  /\ Len(s) > 0 => s[1].fn # "_deleteFullViewKey"

\* The innermost call has deleted its key, or a callback of the deletion threw.
DeletedOrThrew(f) == f.pc = "deleting" /\ f.key => f.callbackThrew

StackInOrder(s, debug) ==
  Linked(s, debug) /\ (Len(s) > 0 => DeletedOrThrew(s[Len(s)]))

EndInOrder(f, debug) ==
  /\ f \in Frame
  /\ f.held > 0 \/ f.key => f.callbackThrew
  /\ f.threw = "callback" => f.callbackThrew
  /\ f.threw = "null_check" =>
       f.fn = "validateAddress" /\ f.warned /\ f.id = 0 /\ debug

CallsInv ==
  /\ levels \in Levels /\ nextId \in Nat \ {0}
  /\ StackInOrder(stack, enableDebugLogging)
  /\ \A f \in ended : EndInOrder(f, enableDebugLogging)

\* The log l and the ids that have been given out.
Events == {"BEGIN", "END"} \X Nat

Closes(l, b, n) ==
  l[n][1] = "END" => \E d \in 1 .. Len(l) : l[d] = <<"BEGIN", l[n][2]>> /\ b < d

\* The BEGINs count up.
BeginsInOrder(l, next) ==
  /\ l \in Seq(Events)
  /\ \A n \in 1 .. Len(l) : 0 < l[n][2] /\ l[n][2] < next
  /\ \A m, n \in 1 .. Len(l) :
       m < n /\ l[m][1] = "BEGIN" /\ l[n][1] = "BEGIN" => l[m][2] < l[n][2]

\* An END is the only one of its id, comes after its BEGIN, and closes no call
\* that began before that.
EndsInOrder(l) ==
  \A n \in 1 .. Len(l) :
    l[n][1] = "END" =>
      /\ \A m \in 1 .. Len(l) : l[m] = l[n] => m = n
      /\ \E b \in 1 .. n - 1 :
           l[b] = <<"BEGIN", l[n][2]>> /\ \A c \in b + 1 .. n - 1 : Closes(l, b, c)

\* A running call with an id whose END is to come began, and every END since
\* is of a call that began later.
OpenInOrder(l, f) ==
  f.id # 0 /\ f.pc # "in_END" =>
    /\ \E b \in 1 .. Len(l) : l[b] = <<"BEGIN", f.id>> /\ \A c \in b + 1 .. Len(l) : Closes(l, b, c)
    /\ \A n \in 1 .. Len(l) : l[n] # <<"END", f.id>>

LogInOrder ==
  /\ BeginsInOrder(log, nextId) /\ EndsInOrder(log)
  /\ \A n \in 1 .. Len(stack) : OpenInOrder(log, stack[n])
  /\ \A n \in 1 .. Len(stack) : stack[n].id < nextId
  /\ \A m, n \in 1 .. Len(stack) :
       m < n /\ stack[n].id # 0 => stack[m].id < stack[n].id

LogInv == CallsInv /\ LogInOrder

-----------------------------------------------------------------------------
(***************************************************************************)
(* The stack.                                                              *)
(***************************************************************************)

LEMMA TopOf ==
  ASSUME NEW debug, NEW s, Linked(s, debug), s # <<>>
  PROVE  /\ Len(s) \in Nat /\ Len(s) > 0 /\ Len(s) \in 1 .. Len(s)
         /\ s \in Seq(Frame) /\ s \in [1 .. Len(s) -> Frame]
         /\ FrameInOrder(s[Len(s)], debug)
<1>1. s \in Seq(Frame)
  BY DEF Linked
<1>2. Len(s) \in Nat /\ Len(s) # 0 /\ s \in [1 .. Len(s) -> Frame]
  BY <1>1, LenProperties, EmptySeq
<1> QED BY <1>1, <1>2 DEF Linked

\* The innermost call goes on as g.
ReplacesTop(s, g, t) ==
  /\ Len(t) = Len(s) /\ t[Len(s)] = g
  /\ \A n \in 1 .. Len(s) - 1 : t[n] = s[n]

LEMMA ReplacedBy ==
  ASSUME NEW debug, NEW s, Linked(s, debug), s # <<>>, NEW g, FrameInOrder(g, debug),
         Len(s) > 1 => CallInOrder(s[Len(s) - 1], g),
         Len(s) = 1 => g.fn # "_deleteFullViewKey"
  PROVE  /\ Linked([s EXCEPT ![Len(s)] = g], debug)
         /\ ReplacesTop(s, g, [s EXCEPT ![Len(s)] = g])
<1> DEFINE N == Len(s)
           t == [s EXCEPT ![N] = g]
<1>1. N \in Nat /\ N > 0 /\ N \in 1 .. N /\ s \in Seq(Frame)
  BY TopOf
<1>2. g \in Frame
  BY DEF FrameInOrder
<1>3. t \in Seq(Frame) /\ Len(t) = N /\ t[N] = g /\ \A n \in 1 .. N : n # N => t[n] = s[n]
  <2>1. /\ t \in Seq(Frame) /\ Len(t) = N
        /\ \A n \in 1 .. N : t[n] = IF n = N THEN g ELSE s[n]
    BY <1>1, <1>2, ExceptSeq
  <2> QED BY <1>1, <2>1, Zenon
<1>0. N \in Nat /\ N > 0
  BY <1>1
<1>4. /\ N > 1 => CallInOrder(s[N - 1], g)
      /\ N = 1 => g.fn # "_deleteFullViewKey"
      /\ \A n \in 1 .. N : FrameInOrder(s[n], debug)
      /\ \A n \in 1 .. N - 1 : CallInOrder(s[n], s[n + 1])
      /\ s[1].fn # "_deleteFullViewKey"
  BY <1>1 DEF Linked
<1> HIDE DEF t, N
<1>5. /\ \A n \in 1 .. N - 1 : n \in 1 .. N /\ n # N /\ n + 1 \in 1 .. N
      /\ N # 1 => N > 1 /\ 1 \in 1 .. N
      /\ \A n \in 1 .. N - 1 : n + 1 = N => N > 1 /\ n = N - 1
  BY <1>0
<1>6. \A n \in 1 .. N - 1 : t[n] = s[n]
  BY <1>3, <1>5
<1>7. \A n \in 1 .. N : FrameInOrder(t[n], debug)
  BY <1>3, <1>4
<1>8. ASSUME NEW n \in 1 .. N - 1 PROVE CallInOrder(t[n], t[n + 1])
  <2>1. CASE n + 1 = N
    BY <1>3, <1>4, <1>5, <1>6, <2>1
  <2>2. CASE n + 1 # N
    BY <1>3, <1>4, <1>5, <1>6, <2>2
  <2> QED BY <2>1, <2>2
<1>9. t[1].fn # "_deleteFullViewKey"
  <2>1. CASE N = 1
    BY <1>3, <1>4, <2>1
  <2>2. CASE N # 1
    BY <1>3, <1>4, <1>5, <2>2
  <2> QED BY <2>1, <2>2
<1>10. Linked(t, debug)
  BY <1>3, <1>7, <1>8, <1>9 DEF Linked
<1> QED BY <1>3, <1>6, <1>10 DEF t, N, ReplacesTop

GoesOn(f, g) ==
  /\ g.fn = f.fn /\ g.pc # "deleting"
  /\ f.fn = "_deleteFullViewKey" /\ g.pc \in {"unwind", "end", "in_END"} =>
       f.pc \in {"unwind", "end", "in_END"}

LEMMA Replaced ==
  ASSUME NEW debug, NEW s, StackInOrder(s, debug), s # <<>>, NEW g, FrameInOrder(g, debug),
         GoesOn(s[Len(s)], g)
  PROVE  /\ StackInOrder([s EXCEPT ![Len(s)] = g], debug)
         /\ ReplacesTop(s, g, [s EXCEPT ![Len(s)] = g])
<1> DEFINE N == Len(s)
           t == [s EXCEPT ![N] = g]
<1>1. N \in Nat /\ N > 0 /\ Linked(s, debug)
  BY TopOf DEF StackInOrder
<1>2. N > 1 => CallInOrder(s[N - 1], s[N])
  <2>1. N > 1 => N - 1 \in 1 .. N - 1 /\ (N - 1) + 1 = N
    BY <1>1
  <2> QED BY <1>1, <2>1 DEF Linked
<1>3. N > 1 => CallInOrder(s[N - 1], g)
  BY <1>2 DEF CallInOrder, GoesOn
<1>4. N = 1 => g.fn # "_deleteFullViewKey"
  BY <1>1 DEF Linked, GoesOn
<1>5. Linked(t, debug) /\ ReplacesTop(s, g, t)
  BY <1>1, <1>3, <1>4, ReplacedBy
<1>6. DeletedOrThrew(g)
  BY DEF DeletedOrThrew, GoesOn
<1> HIDE DEF t
<1>7. StackInOrder(t, debug)
  BY <1>5, <1>6 DEF StackInOrder, ReplacesTop
<1> QED BY <1>5, <1>7 DEF t

\* A call is made.
LEMMA Pushed ==
  ASSUME NEW debug, NEW s, Linked(s, debug), NEW g, FrameInOrder(g, debug),
         g.pc # "deleting", s = <<>> => g.fn # "_deleteFullViewKey",
         s # <<>> => CallInOrder(s[Len(s)], g)
  PROVE  /\ StackInOrder(Append(s, g), debug) /\ Len(Append(s, g)) = Len(s) + 1
         /\ Append(s, g)[Len(s) + 1] = g
         /\ \A n \in 1 .. Len(s) : Append(s, g)[n] = s[n]
<1> DEFINE N == Len(s)
           t == Append(s, g)
<1>1. g \in Frame /\ s \in Seq(Frame) /\ N \in Nat
  BY LenProperties DEF FrameInOrder, Linked
<1>2. t \in Seq(Frame) /\ Len(t) = N + 1 /\ t[N + 1] = g /\ \A n \in 1 .. N : t[n] = s[n]
  BY <1>1, AppendProperties
<1>3. s = <<>> <=> N = 0
  BY <1>1, EmptySeq
<1> HIDE DEF t, N
<1>4. \A n \in 1 .. N + 1 : FrameInOrder(t[n], debug)
  <2>1. \A n \in 1 .. N + 1 : n = N + 1 \/ n \in 1 .. N
    BY <1>1
  <2> QED BY <1>2, <2>1 DEF Linked, N
<1>5. ASSUME NEW n \in 1 .. (N + 1) - 1 PROVE CallInOrder(t[n], t[n + 1])
  <2>1. CASE n = N
    BY <1>1, <1>2, <1>3, <2>1 DEF N
  <2>2. CASE n # N
    <3>1. n \in 1 .. N - 1 /\ n \in 1 .. N /\ n + 1 \in 1 .. N
      BY <1>1, <2>2
    <3> QED BY <1>2, <3>1 DEF Linked, N
  <2> QED BY <2>1, <2>2
<1>6. t[1].fn # "_deleteFullViewKey"
  <2>1. CASE N = 0
    BY <1>2, <1>3, <2>1
  <2>2. CASE N # 0
    BY <1>1, <1>2, <2>2 DEF Linked, N
  <2> QED BY <2>1, <2>2
<1>7. N + 1 \in Nat /\ N + 1 > 0
  BY <1>1
<1>8. StackInOrder(t, debug)
  BY <1>2, <1>4, <1>5, <1>6, <1>7 DEF StackInOrder, Linked, DeletedOrThrew
<1> QED BY <1>2, <1>8 DEF t, N

LEMMA FrontOf ==
  ASSUME NEW S, NEW s \in Seq(S), s # <<>>
  PROVE  /\ Front(s) \in Seq(S) /\ Len(Front(s)) = Len(s) - 1
         /\ \A n \in 1 .. Len(s) - 1 : Front(s)[n] = s[n]
<1>1. Len(s) \in Nat /\ Len(s) # 0
  BY LenProperties, EmptySeq
<1> DEFINE N == Len(s) - 1
           t == SubSeq(s, 1, N)
<1>2. N \in Nat /\ N \in Int /\ \A n \in 1 .. N : s[n] \in S
  BY <1>1, ElementOfSeq
<1>3. /\ t \in Seq(S) /\ Len(t) = IF 1 <= N THEN N - 1 + 1 ELSE 0
      /\ \A n \in 1 .. N - 1 + 1 : t[n] = s[1 + n - 1]
  BY <1>2, SubSeqProperties
<1> HIDE DEF t, N
<1>4. Len(t) = N /\ \A n \in 1 .. N : t[n] = s[n]
  BY <1>2, <1>3
<1> QED BY <1>3, <1>4 DEF Front, t, N

\* The innermost call ends, as f; c is the call that waits for a
\* _deleteFullViewKey.
Popped(s, f) ==
  IF f.fn = "_deleteFullViewKey"
  THEN [Front(s) EXCEPT ![Len(s) - 1].threw = IF f.threw = "no" THEN @ ELSE f.threw,
                        ![Len(s) - 1].callbackThrew = @ \/ f.callbackThrew]
  ELSE Front(s)

Resumed(c, f) ==
  [c EXCEPT !.threw = IF f.threw = "no" THEN @ ELSE f.threw,
            !.callbackThrew = @ \/ f.callbackThrew]

\* What an ending _deleteFullViewKey tells of itself and its caller c.
DeletionEnds(c, f) ==
  /\ f \in Frame /\ f.threw # "null_check"
  /\ f.threw = "callback" => f.callbackThrew
  /\ c.key => f.callbackThrew

LEMMA ResumedInOrder ==
  ASSUME NEW debug, NEW c, FrameInOrder(c, debug), c.pc = "deleting",
         c.fn = "identifyAndRecoverCoin", NEW f, DeletionEnds(c, f)
  PROVE  /\ FrameInOrder(Resumed(c, f), debug) /\ Resumed(c, f).pc = "deleting"
         /\ Resumed(c, f).id = c.id /\ Resumed(c, f).fn = c.fn
         /\ Resumed(c, f).key => Resumed(c, f).callbackThrew
<1> DEFINE h == Resumed(c, f)
<1>1. c \in Frame /\ f \in Frame
  BY DEF FrameInOrder, DeletionEnds
<1>2. /\ h.fn = c.fn /\ h.pc = c.pc /\ h.id = c.id /\ h.held = c.held /\ h.key = c.key
      /\ h.warned = c.warned
      /\ h.threw = (IF f.threw = "no" THEN c.threw ELSE f.threw)
      /\ h.callbackThrew = (c.callbackThrew \/ f.callbackThrew) /\ h \in Frame
  BY <1>1, Zenon DEF Resumed, Frame
<1> HIDE DEF h
<1>3. MemoryInOrder(h)
  BY <1>2 DEF FrameInOrder, MemoryInOrder
<1>4. PlaceInOrder(h)
  BY <1>2 DEF FrameInOrder, PlaceInOrder
<1>5. StartInOrder(h, debug)
  BY <1>2 DEF FrameInOrder, StartInOrder, DeletionEnds
<1>6. h.key => h.callbackThrew
  BY <1>2 DEF DeletionEnds
<1> QED BY <1>2, <1>3, <1>4, <1>5, <1>6 DEF FrameInOrder, h

PopsFrom(s, t, f) ==
  /\ Len(t) = Len(s) - 1
  /\ \A n \in 1 .. Len(s) - 1 :
       t[n] = IF f.fn = "_deleteFullViewKey" /\ n = Len(s) - 1 THEN Resumed(s[n], f) ELSE s[n]

LEMMA PoppedParts ==
  ASSUME NEW s \in Seq(Frame), s # <<>>, NEW f \in Frame,
         f.fn = "_deleteFullViewKey" => Len(s) > 1
  PROVE  Popped(s, f) \in Seq(Frame) /\ PopsFrom(s, Popped(s, f), f)
<1> DEFINE F == Front(s)
           K == Len(s) - 1
<1>1. Len(s) \in Nat /\ Len(s) # 0
  BY LenProperties, EmptySeq
<1>2. /\ F \in Seq(Frame) /\ Len(F) = K
      /\ \A n \in 1 .. K : F[n] = s[n]
  BY FrontOf
<1>3. CASE f.fn # "_deleteFullViewKey"
  <2>1. Popped(s, f) = F
    BY <1>3 DEF Popped
  <2> QED BY <1>2, <1>3, <2>1 DEF PopsFrom
<1>4. CASE f.fn = "_deleteFullViewKey"
  <2> DEFINE h == Resumed(F[K], f)
             t == Popped(s, f)
  <2>1. K \in 1 .. Len(F) /\ F[K] = s[K] /\ F[K] \in Frame
    <3>1. K \in 1 .. K
      BY <1>1, <1>4
    <3> QED BY <1>2, <3>1, ElementOfSeq
  <2>2. h \in Frame
    BY <2>1, Zenon DEF Resumed, Frame
  <2>3. t = [F EXCEPT ![K] = h]
    <3>1. t = [F EXCEPT ![K].threw = IF f.threw = "no" THEN @ ELSE f.threw,
                        ![K].callbackThrew = @ \/ f.callbackThrew]
      BY <1>4, Zenon DEF Popped
    <3>2. DOMAIN F = 1 .. K
      BY <1>2, LenProperties
    <3> HIDE DEF F, K
    <3> QED BY <2>1, <3>1, <3>2 DEF Resumed, Frame
  <2> HIDE DEF h, F, t, K
  <2>4. /\ t \in Seq(Frame) /\ Len(t) = Len(F)
        /\ \A n \in 1 .. Len(F) : t[n] = IF n = K THEN h ELSE F[n]
    BY <1>2, <2>1, <2>2, <2>3, ExceptSeq
  <2>5. \A n \in 1 .. K : t[n] = IF n = K THEN Resumed(s[n], f) ELSE s[n]
    BY <1>2, <2>1, <2>4, Zenon DEF h
  <2>6. PopsFrom(s, t, f)
    BY <1>2, <1>4, <2>4, <2>5, Zenon DEF PopsFrom, K
  <2> QED BY <2>4, <2>6 DEF t
<1> QED BY <1>3, <1>4

\* f is how the innermost call ends.
EndsAs(s, f) ==
  /\ f \in Frame /\ f.fn = s[Len(s)].fn
  /\ f.fn = "_deleteFullViewKey" => DeletionEnds(s[Len(s) - 1], f)

LEMMA Removed ==
  ASSUME NEW debug, NEW s, Linked(s, debug), s # <<>>, NEW f, EndsAs(s, f)
  PROVE  /\ StackInOrder(Popped(s, f), debug)
         /\ Len(Popped(s, f)) = Len(s) - 1
         /\ \A n \in 1 .. Len(s) - 1 :
              Popped(s, f)[n].id = s[n].id /\ Popped(s, f)[n].pc = s[n].pc
<1> DEFINE N == Len(s)
           t == Popped(s, f)
           K == N - 1
<1>1. N \in Nat /\ N > 0 /\ N \in 1 .. N /\ s \in Seq(Frame)
  BY TopOf
<1>2. /\ \A n \in 1 .. N : FrameInOrder(s[n], debug)
      /\ \A n \in 1 .. K : CallInOrder(s[n], s[n + 1])
      /\ s[1].fn # "_deleteFullViewKey"
  BY <1>1 DEF Linked
<1>3. f.fn = "_deleteFullViewKey" => N > 1
  <2>1. N = 1 => f.fn # "_deleteFullViewKey"
    BY <1>2 DEF EndsAs
  <2>2. N = 1 \/ N > 1
    <3>1. N \in Nat /\ N > 0
      BY <1>1
    <3> HIDE DEF N
    <3> QED BY <3>1
  <2> QED BY <2>1, <2>2
<1>4. t \in Seq(Frame) /\ PopsFrom(s, t, f)
  BY <1>1, <1>3, PoppedParts DEF EndsAs
<1>5. /\ K \in Nat /\ K + 1 = N
      /\ \A n \in 1 .. K : n \in 1 .. N /\ n + 1 \in 1 .. N
      /\ K > 0 => K \in 1 .. K /\ 1 \in 1 .. K
  BY <1>1
<1>6. f.fn = s[N].fn /\ (f.fn = "_deleteFullViewKey" => DeletionEnds(s[K], f))
  BY DEF EndsAs
<1>7. /\ Len(t) = K
      /\ \A n \in 1 .. K :
           t[n] = IF f.fn = "_deleteFullViewKey" /\ n = K THEN Resumed(s[n], f) ELSE s[n]
  BY <1>4, Zenon DEF PopsFrom
<1> HIDE DEF N, t, K
\* A call that waits is the same but for what the deletion did.
<1>8. ASSUME NEW n \in 1 .. K
      PROVE  /\ FrameInOrder(t[n], debug) /\ t[n].id = s[n].id /\ t[n].pc = s[n].pc
             /\ t[n].fn = s[n].fn
             /\ n = K /\ t[n].pc = "deleting" /\ t[n].key => t[n].callbackThrew
             /\ n # K => t[n] = s[n]
  <2>1. FrameInOrder(s[n], debug) /\ CallInOrder(s[n], s[n + 1])
    BY <1>2, <1>5
  <2>2. CASE f.fn = "_deleteFullViewKey" /\ n = K
    <3>1. t[n] = Resumed(s[n], f)
      BY <1>7, <2>2, Zenon
    <3>2. s[n].pc = "deleting" /\ s[n].fn = "identifyAndRecoverCoin"
      BY <1>5, <1>6, <2>1, <2>2 DEF CallInOrder
    <3>3. DeletionEnds(s[n], f)
      BY <1>6, <2>2
    <3> QED BY <2>1, <2>2, <3>1, <3>2, <3>3, ResumedInOrder
  <2>3. CASE ~(f.fn = "_deleteFullViewKey" /\ n = K)
    <3>1. t[n] = s[n]
      BY <1>7, <2>3, Zenon
    <3>2. n = K => s[n].pc \in Callbacks
      BY <1>5, <1>6, <2>1, <2>3 DEF CallInOrder
    <3>3. n = K => t[n].pc # "deleting"
      BY <3>1, <3>2 DEF Callbacks
    <3> QED BY <2>1, <3>1, <3>3
  <2> QED BY <2>2, <2>3
<1>9. ASSUME NEW n \in 1 .. K - 1 PROVE CallInOrder(t[n], t[n + 1])
  <2>1. n \in 1 .. K /\ n + 1 \in 1 .. K /\ n # K
    BY <1>5
  <2>2. t[n] = s[n] /\ t[n + 1].fn = s[n + 1].fn /\ t[n + 1].pc = s[n + 1].pc
    BY <1>8, <2>1
  <2>3. CallInOrder(s[n], s[n + 1])
    BY <1>2, <2>1
  <2> QED BY <2>2, <2>3 DEF CallInOrder
<1>10. K > 0 => t[1].fn # "_deleteFullViewKey"
  BY <1>2, <1>5, <1>8
<1>11. K > 0 => (t[K].pc = "deleting" /\ t[K].key => t[K].callbackThrew)
  BY <1>5, <1>8
<1>12. StackInOrder(t, debug)
  BY <1>4, <1>7, <1>8, <1>9, <1>10, <1>11 DEF StackInOrder, Linked, DeletedOrThrew
<1> QED BY <1>7, <1>8, <1>12 DEF t, N, K

-----------------------------------------------------------------------------
(***************************************************************************)
(* Steps that log nothing.                                                 *)
(***************************************************************************)

\* The calls of t are those of s, or have no id.
SameIds(s, t) ==
  \A n \in 1 .. Len(t) :
    \/ t[n].id = 0
    \/ /\ n \in 1 .. Len(s) /\ t[n].id = s[n].id
       /\ t[n].pc # "in_END" => s[n].pc # "in_END"

\* A step that leaves the levels, the ids and the log alone, keeps the stack
\* in order, and ends at most one call.
Quiet(s, t, debug) == StackInOrder(t, debug) /\ SameIds(s, t)

LEMMA QuietStep ==
  ASSUME LogInv, UNCHANGED <<levels, nextId, log>>, Quiet(stack, stack', enableDebugLogging),
         \A f \in ended' : EndInOrder(f, enableDebugLogging)
  PROVE  LogInv'
<1>1. enableDebugLogging' <=> enableDebugLogging
  BY DEF enableDebugLogging
<1>2. CallsInv'
  <2>1. StackInOrder(stack', enableDebugLogging) /\ levels \in Levels /\ nextId \in Nat \ {0}
    BY DEF LogInv, CallsInv, Quiet
  <2> QED BY <2>1 DEF CallsInv, enableDebugLogging
<1> DEFINE s == stack
           t == stack'
           l == log
<1>3. SameIds(s, t)
  BY DEF Quiet
<1>4. \A n \in 1 .. Len(s) : s[n] \in Frame
  BY DEF LogInv, CallsInv, StackInOrder, Linked, FrameInOrder
<1>5. nextId \in Nat /\ nextId > 0
  BY DEF LogInv, CallsInv
<1>6. ASSUME NEW n \in 1 .. Len(t) PROVE OpenInOrder(l, t[n]) /\ t[n].id < nextId
  <2>1. CASE t[n].id = 0
    BY <1>5, <2>1 DEF OpenInOrder
  <2>2. CASE t[n].id # 0
    <3>1. /\ n \in 1 .. Len(s) /\ t[n].id = s[n].id
          /\ t[n].pc # "in_END" => s[n].pc # "in_END"
      BY <1>3, <2>2 DEF SameIds
    <3>2. OpenInOrder(l, s[n]) /\ s[n].id < nextId
      BY <3>1 DEF LogInv, LogInOrder
    <3> QED BY <3>1, <3>2, Zenon DEF OpenInOrder
  <2> QED BY <2>1, <2>2
<1>7. ASSUME NEW m \in 1 .. Len(t), NEW n \in 1 .. Len(t), m < n, t[n].id # 0
      PROVE  t[m].id < t[n].id
  <2>1. n \in 1 .. Len(s) /\ t[n].id = s[n].id
    BY <1>3, <1>7 DEF SameIds
  <2>2. s[n].id \in Nat
    BY <1>4, <2>1 DEF Frame
  <2>3. CASE t[m].id = 0
    BY <1>7, <2>1, <2>2, <2>3
  <2>4. CASE t[m].id # 0
    <3>1. m \in 1 .. Len(s) /\ t[m].id = s[m].id
      BY <1>3, <2>4 DEF SameIds
    <3> QED BY <1>7, <2>1, <3>1 DEF LogInv, LogInOrder
  <2> QED BY <2>3, <2>4
<1>8. BeginsInOrder(log, nextId)' /\ EndsInOrder(log)'
  BY DEF LogInv, LogInOrder, BeginsInOrder, EndsInOrder, Closes
<1>9. LogInOrder'
  <2>1. \A n \in 1 .. Len(stack') : OpenInOrder(log', stack'[n]) /\ stack'[n].id < nextId'
    BY <1>6
  <2>2. \A m, n \in 1 .. Len(stack') :
          m < n /\ stack'[n].id # 0 => stack'[m].id < stack'[n].id
    BY <1>7
  <2> QED BY <1>8, <2>1, <2>2 DEF LogInOrder
<1> QED BY <1>2, <1>9 DEF LogInv

\* The innermost call f goes on as g, or ends.
GoesOnQuietly(f, g, debug) ==
  /\ FrameInOrder(g, debug) /\ GoesOn(f, g)
  /\ g.id = f.id /\ (g.pc # "in_END" => f.pc # "in_END")

LEMMA BecomeQuiet ==
  ASSUME LogInv, stack # <<>>, NEW g, GoesOnQuietly(Top, g, enableDebugLogging),
         Become(g), UNCHANGED <<levels, nextId, log>>
  PROVE  LogInv'
<1> DEFINE s == stack
           N == Len(s)
           t == [s EXCEPT ![N] = g]
<1>1. StackInOrder(s, enableDebugLogging)
  BY DEF LogInv, CallsInv
<1>2. StackInOrder(t, enableDebugLogging) /\ ReplacesTop(s, g, t)
  <2>1. FrameInOrder(g, enableDebugLogging) /\ GoesOn(s[N], g)
    BY DEF GoesOnQuietly, Top
  <2> QED BY <1>1, <2>1, Replaced
<1>3. N \in Nat /\ N > 0
  BY <1>1, TopOf DEF StackInOrder
<1>4. stack' = t /\ ended' = {}
  BY DEF Become
<1>5. g.id = s[N].id /\ (g.pc # "in_END" => s[N].pc # "in_END")
  BY DEF GoesOnQuietly, Top
<1> HIDE DEF N, s, t
<1>6. \A n \in 1 .. N : n = N \/ n \in 1 .. N - 1
  BY <1>3
<1>7. SameIds(s, t)
  BY <1>2, <1>5, <1>6 DEF SameIds, ReplacesTop, N
<1> QED BY <1>2, <1>4, <1>7, QuietStep DEF Quiet, s

LEMMA LeaveQuiet ==
  ASSUME LogInv, stack # <<>>, NEW f, EndsAs(stack, f), EndInOrder(f, enableDebugLogging),
         Leave(f), UNCHANGED <<levels, nextId, log>>
  PROVE  LogInv'
<1> DEFINE s == stack
           N == Len(s)
           t == Popped(s, f)
<1>1. StackInOrder(s, enableDebugLogging)
  BY DEF LogInv, CallsInv
<1>2. /\ StackInOrder(t, enableDebugLogging) /\ Len(t) = N - 1
      /\ \A n \in 1 .. N - 1 : t[n].id = s[n].id /\ t[n].pc = s[n].pc
  BY <1>1, Removed DEF StackInOrder
<1>3. N \in Nat /\ N > 0
  BY <1>1, TopOf DEF StackInOrder
<1>4. stack' = t /\ ended' = {f}
  BY Zenon DEF Leave, Popped
<1> HIDE DEF N, s, t
<1>5. \A n \in 1 .. N - 1 : n \in 1 .. N
  BY <1>3
<1>6. SameIds(s, t)
  BY <1>2, <1>5 DEF SameIds, N
<1> QED BY <1>2, <1>4, <1>6, QuietStep DEF Quiet, s

LEMMA Innermost ==
  ASSUME LogInv, stack # <<>>
  PROVE  FrameInOrder(Top, enableDebugLogging) /\ Top \in Frame
BY TopOf DEF LogInv, CallsInv, StackInOrder, FrameInOrder, Top

\* g is f elsewhere, holding h and about to throw w.
MovedTo(f, g, point, h, w) ==
  /\ g \in Frame /\ g.fn = f.fn /\ g.id = f.id /\ g.key = f.key /\ g.warned = f.warned
  /\ g.callbackThrew = f.callbackThrew /\ g.pc = point /\ g.held = h /\ g.threw = w

\* The native function returns.
LEMMA NativeMove ==
  ASSUME NEW debug, NEW f, FrameInOrder(f, debug), NEW g, f.pc = "call",
         f.fn # "_deleteFullViewKey", NEW point \in {"read", "warning", "take", "unwind"},
         NEW h, NEW w \in {"no", "error", f.threw}, MovedTo(f, g, point, h, w),
         point = "unwind" => h = f.held,
         point = "warning" => f.fn = "validateAddress"
  PROVE  GoesOnQuietly(f, g, debug)
<1>1. MemoryInOrder(g)
  BY DEF MovedTo, FrameInOrder, MemoryInOrder, Holding
<1>2. PlaceInOrder(g)
  BY DEF MovedTo, FrameInOrder, PlaceInOrder
<1>3. StartInOrder(g, debug)
  BY DEF MovedTo, FrameInOrder, StartInOrder, Callbacks
<1>4. GoesOn(f, g) /\ g.id = f.id /\ (g.pc # "in_END" => f.pc # "in_END") /\ g \in Frame
  BY DEF MovedTo, GoesOn
<1> QED BY <1>1, <1>2, <1>3, <1>4 DEF GoesOnQuietly, FrameInOrder

\* The BEGIN is not logged.
LEMMA BeginMove ==
  ASSUME NEW debug, NEW f, FrameInOrder(f, debug), NEW g, f.pc = "begin", debug = FALSE,
         MovedTo(f, g, "call", f.held, f.threw)
  PROVE  GoesOnQuietly(f, g, debug)
<1>1. MemoryInOrder(g)
  BY DEF MovedTo, FrameInOrder, MemoryInOrder, Holding
<1>2. PlaceInOrder(g)
  BY DEF MovedTo, FrameInOrder, PlaceInOrder
<1>3. StartInOrder(g, debug)
  BY DEF MovedTo, FrameInOrder, StartInOrder, Callbacks
<1>4. GoesOn(f, g) /\ g.id = f.id /\ (g.pc # "in_END" => f.pc # "in_END") /\ g \in Frame
  BY DEF MovedTo, GoesOn
<1> QED BY <1>1, <1>2, <1>3, <1>4 DEF GoesOnQuietly, FrameInOrder

\* The key does not open.
LEMMA NoKeyMove ==
  ASSUME NEW debug, NEW f, FrameInOrder(f, debug), NEW g, f.pc = "open", NEW n \in {0, 1},
         MovedTo(f, g, "take", n, "error")
  PROVE  GoesOnQuietly(f, g, debug)
<1>1. MemoryInOrder(g)
  BY DEF MovedTo, FrameInOrder, MemoryInOrder, Holding
<1>2. PlaceInOrder(g)
  BY DEF MovedTo, FrameInOrder, PlaceInOrder
<1>3. StartInOrder(g, debug)
  BY DEF MovedTo, FrameInOrder, StartInOrder, Callbacks
<1>4. GoesOn(f, g) /\ g.id = f.id /\ (g.pc # "in_END" => f.pc # "in_END") /\ g \in Frame
  BY DEF MovedTo, GoesOn
<1> QED BY <1>1, <1>2, <1>3, <1>4 DEF GoesOnQuietly, FrameInOrder

\* The result is read.
LEMMA ReadMove ==
  ASSUME NEW debug, NEW f, FrameInOrder(f, debug), NEW g, f.pc = "read", NEW w \in {"no", "error"},
         MovedTo(f, g, "free", f.held, w)
  PROVE  GoesOnQuietly(f, g, debug)
<1>1. MemoryInOrder(g)
  BY DEF MovedTo, FrameInOrder, MemoryInOrder, Holding
<1>2. PlaceInOrder(g)
  BY DEF MovedTo, FrameInOrder, PlaceInOrder
<1>3. StartInOrder(g, debug)
  BY DEF MovedTo, FrameInOrder, StartInOrder, Callbacks
<1>4. GoesOn(f, g) /\ g.id = f.id /\ (g.pc # "in_END" => f.pc # "in_END") /\ g \in Frame
  BY DEF MovedTo, GoesOn
<1> QED BY <1>1, <1>2, <1>3, <1>4 DEF GoesOnQuietly, FrameInOrder

\* A block is freed without a callback, ...
LEMMA FreeMove ==
  ASSUME NEW debug, NEW f, FrameInOrder(f, debug), NEW g, f.pc \in {"take", "free"}, NEW h \in Nat,
         MovedTo(f, g, f.pc, h, f.threw)
  PROVE  GoesOnQuietly(f, g, debug)
<1>1. MemoryInOrder(g)
  BY DEF MovedTo, FrameInOrder, MemoryInOrder, Holding
<1>2. PlaceInOrder(g)
  BY DEF MovedTo, FrameInOrder, PlaceInOrder
<1>3. StartInOrder(g, debug)
  BY DEF MovedTo, FrameInOrder, StartInOrder, Callbacks
<1>4. GoesOn(f, g) /\ g.id = f.id /\ (g.pc # "in_END" => f.pc # "in_END") /\ g \in Frame
  BY DEF MovedTo, GoesOn
<1> QED BY <1>1, <1>2, <1>3, <1>4 DEF GoesOnQuietly, FrameInOrder

\* ... or with one, ...
FreeIsLogged(f, point, debug) ==
  /\ debug /\ f.held > 0
  /\ \/ f.pc = "take" /\ point = "in_take"
     \/ f.pc = "free" /\ point = "in_free"

LEMMA FreeCallMove ==
  ASSUME NEW debug, NEW f, FrameInOrder(f, debug), NEW g, NEW point,
         FreeIsLogged(f, point, debug), MovedTo(f, g, point, f.held, f.threw)
  PROVE  GoesOnQuietly(f, g, debug)
<1>1. MemoryInOrder(g)
  BY DEF FreeIsLogged, MovedTo, FrameInOrder, MemoryInOrder, Holding
<1>2. PlaceInOrder(g)
  BY DEF FreeIsLogged, MovedTo, FrameInOrder, PlaceInOrder
<1>3. StartInOrder(g, debug)
  BY DEF FreeIsLogged, MovedTo, FrameInOrder, StartInOrder, Callbacks
<1>4. GoesOn(f, g) /\ g.id = f.id /\ (g.pc # "in_END" => f.pc # "in_END") /\ g \in Frame
  BY DEF FreeIsLogged, MovedTo, GoesOn
<1> QED BY <1>1, <1>2, <1>3, <1>4 DEF GoesOnQuietly, FrameInOrder

\* ... and there are no more.
LEMMA FreedMove ==
  ASSUME NEW debug, NEW f, FrameInOrder(f, debug), NEW g, f.pc \in {"take", "free"}, f.held = 0,
         NEW point \in {"warning", "unwind"}, MovedTo(f, g, point, f.held, f.threw),
         point = "warning" => f.pc = "take" /\ f.fn = "validateAddress"
  PROVE  GoesOnQuietly(f, g, debug)
<1>1. MemoryInOrder(g)
  <2>1. g.held = 0 /\ ~(0 > 0)
    BY DEF MovedTo
  <2>2. ~(g.held > 0)
    BY <2>1
  <2> QED BY <2>2 DEF MovedTo, FrameInOrder, MemoryInOrder
<1>2. PlaceInOrder(g)
  BY DEF MovedTo, FrameInOrder, PlaceInOrder
<1>3. StartInOrder(g, debug)
  BY DEF MovedTo, FrameInOrder, StartInOrder, Callbacks
<1>4. GoesOn(f, g) /\ g.id = f.id /\ (g.pc # "in_END" => f.pc # "in_END") /\ g \in Frame
  BY DEF MovedTo, GoesOn, FrameInOrder, PlaceInOrder
<1> QED BY <1>1, <1>2, <1>3, <1>4 DEF GoesOnQuietly, FrameInOrder

\* The outer finally block is left.
LEMMA EndMove ==
  ASSUME NEW debug, NEW f, FrameInOrder(f, debug), NEW g, f.pc = "unwind", f.fn # "identifyAndRecoverCoin",
         MovedTo(f, g, "end", f.held, f.threw)
  PROVE  GoesOnQuietly(f, g, debug)
<1>1. MemoryInOrder(g)
  BY DEF MovedTo, FrameInOrder, MemoryInOrder, Holding
<1>2. PlaceInOrder(g)
  BY DEF MovedTo, FrameInOrder, PlaceInOrder
<1>3. StartInOrder(g, debug)
  BY DEF MovedTo, FrameInOrder, StartInOrder, Callbacks
<1>4. GoesOn(f, g) /\ g.id = f.id /\ (g.pc # "in_END" => f.pc # "in_END") /\ g \in Frame
  BY DEF MovedTo, GoesOn
<1> QED BY <1>1, <1>2, <1>3, <1>4 DEF GoesOnQuietly, FrameInOrder

\* A callback returns, ...
GoesBack(f, point) ==
  \/ f.pc = "in_BEGIN" /\ point = "call"
  \/ f.pc = "in_warning" /\ point = "free"

LEMMA BackMove ==
  ASSUME NEW debug, NEW f, FrameInOrder(f, debug), NEW g, NEW point, GoesBack(f, point),
         MovedTo(f, g, point, f.held, f.threw)
  PROVE  GoesOnQuietly(f, g, debug)
<1>1. MemoryInOrder(g)
  BY DEF GoesBack, MovedTo, FrameInOrder, MemoryInOrder, Holding
<1>2. PlaceInOrder(g)
  BY DEF GoesBack, MovedTo, FrameInOrder, PlaceInOrder
<1>3. StartInOrder(g, debug)
  BY DEF GoesBack, MovedTo, FrameInOrder, StartInOrder, Callbacks
<1>4. GoesOn(f, g) /\ g.id = f.id /\ (g.pc # "in_END" => f.pc # "in_END") /\ g \in Frame
  BY DEF GoesBack, MovedTo, GoesOn
<1> QED BY <1>1, <1>2, <1>3, <1>4 DEF GoesOnQuietly, FrameInOrder

\* ... and a block is freed after it.
GoesBackToFree(f, point) ==
  \/ f.pc = "in_take" /\ point = "take"
  \/ f.pc = "in_free" /\ point = "free"

LEMMA BackFreedMove ==
  ASSUME NEW debug, NEW f, FrameInOrder(f, debug), NEW g, NEW point, GoesBackToFree(f, point),
         MovedTo(f, g, point, f.held - 1, f.threw)
  PROVE  GoesOnQuietly(f, g, debug)
<1>1. MemoryInOrder(g)
  BY DEF GoesBackToFree, MovedTo, FrameInOrder, MemoryInOrder, Holding
<1>2. PlaceInOrder(g)
  BY DEF GoesBackToFree, MovedTo, FrameInOrder, PlaceInOrder
<1>3. StartInOrder(g, debug)
  BY DEF GoesBackToFree, MovedTo, FrameInOrder, StartInOrder, Callbacks
<1>4. GoesOn(f, g) /\ g.id = f.id /\ (g.pc # "in_END" => f.pc # "in_END") /\ g \in Frame
  BY DEF GoesBackToFree, MovedTo, GoesOn
<1> QED BY <1>1, <1>2, <1>3, <1>4 DEF GoesOnQuietly, FrameInOrder

\* The innermost call is at a point.
LEMMA AtPoint ==
  ASSUME LogInv, NEW point, At(point)
  PROVE  /\ stack # <<>> /\ FrameInOrder(Top, enableDebugLogging) /\ Top \in Frame
         /\ Top.pc = point
BY Innermost DEF At

LEMMA OpenKeyKeeps ==
  ASSUME LogInv, OpenKey
  PROVE  LogInv'
<1> DEFINE f == Top
           debug == enableDebugLogging
<1>1. stack # <<>> /\ FrameInOrder(f, debug) /\ f \in Frame /\ f.pc = "open"
  BY AtPoint DEF OpenKey
<1>2. UNCHANGED <<levels, nextId, log>>
  BY DEF OpenKey
<1>3. CASE Become([f EXCEPT !.pc = "call", !.key = TRUE])
  <2> DEFINE g == [f EXCEPT !.pc = "call", !.key = TRUE]
  <2>1. /\ g \in Frame /\ g.fn = f.fn /\ g.id = f.id /\ g.key = TRUE /\ g.warned = f.warned
        /\ g.callbackThrew = f.callbackThrew /\ g.pc = "call" /\ g.held = f.held
        /\ g.threw = f.threw
    BY <1>1, Zenon DEF Frame, Points
  <2> HIDE DEF g, f, debug
  <2>2. MemoryInOrder(g)
    BY <1>1, <2>1 DEF FrameInOrder, MemoryInOrder, PlaceInOrder, Holding
  <2>3. PlaceInOrder(g)
    BY <1>1, <2>1 DEF FrameInOrder, PlaceInOrder
  <2>4. StartInOrder(g, debug)
    BY <1>1, <2>1 DEF FrameInOrder, StartInOrder, PlaceInOrder
  <2>5. GoesOn(f, g) /\ g.id = f.id /\ (g.pc # "in_END" => f.pc # "in_END")
    BY <1>1, <2>1 DEF GoesOn
  <2>6. GoesOnQuietly(f, g, debug)
    BY <2>1, <2>2, <2>3, <2>4, <2>5 DEF GoesOnQuietly, FrameInOrder
  <2> QED BY <1>1, <1>2, <1>3, <2>6, BecomeQuiet DEF f, debug, g
<1>4. ASSUME NEW n \in {0, 1},
             Become([f EXCEPT !.pc = "take", !.held = n, !.threw = "error"])
      PROVE  LogInv'
  <2> DEFINE g == [f EXCEPT !.pc = "take", !.held = n, !.threw = "error"]
  <2>1. n \in Nat
    BY <1>4
  <2>2. MovedTo(f, g, "take", n, "error")
    BY <1>1, <2>1, Zenon DEF MovedTo, Frame, Points
  <2> HIDE DEF g
  <2>3. GoesOnQuietly(f, g, debug)
    BY <1>1, <2>2, NoKeyMove
  <2> QED BY <1>1, <1>2, <1>4, <2>3, BecomeQuiet DEF g
<1> QED BY <1>3, <1>4 DEF OpenKey

LEMMA ReadKeeps ==
  ASSUME LogInv, Read
  PROVE  LogInv'
<1> DEFINE f == Top
           debug == enableDebugLogging
<1>1. stack # <<>> /\ FrameInOrder(f, debug) /\ f \in Frame /\ f.pc = "read"
  BY AtPoint DEF Read
<1>2. UNCHANGED <<levels, nextId, log>>
  BY DEF Read
<1>3. PICK w \in {"no", "error"} : Become([f EXCEPT !.pc = "free", !.threw = w])
  BY Zenon DEF Read, AfterRead
<1> DEFINE g == [f EXCEPT !.pc = "free", !.threw = w]
<1>4. MovedTo(f, g, "free", f.held, w)
  BY <1>1, Zenon DEF MovedTo, Frame, Points
<1> HIDE DEF g
<1>5. GoesOnQuietly(f, g, debug)
  BY <1>1, <1>4, ReadMove
<1> QED BY <1>1, <1>2, <1>3, <1>5, BecomeQuiet DEF g

LEMMA WarnKeeps ==
  ASSUME LogInv, Warn
  PROVE  LogInv'
<1> DEFINE f == Top
           debug == enableDebugLogging
           on == "warning" \in levels
           point == IF on THEN "in_warning" ELSE "free"
           g == [LogOr("warning", "in_warning", [f EXCEPT !.pc = "free"])
                   EXCEPT !.warned = on]
<1>1. stack # <<>> /\ FrameInOrder(f, debug) /\ f \in Frame /\ f.pc = "warning"
  BY AtPoint DEF Warn
<1>2. UNCHANGED <<levels, nextId, log>> /\ Become(g)
  BY Zenon DEF Warn
<1>3. g = [[f EXCEPT !.pc = point] EXCEPT !.warned = on]
  BY Zenon DEF LogOr
<1>4. on \in BOOLEAN /\ point \in Points
  BY DEF Points, Callbacks
<1>5. /\ g \in Frame /\ g.fn = f.fn /\ g.id = f.id /\ g.key = f.key /\ g.warned = on
      /\ g.callbackThrew = f.callbackThrew /\ g.pc = point /\ g.held = f.held
      /\ g.threw = f.threw
  <2> HIDE DEF g, on, point
  <2> QED BY <1>1, <1>3, <1>4, Zenon DEF Frame
<1> HIDE DEF g, f, debug
<1>6. MemoryInOrder(g)
  BY <1>1, <1>5 DEF FrameInOrder, MemoryInOrder, PlaceInOrder, Holding
<1>7. PlaceInOrder(g)
  BY <1>1, <1>5 DEF FrameInOrder, PlaceInOrder
<1>8. StartInOrder(g, debug)
  <2>1. f.fn = "validateAddress" /\ ~f.warned
    BY <1>1 DEF FrameInOrder, PlaceInOrder, StartInOrder
  <2>2. CASE on
    BY <1>1, <1>5, <2>1, <2>2 DEF FrameInOrder, StartInOrder
  <2>3. CASE ~on
    BY <1>1, <1>5, <2>1, <2>3 DEF FrameInOrder, StartInOrder, Callbacks
  <2> QED BY <2>2, <2>3
<1>9. GoesOn(f, g) /\ g.id = f.id /\ (g.pc # "in_END" => f.pc # "in_END")
  BY <1>1, <1>5 DEF GoesOn
<1>10. GoesOnQuietly(f, g, debug)
  BY <1>5, <1>6, <1>7, <1>8, <1>9 DEF GoesOnQuietly, FrameInOrder
<1> QED BY <1>1, <1>2, <1>10, BecomeQuiet DEF f, debug

LEMMA NativeCallKeeps ==
  ASSUME LogInv, NativeCall
  PROVE  LogInv'
<1> DEFINE f == Top
           debug == enableDebugLogging
<1>1. /\ stack # <<>> /\ FrameInOrder(f, debug) /\ f \in Frame /\ f.pc = "call"
      /\ f.fn # "_deleteFullViewKey"
  BY AtPoint DEF NativeCall
<1>2. UNCHANGED <<levels, nextId, log>>
  BY DEF NativeCall
<1>3. ASSUME NEW point \in {"read", "warning", "take", "unwind"}, NEW h,
             NEW w \in {"no", "error", f.threw}, NEW g, MovedTo(f, g, point, h, w), Become(g),
             point = "unwind" => h = f.held, point = "warning" => f.fn = "validateAddress"
      PROVE  LogInv'
  <2>1. GoesOnQuietly(f, g, debug)
    BY <1>1, <1>3, NativeMove
  <2> QED BY <1>1, <1>2, <1>3, <2>1, BecomeQuiet
<1>4. Pieces \in Nat
  BY LoggingAssumption
<1>5. CASE Become([f EXCEPT !.pc = "read", !.held = Pieces])
  <2>1. MovedTo(f, [f EXCEPT !.pc = "read", !.held = Pieces], "read", Pieces, f.threw)
    BY <1>1, <1>4, Zenon DEF MovedTo, Frame, Points
  <2> QED BY <1>3, <1>5, <2>1
<1>6. CASE f.fn = "validateAddress" /\ Become([f EXCEPT !.pc = "warning", !.held = Pieces])
  <2>1. MovedTo(f, [f EXCEPT !.pc = "warning", !.held = Pieces], "warning", Pieces, f.threw)
    BY <1>1, <1>4, Zenon DEF MovedTo, Frame, Points
  <2> QED BY <1>3, <1>6, <2>1
<1>7. ASSUME NEW n \in {0, 1}, NEW w \in {"no", "error"},
             Become([f EXCEPT !.pc = "take", !.held = n, !.threw = w])
      PROVE  LogInv'
  <2>1. n \in Nat
    BY <1>7
  <2>2. MovedTo(f, [f EXCEPT !.pc = "take", !.held = n, !.threw = w], "take", n, w)
    BY <1>1, <2>1, Zenon DEF MovedTo, Frame, Points
  <2> QED BY <1>3, <1>7, <2>2
<1>8. ASSUME NEW w \in {"no", "error"}, Become([f EXCEPT !.pc = "unwind", !.threw = w])
      PROVE  LogInv'
  <2>1. MovedTo(f, [f EXCEPT !.pc = "unwind", !.threw = w], "unwind", f.held, w)
    BY <1>1, Zenon DEF MovedTo, Frame, Points
  <2> QED BY <1>3, <1>8, <2>1
<1>9. /\ \A n : (IF \/ f.fn = "validateAddress"
                    \/ f.fn = "identifyAndRecoverCoin" /\ n = 0
                 THEN "no" ELSE "error") \in {"no", "error"}
      /\ (IF f.fn = "validateAddress" THEN "no" ELSE "error") \in {"no", "error"}
  BY Zenon
<1> HIDE DEF f
<1> QED BY <1>5, <1>6, <1>7, <1>8, <1>9, Zenon DEF NativeCall, f

LEMMA FreeNativeKeeps ==
  ASSUME LogInv, FreeNative
  PROVE  LogInv'
<1> DEFINE f == Top
           debug == enableDebugLogging
<1>1. /\ stack # <<>> /\ FrameInOrder(f, debug) /\ f \in Frame /\ f.pc \in {"take", "free"}
  BY AtPoint DEF FreeNative
<1>2. UNCHANGED <<levels, nextId, log>>
  BY DEF FreeNative
<1>3. ASSUME NEW g, GoesOnQuietly(f, g, debug), Become(g) PROVE LogInv'
  BY <1>1, <1>2, <1>3, BecomeQuiet
<1>4. ASSUME NEW c, c = (IF f.pc = "take" THEN "in_take" ELSE "in_free"), f.held > 0,
             Become(LogOr(FreeLevel, c, [f EXCEPT !.held = @ - 1]))
      PROVE  LogInv'
  <2>1. CASE debug
    <3> DEFINE g == [f EXCEPT !.pc = c]
    <3>1. LogOr(FreeLevel, c, [f EXCEPT !.held = @ - 1]) = g
      BY <2>1, Zenon DEF LogOr, FreeLevel, enableDebugLogging
    <3>2. c \in Points
      BY <1>4 DEF Points, Callbacks
    <3>3. MovedTo(f, g, c, f.held, f.threw)
      BY <1>1, <3>2, Zenon DEF MovedTo, Frame
    <3> HIDE DEF g
    <3>4. FreeIsLogged(f, c, debug)
      <4>1. \/ f.pc = "take" /\ c = "in_take"
            \/ f.pc = "free" /\ c = "in_free"
        BY <1>1, <1>4, Zenon
      <4> QED BY <1>4, <2>1, <4>1, Zenon DEF FreeIsLogged
    <3>5. GoesOnQuietly(f, g, debug)
      BY <1>1, <3>3, <3>4, FreeCallMove
    <3> QED BY <1>3, <1>4, <3>1, <3>5
  <2>2. CASE ~debug
    <3> DEFINE g == [f EXCEPT !.held = @ - 1]
    <3>1. LogOr(FreeLevel, c, [f EXCEPT !.held = @ - 1]) = g
      BY <2>2, Zenon DEF LogOr, FreeLevel, enableDebugLogging
    <3>2. f.held \in Nat /\ f.held - 1 \in Nat
      <4>1. f.held \in Nat /\ f.held > 0
        BY <1>1, <1>4, Zenon DEF Frame
      <4> HIDE DEF f
      <4> QED BY <4>1
    <3>3. MovedTo(f, g, f.pc, f.held - 1, f.threw)
      BY <1>1, <3>2, Zenon DEF MovedTo, Frame
    <3> HIDE DEF g
    <3>4. GoesOnQuietly(f, g, debug)
      BY <1>1, <3>2, <3>3, FreeMove
    <3> QED BY <1>3, <1>4, <3>1, <3>4
  <2> QED BY <2>1, <2>2
<1>5. ASSUME NEW point, f.held = 0, Become([f EXCEPT !.pc = point]),
             \/ f.pc = "take" /\ f.fn = "validateAddress" /\ point = "warning"
             \/ point = "unwind"
      PROVE  LogInv'
  <2> DEFINE g == [f EXCEPT !.pc = point]
  <2>1. point \in {"warning", "unwind"} /\ point \in Points
    BY <1>5 DEF Points
  <2>2. MovedTo(f, g, point, f.held, f.threw)
    BY <1>1, <2>1, Zenon DEF MovedTo, Frame
  <2> HIDE DEF g
  <2>3. GoesOnQuietly(f, g, debug)
    BY <1>1, <1>5, <2>1, <2>2, FreedMove
  <2> QED BY <1>3, <1>5, <2>3 DEF g
<1>6. CASE At("take") /\ f.held > 0
           /\ Become(LogOr(FreeLevel, "in_take", [f EXCEPT !.held = @ - 1]))
  BY <1>4, <1>6 DEF At
<1>7. CASE At("free") /\ f.held > 0
           /\ Become(LogOr(FreeLevel, "in_free", [f EXCEPT !.held = @ - 1]))
  BY <1>4, <1>7 DEF At
<1>8. CASE At("take") /\ f.held = 0
           /\ Become([f EXCEPT !.pc = IF f.fn = "validateAddress" THEN "warning" ELSE "unwind"])
  <2>1. f.pc = "take"
    BY <1>8 DEF At
  <2>2. CASE f.fn = "validateAddress"
    BY <1>5, <1>8, <2>1, <2>2
  <2>3. CASE f.fn # "validateAddress"
    BY <1>5, <1>8, <2>1, <2>3
  <2> QED BY <2>2, <2>3
<1>9. CASE At("free") /\ f.held = 0 /\ Become([f EXCEPT !.pc = "unwind"])
  BY <1>5, <1>9
<1> QED BY <1>6, <1>7, <1>8, <1>9, Zenon DEF FreeNative

LEMMA NewInOrder ==
  ASSUME NEW debug, NEW w \in Wrappers \cup {"_deleteFullViewKey"}
  PROVE  /\ FrameInOrder(NewFrame(w), debug)
         /\ NewFrame(w).id = 0 /\ NewFrame(w).fn = w /\ NewFrame(w).pc \in {"open", "begin"}
<1> DEFINE point == IF w = "identifyAndRecoverCoin" THEN "open" ELSE "begin"
           g == NewFrame(w)
<1>1. point \in Points
  BY DEF Points
<1>2. /\ g \in Frame /\ g.fn = w /\ g.pc = point /\ g.id = 0 /\ g.held = 0 /\ g.key = FALSE
      /\ g.threw = "no" /\ g.warned = FALSE /\ g.callbackThrew = FALSE
  <2>1. g = [fn |-> w, pc |-> point, id |-> 0, held |-> 0, key |-> FALSE, threw |-> "no",
             warned |-> FALSE, callbackThrew |-> FALSE]
    BY Zenon DEF NewFrame
  <2>2. 0 \in Nat
    OBVIOUS
  <2> HIDE DEF g, point
  <2> QED BY <1>1, <2>1, <2>2, Zenon DEF Frame
<1> HIDE DEF g
<1>3. MemoryInOrder(g)
  BY <1>2 DEF MemoryInOrder
<1>4. PlaceInOrder(g)
  BY <1>2 DEF PlaceInOrder
<1>5. StartInOrder(g, debug)
  BY <1>2 DEF StartInOrder
<1>6. g.pc \in {"open", "begin"}
  BY <1>2, Zenon
<1> QED BY <1>2, <1>3, <1>4, <1>5, <1>6 DEF FrameInOrder, g

\* A call is added to calls that have the ids of s.
Adds(s, t) ==
  /\ Len(t) = Len(s) + 1 /\ t[Len(s) + 1].id = 0
  /\ \A n \in 1 .. Len(s) :
       t[n].id = s[n].id /\ (t[n].pc # "in_END" => s[n].pc # "in_END")

LEMMA PushKeepsIds ==
  ASSUME NEW s \in Seq(Frame), NEW t, Adds(s, t)
  PROVE  SameIds(s, t)
<1> DEFINE N == Len(s)
<1>1. N \in Nat
  BY LenProperties
<1> HIDE DEF N
<1>2. \A n \in 1 .. N + 1 : n = N + 1 \/ n \in 1 .. N
  BY <1>1
<1> QED BY <1>2 DEF Adds, SameIds, N

LEMMA CallFunctionKeeps ==
  ASSUME LogInv, NEW w \in Wrappers, CallFunction(w)
  PROVE  LogInv'
<1> DEFINE s == stack
           g == NewFrame(w)
           t == Append(s, g)
           debug == enableDebugLogging
<1>1. FrameInOrder(g, debug) /\ g.id = 0 /\ g.fn = w /\ g.pc \in {"open", "begin"}
  BY NewInOrder
<1>2. w # "_deleteFullViewKey"
  BY DEF Wrappers
<1>3. Linked(s, debug) /\ s \in Seq(Frame)
  BY DEF LogInv, CallsInv, StackInOrder, Linked
<1>4. s # <<>> => CallInOrder(s[Len(s)], g)
  <2> HIDE DEF g
  <2> QED BY <1>1, <1>2 DEF CallFunction, ApplicationRuns, Top, CallInOrder
<1>5. /\ StackInOrder(t, debug) /\ Len(t) = Len(s) + 1 /\ t[Len(s) + 1] = g
      /\ \A n \in 1 .. Len(s) : t[n] = s[n]
  <2> HIDE DEF g, debug
  <2> QED BY <1>1, <1>2, <1>3, <1>4, Pushed
<1>6. stack' = t /\ ended' = {} /\ UNCHANGED <<levels, nextId, log>>
  BY DEF CallFunction
<1> HIDE DEF t, g
<1>7. SameIds(s, t)
  BY <1>1, <1>3, <1>5, PushKeepsIds DEF Adds
<1> QED BY <1>5, <1>6, <1>7, QuietStep DEF Quiet

\* The levels change outside of every call or in a callback: every call then
\* waits, and what holds of one that waits does not depend on the levels.
LEMMA SetLevelsKeeps ==
  ASSUME LogInv, NEW L \in Levels, SetLevels(L)
  PROVE  LogInv'
<1> DEFINE s == stack
           debug == enableDebugLogging
           now == "debug" \in L
<1>1. levels' = L /\ ended' = {} /\ UNCHANGED <<stack, nextId, log>>
  BY DEF SetLevels
<1>2. enableDebugLogging' = now
  BY <1>1 DEF enableDebugLogging
<1>3. StackInOrder(s, debug) /\ s \in Seq(Frame) /\ Len(s) \in Nat
  BY LenProperties DEF LogInv, CallsInv, StackInOrder, Linked
<1>4. Len(s) > 0 => s[Len(s)].pc \in Callbacks
  BY <1>3, EmptySeq DEF SetLevels, ApplicationRuns, Top
<1>5. ASSUME NEW n \in 1 .. Len(s) PROVE FrameInOrder(s[n], now)
  <2>1. FrameInOrder(s[n], debug)
    BY <1>3 DEF StackInOrder, Linked
  <2>2. n = Len(s) \/ n \in 1 .. Len(s) - 1
    BY <1>3
  <2>3. n \in 1 .. Len(s) - 1 => CallInOrder(s[n], s[n + 1])
    BY <1>3 DEF StackInOrder, Linked
  <2>4. s[n].pc \in Callbacks \/ s[n].fn = "identifyAndRecoverCoin"
    <3>1. CASE n = Len(s)
      BY <1>3, <1>4, <3>1
    <3>2. CASE n \in 1 .. Len(s) - 1
      BY <2>3, <3>2 DEF CallInOrder
    <3> QED BY <2>2, <3>1, <3>2
  <2>5. StartInOrder(s[n], now)
    BY <2>1, <2>4 DEF FrameInOrder, StartInOrder
  <2> QED BY <2>1, <2>5 DEF FrameInOrder
<1>6. StackInOrder(s, now)
  BY <1>3, <1>5 DEF StackInOrder, Linked
<1>7. CallsInv'
  BY <1>1, <1>2, <1>6 DEF LogInv, CallsInv
<1>8. LogInOrder'
  BY <1>1 DEF LogInv, LogInOrder, BeginsInOrder, EndsInOrder, Closes, OpenInOrder
<1> QED BY <1>7, <1>8 DEF LogInv

\* A call that was at top ends as f.
EndsFrom(top, f) ==
  /\ f \in Frame /\ f.fn = top.fn
  /\ f.fn = "_deleteFullViewKey" =>
       /\ f.threw # "null_check" /\ (f.threw = "callback" => f.callbackThrew)
       /\ f.callbackThrew \/ top.pc \in {"unwind", "end", "in_END"}

LEMMA EndsInPlace ==
  ASSUME LogInv, stack # <<>>, NEW f, EndsFrom(Top, f)
  PROVE  EndsAs(stack, f)
<1> DEFINE s == stack
           N == Len(s)
<1>1. Linked(s, enableDebugLogging) /\ N \in Nat /\ N > 0
  BY TopOf DEF LogInv, CallsInv, StackInOrder
<1>2. f \in Frame /\ f.fn = s[N].fn
  BY DEF EndsFrom, Top
<1>3. ASSUME f.fn = "_deleteFullViewKey" PROVE DeletionEnds(s[N - 1], f)
  <2>1. /\ f.threw # "null_check" /\ (f.threw = "callback" => f.callbackThrew)
        /\ f.callbackThrew \/ s[N].pc \in {"unwind", "end", "in_END"}
    BY <1>3 DEF EndsFrom, Top
  <2>2. N # 1
    BY <1>1, <1>2, <1>3 DEF Linked
  <2>3. N - 1 \in 1 .. N - 1 /\ (N - 1) + 1 = N
    <3> HIDE DEF N
    <3> QED BY <1>1, <2>2
  <2>4. CallInOrder(s[N - 1], s[N])
    BY <1>1, <2>3 DEF Linked
  <2>5. s[N - 1].key => f.callbackThrew
    BY <1>2, <1>3, <2>1, <2>4 DEF CallInOrder
  <2> QED BY <1>2, <2>1, <2>5 DEF DeletionEnds
<1> QED BY <1>2, <1>3 DEF EndsAs

\* A call that is done holds nothing unless a callback threw, ...
LEMMA DoneInOrder ==
  ASSUME NEW debug, NEW f, FrameInOrder(f, debug), f.pc \in {"unwind", "end", "in_END"}, ~f.key
  PROVE  EndInOrder(f, debug) /\ EndsFrom(f, f)
BY DEF FrameInOrder, MemoryInOrder, StartInOrder, EndInOrder, EndsFrom, Holding

\* ... and has a key only while it may delete it.
LEMMA KeyIsOf ==
  ASSUME NEW debug, NEW f, FrameInOrder(f, debug), f.pc \in {"end", "in_END"}
  PROVE  ~f.key
BY DEF FrameInOrder, MemoryInOrder, PlaceInOrder

LEMMA CallbackReturnsKeeps ==
  ASSUME LogInv, CallbackReturns
  PROVE  LogInv'
<1> DEFINE f == Top
           debug == enableDebugLogging
<1>1. stack # <<>> /\ FrameInOrder(f, debug) /\ f \in Frame /\ f.pc \in Callbacks
  BY Innermost DEF CallbackReturns
<1>2. UNCHANGED <<levels, nextId, log>>
  BY DEF CallbackReturns
<1>3. CASE f.pc = "in_END"
  <2>1. Leave(f)
    BY <1>3, Zenon DEF CallbackReturns
  <2>2. EndInOrder(f, debug) /\ EndsFrom(f, f)
    BY <1>1, <1>3, KeyIsOf, DoneInOrder
  <2>3. EndsAs(stack, f)
    BY <1>1, <2>2, EndsInPlace
  <2> QED BY <1>1, <1>2, <2>1, <2>2, <2>3, LeaveQuiet
<1>4. CASE f.pc # "in_END"
  <2>1. Become(AfterCallback(f))
    BY <1>4, Zenon DEF CallbackReturns
  <2>2. \/ f.pc = "in_BEGIN" \/ f.pc = "in_warning" \/ f.pc = "in_take" \/ f.pc = "in_free"
    BY <1>1, <1>4, Zenon DEF Callbacks
  <2>3. ASSUME NEW g, GoesOnQuietly(f, g, debug), AfterCallback(f) = g PROVE LogInv'
    BY <1>1, <1>2, <2>1, <2>3, BecomeQuiet
  <2>4. CASE f.pc \in {"in_BEGIN", "in_warning"}
    <3> DEFINE point == IF f.pc = "in_BEGIN" THEN "call" ELSE "free"
               g == [f EXCEPT !.pc = point]
    <3>1. AfterCallback(f) = g
      BY <2>4, Zenon DEF AfterCallback
    <3>2. point \in Points
      BY DEF Points
    <3>3. MovedTo(f, g, point, f.held, f.threw)
      <4> HIDE DEF point
      <4> QED BY <1>1, <3>2, Zenon DEF MovedTo, Frame
    <3> HIDE DEF g
    <3>4. GoesOnQuietly(f, g, debug)
      <4>1. GoesBack(f, point)
        BY <2>4, Zenon DEF GoesBack
      <4> HIDE DEF f, debug, point
      <4> QED BY <1>1, <3>3, <4>1, BackMove
    <3> QED BY <2>3, <3>1, <3>4
  <2>5. CASE f.pc \in {"in_take", "in_free"}
    <3> DEFINE point == IF f.pc = "in_take" THEN "take" ELSE "free"
               g == [f EXCEPT !.pc = point, !.held = @ - 1]
    <3>1. AfterCallback(f) = g
      BY <2>5, Zenon DEF AfterCallback
    <3>2. point \in Points
      BY DEF Points
    <3>3. f.held \in Nat /\ f.held > 0
      <4>1. f.held \in Nat
        BY <1>1, Zenon DEF Frame
      <4>2. f.held > 0
        BY <1>1, <2>5 DEF FrameInOrder, MemoryInOrder
      <4> QED BY <4>1, <4>2
    <3>4. f.held - 1 \in Nat
      <4> HIDE DEF f
      <4> QED BY <3>3
    <3>5. MovedTo(f, g, point, f.held - 1, f.threw)
      <4> HIDE DEF point
      <4> QED BY <1>1, <3>2, <3>4, Zenon DEF MovedTo, Frame
    <3> HIDE DEF g
    <3>6. GoesOnQuietly(f, g, debug)
      <4>1. GoesBackToFree(f, point)
        BY <2>5 DEF GoesBackToFree
      <4> HIDE DEF f, debug, point
      <4> QED BY <1>1, <3>5, <4>1, BackFreedMove
    <3> QED BY <2>3, <3>1, <3>6
  <2> QED BY <2>2, <2>4, <2>5, Zenon
<1> QED BY <1>3, <1>4

\* g is f after a callback of it threw.
ThrewTo(f, g, point) ==
  /\ g \in Frame /\ g.fn = f.fn /\ g.id = f.id /\ g.key = f.key /\ g.warned = f.warned
  /\ g.held = f.held /\ g.callbackThrew = TRUE /\ g.threw = "callback" /\ g.pc = point

LEMMA ThrowMove ==
  ASSUME NEW debug, NEW f, FrameInOrder(f, debug), NEW g, NEW point, ThrewTo(f, g, point),
         \/ f.pc = "in_warning" /\ point = "free"
         \/ f.pc \in {"in_take", "in_free"} /\ point = "unwind"
  PROVE  GoesOnQuietly(f, g, debug)
<1>1. MemoryInOrder(g)
  BY DEF ThrewTo, FrameInOrder, MemoryInOrder, Holding
<1>2. PlaceInOrder(g)
  BY DEF ThrewTo, FrameInOrder, PlaceInOrder
<1>3. StartInOrder(g, debug)
  BY DEF ThrewTo, FrameInOrder, StartInOrder, Callbacks
<1>4. GoesOn(f, g) /\ g.id = f.id /\ (g.pc # "in_END" => f.pc # "in_END") /\ g \in Frame
  BY DEF ThrewTo, GoesOn, FrameInOrder, PlaceInOrder
<1> QED BY <1>1, <1>2, <1>3, <1>4 DEF GoesOnQuietly, FrameInOrder

LEMMA ThrowLeaves ==
  ASSUME NEW debug, NEW f, NEW g, NEW point, ThrewTo(f, g, point)
  PROVE  EndInOrder(g, debug) /\ EndsFrom(f, g)
BY DEF ThrewTo, EndInOrder, EndsFrom

LEMMA CallbackThrowsKeeps ==
  ASSUME LogInv, CallbackThrows
  PROVE  LogInv'
<1> DEFINE f == Top
           debug == enableDebugLogging
           g == AfterThrow(f)
<1>1. stack # <<>> /\ FrameInOrder(f, debug) /\ f \in Frame /\ f.pc \in Callbacks
  BY Innermost DEF CallbackThrows
<1>2. UNCHANGED <<levels, nextId, log>>
  BY DEF CallbackThrows
<1>3. CASE f.pc \in {"in_BEGIN", "in_END"}
  <2>1. Leave(g)
    BY <1>3, Zenon DEF CallbackThrows
  <2>2. g = [f EXCEPT !.threw = "callback", !.callbackThrew = TRUE]
    BY <1>3, Zenon DEF AfterThrow
  <2>3. ThrewTo(f, g, f.pc)
    <3> HIDE DEF g
    <3> QED BY <1>1, <2>2, Zenon DEF ThrewTo, Frame
  <2> HIDE DEF g
  <2>4. EndInOrder(g, debug) /\ EndsFrom(f, g)
    BY <2>3, ThrowLeaves
  <2>5. EndsAs(stack, g)
    BY <1>1, <2>4, EndsInPlace
  <2> QED BY <1>1, <1>2, <2>1, <2>4, <2>5, LeaveQuiet
<1>4. CASE f.pc \notin {"in_BEGIN", "in_END"}
  <2>1. Become(g)
    BY <1>4, Zenon DEF CallbackThrows
  <2>2. \/ f.pc = "in_warning" \/ f.pc = "in_take" \/ f.pc = "in_free"
    BY <1>1, <1>4, Zenon DEF Callbacks
  <2>3. PICK point \in Points :
          /\ g = [[f EXCEPT !.threw = "callback", !.callbackThrew = TRUE] EXCEPT !.pc = point]
          /\ \/ f.pc = "in_warning" /\ point = "free"
             \/ f.pc \in {"in_take", "in_free"} /\ point = "unwind"
    <3>1. "free" \in Points /\ "unwind" \in Points
      BY DEF Points
    <3>2. CASE f.pc = "in_warning"
      BY <3>1, <3>2, Zenon DEF AfterThrow
    <3>3. CASE f.pc \in {"in_take", "in_free"}
      <4>1. f.pc # "in_warning"
        BY <3>3
      <4> QED BY <3>1, <3>3, <4>1, Zenon DEF AfterThrow
    <3> QED BY <2>2, <3>2, <3>3, Zenon
  <2>4. ThrewTo(f, g, point)
    <3> HIDE DEF g
    <3> QED BY <1>1, <2>3, Zenon DEF ThrewTo, Frame
  <2> HIDE DEF g
  <2>5. GoesOnQuietly(f, g, debug)
    <3>1. \/ f.pc = "in_warning" /\ point = "free"
          \/ f.pc \in {"in_take", "in_free"} /\ point = "unwind"
      BY <2>3
    <3> HIDE DEF f, debug
    <3> QED BY <1>1, <2>4, <3>1, ThrowMove
  <2> QED BY <1>1, <1>2, <2>1, <2>5, BecomeQuiet
<1> QED BY <1>3, <1>4

\* Its key is deleted before its caller goes on: a key that is still there
\* then is one whose deletion a callback stopped.
LEMMA KeyDeletedKeeps ==
  ASSUME LogInv, KeyDeleted
  PROVE  LogInv'
<1> DEFINE f == Top
           debug == enableDebugLogging
<1>1. /\ stack # <<>> /\ FrameInOrder(f, debug) /\ f \in Frame /\ f.pc = "deleting"
  BY AtPoint DEF KeyDeleted
<1>2. Leave(f) /\ UNCHANGED <<levels, nextId, log>>
  BY DEF KeyDeleted
<1>3. DeletedOrThrew(f)
  BY <1>1, TopOf DEF LogInv, CallsInv, StackInOrder, Top
<1>4. EndInOrder(f, debug) /\ EndsFrom(f, f)
  <2> HIDE DEF f, debug
  <2> QED BY <1>1, <1>3 DEF DeletedOrThrew, FrameInOrder, MemoryInOrder, StartInOrder,
                            PlaceInOrder, EndInOrder, EndsFrom, Holding
<1>5. EndsAs(stack, f)
  BY <1>1, <1>4, EndsInPlace
<1> QED BY <1>1, <1>2, <1>4, <1>5, LeaveQuiet

\* What the deletion of the key does to the stack s.
DeletesKey(s, t) ==
  LET N == Len(s)
  IN  /\ t \in Seq(Frame) /\ Len(t) = N
      /\ t[N] = [s[N] EXCEPT !.pc = "unwind"]
      /\ t[N - 1] = [s[N - 1] EXCEPT !.key = FALSE]
      /\ \A n \in 1 .. N : n # N /\ n # N - 1 => t[n] = s[n]

LEMMA KeyDeletion ==
  ASSUME NEW s \in Seq(Frame), Len(s) > 1
  PROVE  DeletesKey(s, [s EXCEPT ![Len(s)].pc = "unwind", ![Len(s) - 1].key = FALSE])
<1> DEFINE N == Len(s)
           K == N - 1
           a == [s[N] EXCEPT !.pc = "unwind"]
           b == [s[K] EXCEPT !.key = FALSE]
           u == [s EXCEPT ![N] = a]
           t == [s EXCEPT ![N].pc = "unwind", ![K].key = FALSE]
<1>1. N \in Nat /\ N \in 1 .. N /\ K \in 1 .. N /\ K # N
  BY LenProperties
<1>2. s[N] \in Frame /\ s[K] \in Frame
  BY <1>1, ElementOfSeq
<1>3. "unwind" \in Points
  BY DEF Points
<1>4. a \in Frame /\ b \in Frame
  BY <1>2, <1>3, Zenon DEF Frame
<1>5. t = [u EXCEPT ![K] = b]
  <2>1. DOMAIN s = 1 .. N
    BY LenProperties
  <2>2. u[K] = s[K]
    BY <1>1, <2>1
  <2> HIDE DEF N, K
  <2> QED BY <1>1, <2>1, <2>2
<1> HIDE DEF a, b, t, u, N, K
<1>6. u \in Seq(Frame) /\ Len(u) = N /\ \A n \in 1 .. N : u[n] = IF n = N THEN a ELSE s[n]
  BY <1>1, <1>4, ExceptSeq DEF u, N
<1>7. /\ t \in Seq(Frame) /\ Len(t) = N
      /\ \A n \in 1 .. N : t[n] = IF n = K THEN b ELSE u[n]
  BY <1>1, <1>4, <1>5, <1>6, ExceptSeq
<1>8. t[N] = a /\ t[K] = b /\ \A n \in 1 .. N : n # N /\ n # K => t[n] = s[n]
  BY <1>1, <1>6, <1>7, Zenon
<1> QED BY <1>7, <1>8 DEF DeletesKey, a, b, t, N, K

LEMMA DeleteKeyKeeps ==
  ASSUME LogInv, DeleteKey
  PROVE  LogInv'
<1> DEFINE s == stack
           N == Len(s)
           K == N - 1
           debug == enableDebugLogging
           t == [s EXCEPT ![N].pc = "unwind", ![K].key = FALSE]
<1>1. /\ s # <<>> /\ FrameInOrder(s[N], debug) /\ s[N].pc = "call"
      /\ s[N].fn = "_deleteFullViewKey"
  BY AtPoint DEF DeleteKey, Top
<1>2. stack' = t /\ ended' = {} /\ UNCHANGED <<levels, nextId, log>>
  BY Zenon DEF DeleteKey
<1>3. Linked(s, debug) /\ s \in Seq(Frame) /\ N \in Nat /\ N > 0
  BY <1>1, TopOf DEF LogInv, CallsInv, StackInOrder
<1>4. /\ \A n \in 1 .. N : FrameInOrder(s[n], debug)
      /\ \A n \in 1 .. N - 1 : CallInOrder(s[n], s[n + 1])
      /\ s[1].fn # "_deleteFullViewKey"
  BY <1>3 DEF Linked
<1>5. N > 1
  <2>1. N # 1
    BY <1>1, <1>4
  <2> HIDE DEF N
  <2> QED BY <1>3, <2>1
<1>6. DeletesKey(s, t)
  BY <1>3, <1>5, KeyDeletion
<1> HIDE DEF t, debug
<1>7. /\ t \in Seq(Frame) /\ Len(t) = N
      /\ t[N] = [s[N] EXCEPT !.pc = "unwind"]
      /\ t[K] = [s[K] EXCEPT !.key = FALSE]
      /\ \A n \in 1 .. N : n # N /\ n # K => t[n] = s[n]
  BY <1>6 DEF DeletesKey
<1> HIDE DEF N, s, K
<1>8. /\ K \in Nat /\ K + 1 = N /\ N \in 1 .. N /\ K \in 1 .. N /\ K # N /\ 1 \in 1 .. N
      /\ \A n \in 1 .. N - 1 : n \in 1 .. N /\ n + 1 \in 1 .. N /\ n # N
      /\ \A n \in 1 .. N - 1 : n + 1 = N => n = K
  BY <1>3, <1>5 DEF K
<1>9. s[N] \in Frame /\ s[K] \in Frame /\ "unwind" \in Points
  BY <1>4, <1>8 DEF FrameInOrder, Points
<1>10. /\ t[N] \in Frame /\ t[N].fn = s[N].fn /\ t[N].pc = "unwind" /\ t[N].id = s[N].id
       /\ t[N].held = s[N].held /\ t[N].key = s[N].key /\ t[N].threw = s[N].threw
       /\ t[N].warned = s[N].warned /\ t[N].callbackThrew = s[N].callbackThrew
  BY <1>7, <1>9, Zenon DEF Frame
<1>11. /\ t[K] \in Frame /\ t[K].fn = s[K].fn /\ t[K].pc = s[K].pc /\ t[K].id = s[K].id
       /\ t[K].held = s[K].held /\ t[K].key = FALSE /\ t[K].threw = s[K].threw
       /\ t[K].warned = s[K].warned /\ t[K].callbackThrew = s[K].callbackThrew
  BY <1>7, <1>9, Zenon DEF Frame
<1>12. FrameInOrder(t[N], debug)
  BY <1>1, <1>10 DEF FrameInOrder, MemoryInOrder, PlaceInOrder, StartInOrder, Holding, Callbacks
<1>13. FrameInOrder(t[K], debug)
  <2>1. FrameInOrder(s[K], debug)
    BY <1>4, <1>8
  <2> QED BY <1>11, <2>1 DEF FrameInOrder, MemoryInOrder, PlaceInOrder, StartInOrder
<1>14. \A n \in 1 .. N : FrameInOrder(t[n], debug)
  BY <1>4, <1>7, <1>12, <1>13
<1>15. ASSUME NEW n \in 1 .. N
       PROVE  t[n].fn = s[n].fn /\ t[n].id = s[n].id /\ (n # N => t[n].pc = s[n].pc)
              /\ (t[n].key => s[n].key)
  <2>1. CASE n = N
    BY <1>10, <2>1
  <2>2. CASE n = K
    BY <1>11, <2>2
  <2>3. CASE n # N /\ n # K
    BY <1>7, <2>3
  <2> QED BY <2>1, <2>2, <2>3
<1>16. ASSUME NEW n \in 1 .. N - 1 PROVE CallInOrder(t[n], t[n + 1])
  <2>1. CallInOrder(s[n], s[n + 1]) /\ n \in 1 .. N /\ n + 1 \in 1 .. N /\ n # N
    BY <1>4, <1>8
  <2>2. CASE n + 1 = N
    <3>1. n = K
      BY <1>8, <2>2
    <3> QED BY <1>1, <1>10, <1>11, <2>1, <2>2, <3>1 DEF CallInOrder
  <2>3. CASE n + 1 # N
    <3>1. /\ t[n].fn = s[n].fn /\ t[n].pc = s[n].pc /\ (t[n].key => s[n].key)
          /\ t[n + 1].fn = s[n + 1].fn /\ t[n + 1].pc = s[n + 1].pc
      BY <1>15, <2>1, <2>3
    <3> QED BY <2>1, <3>1 DEF CallInOrder
  <2> QED BY <2>2, <2>3
<1>17. t[1].fn # "_deleteFullViewKey"
  BY <1>4, <1>8, <1>15
<1>18. StackInOrder(t, debug)
  BY <1>7, <1>10, <1>14, <1>16, <1>17 DEF StackInOrder, Linked, DeletedOrThrew
<1>19. SameIds(s, t)
  <2>1. \A n \in 1 .. N : t[n].pc # "in_END" => s[n].pc # "in_END"
    BY <1>1, <1>15
  <2> QED BY <1>7, <1>15, <2>1 DEF SameIds, N
<1> QED BY <1>2, <1>18, <1>19, QuietStep DEF Quiet, debug, s

LEMMA UnwindKeeps ==
  ASSUME LogInv, Unwind
  PROVE  LogInv'
<1> DEFINE s == stack
           f == Top
           debug == enableDebugLogging
           w == "_deleteFullViewKey"
<1>1. stack # <<>> /\ FrameInOrder(f, debug) /\ f \in Frame /\ f.pc = "unwind"
  BY AtPoint DEF Unwind
<1>2. UNCHANGED <<levels, nextId, log>>
  BY DEF Unwind
<1>3. CASE f.fn = "identifyAndRecoverCoin" /\ f.key /\ ended' = {}
           /\ stack' = Append([s EXCEPT ![Len(s)].pc = "deleting"], NewFrame(w))
  <2> DEFINE N == Len(s)
             c == [f EXCEPT !.pc = "deleting"]
             u == [s EXCEPT ![N] = c]
             g == NewFrame(w)
             t == Append(u, g)
  <2>1. /\ Linked(s, debug) /\ s \in Seq(Frame) /\ N \in Nat /\ N > 0 /\ N \in 1 .. N
        /\ s \in [1 .. N -> Frame]
    BY <1>1, TopOf DEF LogInv, CallsInv, StackInOrder
  <2>2. u = [s EXCEPT ![N].pc = "deleting"]
    BY <2>1, Zenon DEF Top
  <2>3. "deleting" \in Points
    BY DEF Points
  <2>4. /\ c \in Frame /\ c.fn = f.fn /\ c.pc = "deleting" /\ c.id = f.id
        /\ c.held = f.held /\ c.key = f.key /\ c.threw = f.threw
        /\ c.warned = f.warned /\ c.callbackThrew = f.callbackThrew
    BY <1>1, <2>3, Zenon DEF Frame
  <2> HIDE DEF c
  <2>5. FrameInOrder(c, debug)
    <3> HIDE DEF f, debug
    <3> QED BY <1>1, <1>3, <2>4
            DEF FrameInOrder, MemoryInOrder, PlaceInOrder, StartInOrder, Holding
  <2>6. N > 1 => CallInOrder(s[N - 1], c)
    <3>1. N > 1 => N - 1 \in 1 .. N - 1 /\ (N - 1) + 1 = N
      <4> HIDE DEF N
      <4> QED BY <2>1
    <3>2. N > 1 => CallInOrder(s[N - 1], s[N])
      BY <2>1, <3>1 DEF Linked
    <3> QED BY <1>3, <2>4, <3>2 DEF CallInOrder, Top
  <2>7. Linked(u, debug) /\ ReplacesTop(s, c, u)
    <3>1. c.fn # "_deleteFullViewKey"
      BY <1>3, <2>4
    <3> HIDE DEF debug
    <3> QED BY <1>1, <2>1, <2>5, <2>6, <3>1, ReplacedBy
  <2> HIDE DEF u, g
  <2>8. FrameInOrder(g, debug) /\ g.id = 0 /\ g.fn = w /\ g.pc \in {"open", "begin"}
    BY NewInOrder DEF g
  <2>9. Len(u) = N /\ u[N] = c /\ (\A n \in 1 .. N - 1 : u[n] = s[n]) /\ u # <<>>
    BY <2>1, <2>7 DEF ReplacesTop
  <2>10. CallInOrder(u[Len(u)], g)
    BY <1>3, <2>4, <2>8, <2>9 DEF CallInOrder
  <2>11. /\ StackInOrder(t, debug) /\ Len(t) = Len(u) + 1 /\ t[Len(u) + 1] = g
         /\ \A n \in 1 .. Len(u) : t[n] = u[n]
    <3> HIDE DEF debug
    <3> QED BY <2>7, <2>8, <2>9, <2>10, Pushed
  <2> HIDE DEF t
  <2>12. SameIds(s, t)
    <3>1. \A n \in 1 .. N : n = N \/ n \in 1 .. N - 1
      <4> HIDE DEF N
      <4> QED BY <2>1
    <3>2. s[N] = f
      BY DEF Top
    <3>3. \A n \in 1 .. N : t[n].id = s[n].id /\ (t[n].pc # "in_END" => s[n].pc # "in_END")
      BY <1>1, <2>4, <2>9, <2>11, <3>1, <3>2
    <3>4. Len(t) = N + 1 /\ t[N + 1].id = 0
      BY <2>8, <2>9, <2>11
    <3>5. Adds(s, t)
      BY <3>3, <3>4, Zenon DEF Adds
    <3> QED BY <2>1, <3>5, PushKeepsIds
  <2>13. stack' = t /\ ended' = {}
    BY <1>3, <2>2 DEF t, g
  <2> QED BY <1>2, <2>11, <2>12, <2>13, QuietStep DEF Quiet
<1>4. CASE f.fn = "identifyAndRecoverCoin" /\ ~f.key /\ Leave(f)
  <2>1. EndInOrder(f, debug) /\ EndsFrom(f, f)
    BY <1>1, <1>4, DoneInOrder
  <2>2. EndsAs(stack, f)
    BY <1>1, <2>1, EndsInPlace
  <2> QED BY <1>1, <1>2, <1>4, <2>1, <2>2, LeaveQuiet
<1>5. CASE f.fn # "identifyAndRecoverCoin" /\ Become([f EXCEPT !.pc = "end"])
  <2> DEFINE g == [f EXCEPT !.pc = "end"]
  <2>1. "end" \in Points
    BY DEF Points
  <2>2. MovedTo(f, g, "end", f.held, f.threw)
    BY <1>1, <2>1, Zenon DEF MovedTo, Frame
  <2> HIDE DEF g
  <2>3. GoesOnQuietly(f, g, debug)
    BY <1>1, <1>5, <2>2, EndMove
  <2> QED BY <1>1, <1>2, <1>5, <2>3, BecomeQuiet DEF g
<1> QED BY <1>3, <1>4, <1>5, Zenon DEF Unwind

-----------------------------------------------------------------------------
(***************************************************************************)
(* Steps that log.                                                         *)
(***************************************************************************)

\* The log m is the log l with an event e more.
Grows(l, m, e) ==
  /\ m \in Seq(Events) /\ Len(m) = Len(l) + 1 /\ m[Len(l) + 1] = e
  /\ \A n \in 1 .. Len(l) : m[n] = l[n]

LEMMA LogGrows ==
  ASSUME NEW l \in Seq(Events), NEW e \in Events
  PROVE  Grows(l, Append(l, e), e)
BY AppendProperties DEF Grows

LEMMA Positions ==
  ASSUME NEW l \in Seq(Events)
  PROVE  /\ Len(l) \in Nat /\ Len(l) + 1 \in 1 .. Len(l) + 1
         /\ \A n \in 1 .. Len(l) + 1 : n = Len(l) + 1 \/ n \in 1 .. Len(l)
         /\ \A n \in 1 .. Len(l) : n \in 1 .. Len(l) + 1 /\ n < Len(l) + 1 /\ n # Len(l) + 1
         /\ \A n \in 1 .. Len(l) : l[n][1] \in {"BEGIN", "END"} /\ l[n][2] \in Nat
<1> DEFINE L == Len(l)
<1>1. L \in Nat
  BY LenProperties
<1>2. \A n \in 1 .. L : l[n] \in Events
  BY ElementOfSeq
<1>3. \A n \in 1 .. L : l[n][1] \in {"BEGIN", "END"} /\ l[n][2] \in Nat
  BY <1>2 DEF Events
<1> HIDE DEF L
<1>4. /\ L + 1 \in 1 .. L + 1
      /\ \A n \in 1 .. L + 1 : n = L + 1 \/ n \in 1 .. L
      /\ \A n \in 1 .. L : n \in 1 .. L + 1 /\ n < L + 1 /\ n # L + 1
  BY <1>1
<1> QED BY <1>1, <1>3, <1>4 DEF L

\* An END that closes a call goes on closing it, ...
LEMMA ClosesStill ==
  ASSUME NEW l \in Seq(Events), NEW m, NEW e, Grows(l, m, e), NEW b,
         NEW c \in 1 .. Len(l), Closes(l, b, c)
  PROVE  Closes(m, b, c)
<1> DEFINE L == Len(l)
<1>1. m[c] = l[c] /\ Len(m) = L + 1 /\ \A n \in 1 .. L : m[n] = l[n]
  BY DEF Grows
<1>2. \A n \in 1 .. L : n \in 1 .. L + 1
  BY Positions
<1> HIDE DEF L
<1>3. ASSUME m[c][1] = "END" PROVE \E d \in 1 .. Len(m) : m[d] = <<"BEGIN", m[c][2]>> /\ b < d
  <2>1. PICK d \in 1 .. L : l[d] = <<"BEGIN", l[c][2]>> /\ b < d
    BY <1>1, <1>3 DEF Closes, L
  <2>2. d \in 1 .. Len(m) /\ m[d] = <<"BEGIN", m[c][2]>>
    BY <1>1, <1>2, <2>1
  <2> QED BY <2>1, <2>2
<1> QED BY <1>3 DEF Closes

\* ... and an END in order stays so, when the new event is not the same.
LEMMA EndsStill ==
  ASSUME NEW l \in Seq(Events), NEW m, NEW e, Grows(l, m, e), EndsInOrder(l),
         \A n \in 1 .. Len(l) : l[n][1] = "END" => l[n] # e,
         NEW n \in 1 .. Len(l), l[n][1] = "END"
  PROVE  /\ \A k \in 1 .. Len(m) : m[k] = m[n] => k = n
         /\ \E b \in 1 .. n - 1 :
              m[b] = <<"BEGIN", m[n][2]>> /\ \A c \in b + 1 .. n - 1 : Closes(m, b, c)
<1> DEFINE L == Len(l)
<1>1. L \in Nat /\ \A k \in 1 .. L + 1 : k = L + 1 \/ k \in 1 .. L
  BY Positions
<1>2. Len(m) = L + 1 /\ m[L + 1] = e /\ \A k \in 1 .. L : m[k] = l[k]
  BY DEF Grows
<1>3. l[n] # e
  OBVIOUS
<1>4. /\ \A k \in 1 .. L : l[k] = l[n] => k = n
      /\ \E b \in 1 .. n - 1 :
           l[b] = <<"BEGIN", l[n][2]>> /\ \A c \in b + 1 .. n - 1 : Closes(l, b, c)
  BY DEF EndsInOrder
<1>5. \A k \in 1 .. L + 1 : m[k] = m[n] => k = n
  <2> HIDE DEF L
  <2>1. n \in 1 .. L
    BY DEF L
  <2> QED BY <1>1, <1>2, <1>3, <1>4, <2>1
<1>6. PICK b \in 1 .. n - 1 :
        l[b] = <<"BEGIN", l[n][2]>> /\ \A c \in b + 1 .. n - 1 : Closes(l, b, c)
  BY <1>4
<1>7. n \in 1 .. L
  OBVIOUS
<1>8. b \in 1 .. L /\ \A c \in b + 1 .. n - 1 : c \in 1 .. L
  <2> HIDE DEF L
  <2> QED BY <1>1, <1>6, <1>7
<1>9. m[b] = <<"BEGIN", m[n][2]>>
  BY <1>2, <1>6, <1>7, <1>8
<1>10. \A c \in b + 1 .. n - 1 : Closes(m, b, c)
  BY <1>6, <1>8, ClosesStill
<1> QED BY <1>2, <1>5, <1>6, <1>9, <1>10

\* The new event is not an END of f, and closes no call that began before f.
SparesOpen(l, m, e, f) ==
  /\ e # <<"END", f.id>>
  /\ \A b \in 1 .. Len(l) : l[b] = <<"BEGIN", f.id>> => Closes(m, b, Len(l) + 1)

LEMMA OpenStill ==
  ASSUME NEW l \in Seq(Events), NEW m, NEW e, Grows(l, m, e), NEW f, OpenInOrder(l, f),
         f.id # 0 /\ f.pc # "in_END" => SparesOpen(l, m, e, f)
  PROVE  OpenInOrder(m, f)
<1> SUFFICES ASSUME f.id # 0, f.pc # "in_END"
             PROVE  /\ \E b \in 1 .. Len(m) :
                         m[b] = <<"BEGIN", f.id>> /\ \A c \in b + 1 .. Len(m) : Closes(m, b, c)
                    /\ \A n \in 1 .. Len(m) : m[n] # <<"END", f.id>>
  BY DEF OpenInOrder
<1> DEFINE L == Len(l)
<1>1. /\ L \in Nat /\ \A k \in 1 .. L + 1 : k = L + 1 \/ k \in 1 .. L
      /\ \A k \in 1 .. L : k \in 1 .. L + 1
  BY Positions
<1>2. Len(m) = L + 1 /\ m[L + 1] = e /\ \A k \in 1 .. L : m[k] = l[k]
  BY DEF Grows
<1>3. /\ e # <<"END", f.id>>
      /\ \A b \in 1 .. L : l[b] = <<"BEGIN", f.id>> => Closes(m, b, L + 1)
  BY DEF SparesOpen
<1>4. \A n \in 1 .. L : l[n] # <<"END", f.id>>
  BY DEF OpenInOrder
<1>5. PICK b \in 1 .. L : l[b] = <<"BEGIN", f.id>> /\ \A c \in b + 1 .. L : Closes(l, b, c)
  BY DEF OpenInOrder
<1>6. \A c \in 1 .. L : Closes(l, b, c) => Closes(m, b, c)
  BY ClosesStill
<1> HIDE DEF L
<1>7. \A c \in b + 1 .. L + 1 : c = L + 1 \/ (c \in b + 1 .. L /\ c \in 1 .. L)
  <2>1. L \in Nat /\ b \in 1 .. L
    BY <1>1
  <2> QED BY <2>1
<1>8. \A c \in b + 1 .. L + 1 : Closes(m, b, c)
  BY <1>3, <1>5, <1>6, <1>7
<1>9. b \in 1 .. Len(m) /\ m[b] = <<"BEGIN", f.id>>
  BY <1>1, <1>2, <1>5
<1>10. \A n \in 1 .. Len(m) : m[n] # <<"END", f.id>>
  BY <1>1, <1>2, <1>3, <1>4
<1> QED BY <1>2, <1>8, <1>9, <1>10

\* Every id so far is smaller than a new one.
LEMMA BeginLogged ==
  ASSUME NEW l, NEW next \in Nat \ {0}, BeginsInOrder(l, next), EndsInOrder(l), NEW m,
         Grows(l, m, <<"BEGIN", next>>)
  PROVE  /\ BeginsInOrder(m, next + 1) /\ EndsInOrder(m)
         /\ \A f : OpenInOrder(l, f) => OpenInOrder(m, f)
         /\ \A f : f.id = next => OpenInOrder(m, f)
<1> DEFINE L == Len(l)
           e == <<"BEGIN", next>>
<1>0. l \in Seq(Events)
  BY DEF BeginsInOrder
<1>1. /\ L \in Nat /\ L + 1 \in 1 .. L + 1
      /\ \A k \in 1 .. L + 1 : k = L + 1 \/ k \in 1 .. L
      /\ \A k \in 1 .. L : k \in 1 .. L + 1 /\ k < L + 1 /\ k # L + 1
      /\ \A n \in 1 .. L : l[n][1] \in {"BEGIN", "END"} /\ l[n][2] \in Nat
  BY <1>0, Positions
<1>2. m \in Seq(Events) /\ Len(m) = L + 1 /\ m[L + 1] = e /\ \A k \in 1 .. L : m[k] = l[k]
  BY DEF Grows
<1>3. /\ \A n \in 1 .. L : 0 < l[n][2] /\ l[n][2] < next
      /\ \A j, k \in 1 .. L :
           j < k /\ l[j][1] = "BEGIN" /\ l[k][1] = "BEGIN" => l[j][2] < l[k][2]
  BY DEF BeginsInOrder
<1>4. e[1] = "BEGIN" /\ e[2] = next /\ \A x : e # <<"END", x>>
  OBVIOUS
<1>5. Grows(l, m, e)
  OBVIOUS
<1> HIDE DEF L, e
<1>6. BeginsInOrder(m, next + 1)
  <2>1. ASSUME NEW n \in 1 .. L + 1 PROVE 0 < m[n][2] /\ m[n][2] < next + 1
    <3>1. CASE n = L + 1
      BY <1>2, <1>4, <3>1
    <3>2. CASE n \in 1 .. L
      <4>1. m[n][2] = l[n][2] /\ l[n][2] \in Nat /\ 0 < l[n][2] /\ l[n][2] < next
        BY <1>1, <1>2, <1>3, <3>2
      <4> QED BY <4>1
    <3> QED BY <1>1, <3>1, <3>2
  <2>2. ASSUME NEW j \in 1 .. L + 1, NEW k \in 1 .. L + 1, j < k, m[j][1] = "BEGIN",
               m[k][1] = "BEGIN"
        PROVE  m[j][2] < m[k][2]
    <3>1. j \in 1 .. L
      BY <1>1, <2>2
    <3>2. CASE k = L + 1
      BY <1>2, <1>3, <1>4, <3>1, <3>2
    <3>3. CASE k \in 1 .. L
      BY <1>2, <1>3, <2>2, <3>1, <3>3
    <3> QED BY <1>1, <3>2, <3>3
  <2> QED BY <1>2, <2>1, <2>2 DEF BeginsInOrder
<1>7. \A n \in 1 .. L : l[n][1] = "END" => l[n] # e
  BY <1>4
<1>8. EndsInOrder(m)
  <2> SUFFICES ASSUME NEW n \in 1 .. Len(m), m[n][1] = "END"
               PROVE  /\ \A k \in 1 .. Len(m) : m[k] = m[n] => k = n
                      /\ \E b \in 1 .. n - 1 :
                           m[b] = <<"BEGIN", m[n][2]>> /\ \A c \in b + 1 .. n - 1 : Closes(m, b, c)
    BY DEF EndsInOrder
  <2>1. n \in 1 .. L /\ l[n][1] = "END"
    BY <1>1, <1>2, <1>4
  <2> QED BY <1>0, <1>5, <1>7, <2>1, EndsStill DEF L
<1>9. ASSUME NEW f, OpenInOrder(l, f) PROVE OpenInOrder(m, f)
  <2>1. m[L + 1][1] = "BEGIN"
    BY <1>2, <1>4
  <2>2. \A b : Closes(m, b, L + 1)
    BY <2>1 DEF Closes
  <2>3. SparesOpen(l, m, e, f)
    BY <1>4, <2>2 DEF SparesOpen, L
  <2> QED BY <1>0, <1>5, <1>9, <2>3, OpenStill
<1>10. ASSUME NEW f, f.id = next PROVE OpenInOrder(m, f)
  <2>1. \A c \in (L + 1) + 1 .. L + 1 : FALSE
    BY <1>1
  <2>2. \A n \in 1 .. L + 1 : m[n] # <<"END", next>>
    <3>1. \A n \in 1 .. L : m[n][2] # next
      BY <1>1, <1>2, <1>3
    <3> QED BY <1>1, <1>2, <1>4, <3>1
  <2> QED BY <1>1, <1>2, <1>10, <2>1, <2>2 DEF OpenInOrder, e
<1> QED BY <1>6, <1>8, <1>9, <1>10

\* The innermost call with an id began after the others.
LEMMA EndLogged ==
  ASSUME NEW l, NEW next \in Nat \ {0}, BeginsInOrder(l, next), EndsInOrder(l), NEW m,
         NEW f, f.id \in Nat, f.id # 0, f.pc # "in_END", f.id < next, OpenInOrder(l, f),
         Grows(l, m, <<"END", f.id>>)
  PROVE  /\ BeginsInOrder(m, next) /\ EndsInOrder(m)
         /\ \A h : OpenInOrder(l, h) /\ h.id \in Nat /\ h.id < f.id => OpenInOrder(m, h)
<1> DEFINE L == Len(l)
           id == f.id
           e == <<"END", id>>
<1>0. l \in Seq(Events) /\ id \in Nat /\ id # 0 /\ id < next
  BY DEF BeginsInOrder
<1>1. /\ L \in Nat /\ L + 1 \in 1 .. L + 1
      /\ \A k \in 1 .. L + 1 : k = L + 1 \/ k \in 1 .. L
      /\ \A k \in 1 .. L : k \in 1 .. L + 1 /\ k < L + 1 /\ k # L + 1
      /\ \A n \in 1 .. L : l[n][1] \in {"BEGIN", "END"} /\ l[n][2] \in Nat
  BY <1>0, Positions
<1>2. m \in Seq(Events) /\ Len(m) = L + 1 /\ m[L + 1] = e /\ \A k \in 1 .. L : m[k] = l[k]
  BY DEF Grows
<1>3. /\ \A n \in 1 .. L : 0 < l[n][2] /\ l[n][2] < next
      /\ \A j, k \in 1 .. L :
           j < k /\ l[j][1] = "BEGIN" /\ l[k][1] = "BEGIN" => l[j][2] < l[k][2]
  BY DEF BeginsInOrder
<1>4. e[1] = "END" /\ e[2] = id
  OBVIOUS
<1>5. Grows(l, m, e)
  OBVIOUS
<1>6. /\ \E b \in 1 .. L : l[b] = <<"BEGIN", id>> /\ \A c \in b + 1 .. L : Closes(l, b, c)
      /\ \A n \in 1 .. L : l[n] # e
  BY DEF OpenInOrder
<1>7. PICK d \in 1 .. L : l[d] = <<"BEGIN", id>> /\ \A c \in d + 1 .. L : Closes(l, d, c)
  BY <1>6
<1>8. /\ m[d] = <<"BEGIN", id>> /\ d \in 1 .. L + 1 /\ l[d][1] = "BEGIN" /\ l[d][2] = id
  <2>1. m[d] = l[d] /\ d \in 1 .. L + 1
    BY <1>1, <1>2, <1>7
  <2>2. l[d] = <<"BEGIN", id>>
    BY <1>7
  <2> HIDE DEF id
  <2> QED BY <2>1, <2>2
<1> HIDE DEF L, e, id
<1>9. BeginsInOrder(m, next)
  <2>1. ASSUME NEW n \in 1 .. L + 1 PROVE 0 < m[n][2] /\ m[n][2] < next
    <3>1. CASE n = L + 1
      <4>1. m[n][2] = id
        BY <1>2, <1>4, <3>1
      <4> QED BY <1>0, <4>1
    <3>2. CASE n \in 1 .. L
      BY <1>2, <1>3, <3>2
    <3> QED BY <1>1, <3>1, <3>2
  <2>2. ASSUME NEW j \in 1 .. L + 1, NEW k \in 1 .. L + 1, j < k, m[j][1] = "BEGIN",
               m[k][1] = "BEGIN"
        PROVE  m[j][2] < m[k][2]
    <3>1. j \in 1 .. L /\ k \in 1 .. L
      BY <1>1, <1>2, <1>4, <2>2
    <3> QED BY <1>2, <1>3, <2>2, <3>1
  <2> QED BY <1>2, <2>1, <2>2 DEF BeginsInOrder
<1>10. \A n \in 1 .. L : l[n][1] = "END" => l[n] # e
  BY <1>6
<1>11. EndsInOrder(m)
  <2> SUFFICES ASSUME NEW n \in 1 .. Len(m), m[n][1] = "END"
               PROVE  /\ \A k \in 1 .. Len(m) : m[k] = m[n] => k = n
                      /\ \E b \in 1 .. n - 1 :
                           m[b] = <<"BEGIN", m[n][2]>> /\ \A c \in b + 1 .. n - 1 : Closes(m, b, c)
    BY DEF EndsInOrder
  <2>1. CASE n \in 1 .. L
    <3>1. l[n][1] = "END"
      BY <1>2, <2>1
    <3> QED BY <1>0, <1>5, <1>10, <2>1, <3>1, EndsStill DEF L
  <2>2. CASE n = L + 1
    <3>1. \A k \in 1 .. Len(m) : m[k] = m[n] => k = n
      BY <1>1, <1>2, <1>6, <2>2
    <3>2. d \in 1 .. n - 1 /\ \A c \in d + 1 .. n - 1 : c \in d + 1 .. L /\ c \in 1 .. L
      <4>1. L \in Nat /\ d \in 1 .. L /\ n - 1 = L
        BY <1>1, <2>2
      <4> QED BY <4>1
    <3>3. \A c \in 1 .. L : Closes(l, d, c) => Closes(m, d, c)
      BY <1>0, <1>5, ClosesStill DEF L
    <3>4. \A c \in d + 1 .. n - 1 : Closes(m, d, c)
      BY <1>7, <3>2, <3>3
    <3>5. m[d] = <<"BEGIN", m[n][2]>>
      BY <1>2, <1>4, <1>8, <2>2
    <3> QED BY <3>1, <3>2, <3>4, <3>5
  <2> QED BY <1>1, <1>2, <2>1, <2>2
<1>12. ASSUME NEW h, OpenInOrder(l, h), h.id \in Nat, h.id < id PROVE OpenInOrder(m, h)
  <2>1. e # <<"END", h.id>>
    BY <1>0, <1>4, <1>12
  <2>2. ASSUME NEW b \in 1 .. L, l[b] = <<"BEGIN", h.id>> PROVE Closes(m, b, L + 1)
    <3>1. l[b][1] = "BEGIN" /\ l[b][2] = h.id
      BY <2>2
    <3>2. ~(d < b) /\ d # b
      BY <1>0, <1>3, <1>7, <1>8, <1>12, <2>2, <3>1
    <3>3. b < d
      <4>1. d \in Nat /\ b \in Nat
        BY <1>1
      <4> QED BY <3>2, <4>1
    <3>4. m[L + 1][2] = id
      BY <1>2, <1>4
    <3> QED BY <1>2, <1>8, <3>3, <3>4 DEF Closes
  <2>3. SparesOpen(l, m, e, h)
    BY <2>1, <2>2 DEF SparesOpen, L
  <2> QED BY <1>0, <1>5, <1>12, <2>3, OpenStill
<1> QED BY <1>9, <1>11, <1>12 DEF id

\* What a logging step does to the calls s and the log: the innermost call goes
\* on as g, with the ids below next, and the log is then l.
Logs(s, g, l, next, debug) ==
  /\ FrameInOrder(g, debug) /\ GoesOn(s[Len(s)], g)
  /\ BeginsInOrder(l, next) /\ EndsInOrder(l)
  /\ OpenInOrder(l, g) /\ g.id < next
  /\ \A n \in 1 .. Len(s) - 1 : OpenInOrder(l, s[n]) /\ s[n].id < next /\ s[n].id < g.id

LEMMA LoggedStep ==
  ASSUME LogInv, stack # <<>>, NEW g, Become(g), levels' = levels, nextId' \in Nat \ {0},
         Logs(stack, g, log', nextId', enableDebugLogging)
  PROVE  LogInv'
<1> DEFINE s == stack
           N == Len(s)
           t == [s EXCEPT ![N] = g]
           debug == enableDebugLogging
<1>1. StackInOrder(s, debug)
  BY DEF LogInv, CallsInv
<1>2. StackInOrder(t, debug) /\ ReplacesTop(s, g, t)
  <2>1. FrameInOrder(g, debug) /\ GoesOn(s[N], g)
    BY DEF Logs
  <2> QED BY <1>1, <2>1, Replaced
<1>3. N \in Nat /\ N > 0
  BY <1>1, TopOf DEF StackInOrder
<1>4. stack' = t /\ ended' = {}
  BY DEF Become
<1>5. enableDebugLogging' = debug
  BY DEF enableDebugLogging
<1> HIDE DEF t, debug
<1>6. CallsInv'
  BY <1>2, <1>4, <1>5 DEF LogInv, CallsInv
<1>7. /\ BeginsInOrder(log', nextId') /\ EndsInOrder(log')
      /\ OpenInOrder(log', g) /\ g.id < nextId'
      /\ \A n \in 1 .. N - 1 :
           OpenInOrder(log', s[n]) /\ s[n].id < nextId' /\ s[n].id < g.id
  BY DEF Logs
<1>8. \A m, n \in 1 .. N : m < n /\ s[n].id # 0 => s[m].id < s[n].id
  BY DEF LogInv, LogInOrder
<1>9. Len(t) = N /\ t[N] = g /\ \A n \in 1 .. N - 1 : t[n] = s[n]
  BY <1>2 DEF ReplacesTop
<1> HIDE DEF N, s
<1>10. /\ \A n \in 1 .. N : n = N \/ n \in 1 .. N - 1
       /\ \A n \in 1 .. N - 1 : n \in 1 .. N
       /\ \A m, n \in 1 .. N : m < n => m \in 1 .. N - 1
  BY <1>3
<1>11. \A n \in 1 .. N : OpenInOrder(log', t[n]) /\ t[n].id < nextId'
  BY <1>7, <1>9, <1>10
<1>12. \A m, n \in 1 .. N : m < n /\ t[n].id # 0 => t[m].id < t[n].id
  BY <1>7, <1>8, <1>9, <1>10
<1>13. LogInOrder'
  BY <1>4, <1>7, <1>9, <1>11, <1>12 DEF LogInOrder
<1> QED BY <1>6, <1>13 DEF LogInv

\* The calls around the innermost one.
LEMMA Around ==
  ASSUME LogInv, stack # <<>>
  PROVE  /\ OpenInOrder(log, Top) /\ Top.id \in Nat /\ Top.id < nextId
         /\ \A n \in 1 .. Len(stack) - 1 :
              /\ OpenInOrder(log, stack[n]) /\ stack[n].id \in Nat /\ stack[n].id < nextId
              /\ Top.id # 0 => stack[n].id < Top.id
<1> DEFINE s == stack
           N == Len(s)
<1>1. N \in Nat /\ N > 0 /\ \A n \in 1 .. N : s[n] \in Frame
  BY TopOf DEF LogInv, CallsInv, StackInOrder, Linked, FrameInOrder
<1>2. \A n \in 1 .. N : s[n].id \in Nat
  BY <1>1, Zenon DEF Frame
<1>3. /\ \A n \in 1 .. N : OpenInOrder(log, s[n]) /\ s[n].id < nextId
      /\ \A m, n \in 1 .. N : m < n /\ s[n].id # 0 => s[m].id < s[n].id
  BY DEF LogInv, LogInOrder
<1> HIDE DEF N, s
<1>4. N \in 1 .. N /\ \A n \in 1 .. N - 1 : n \in 1 .. N /\ n < N
  BY <1>1
<1>5. Top = s[N]
  BY DEF Top, s, N
<1> QED BY <1>2, <1>3, <1>4, <1>5 DEF N, s

LEMMA BeginKeeps ==
  ASSUME LogInv, Begin
  PROVE  LogInv'
<1> DEFINE f == Top
           debug == enableDebugLogging
<1>1. stack # <<>> /\ FrameInOrder(f, debug) /\ f \in Frame /\ f.pc = "begin"
  BY AtPoint DEF Begin
<1>2. CASE ~debug
  <2> DEFINE g == [f EXCEPT !.pc = "call"]
  <2>1. Become(g) /\ UNCHANGED <<levels, nextId, log>>
    BY <1>2, Zenon DEF Begin
  <2>2. MovedTo(f, g, "call", f.held, f.threw)
    BY <1>1, Zenon DEF MovedTo, Frame, Points
  <2>3. debug = FALSE
    BY <1>2 DEF enableDebugLogging
  <2> HIDE DEF g
  <2>4. GoesOnQuietly(f, g, debug)
    BY <1>1, <2>2, <2>3, BeginMove
  <2> QED BY <1>1, <2>1, <2>4, BecomeQuiet
<1>3. CASE debug
  <2> DEFINE g == [f EXCEPT !.pc = "in_BEGIN", !.id = nextId]
             e == <<"BEGIN", nextId>>
             m == Append(log, e)
  <2>1. nextId' = nextId + 1 /\ log' = m /\ Become(g) /\ levels' = levels
    BY <1>3, Zenon DEF Begin
  <2>2. nextId \in Nat \ {0} /\ nextId + 1 \in Nat \ {0}
    BY DEF LogInv, CallsInv
  <2>3. "in_BEGIN" \in Points /\ nextId \in Nat
    BY <2>2 DEF Points, Callbacks
  <2>4. /\ g \in Frame /\ g.fn = f.fn /\ g.id = nextId /\ g.key = f.key /\ g.warned = f.warned
        /\ g.callbackThrew = f.callbackThrew /\ g.pc = "in_BEGIN" /\ g.held = f.held
        /\ g.threw = f.threw
    BY <1>1, <2>3, Zenon DEF Frame
  <2> HIDE DEF g, f, debug
  <2>5. FrameInOrder(g, debug) /\ GoesOn(f, g)
    <3>1. MemoryInOrder(g)
      BY <1>1, <2>4 DEF FrameInOrder, MemoryInOrder, Holding
    <3>2. PlaceInOrder(g)
      BY <1>1, <2>4 DEF FrameInOrder, PlaceInOrder
    <3>3. StartInOrder(g, debug)
      BY <1>1, <2>2, <2>4 DEF FrameInOrder, StartInOrder, PlaceInOrder
    <3>4. GoesOn(f, g)
      BY <2>4 DEF GoesOn
    <3> QED BY <2>4, <3>1, <3>2, <3>3, <3>4 DEF FrameInOrder
  <2>6. BeginsInOrder(log, nextId) /\ EndsInOrder(log) /\ log \in Seq(Events)
    BY DEF LogInv, LogInOrder, BeginsInOrder
  <2>7. Grows(log, m, e)
    <3>1. e \in Events
      BY <2>3 DEF Events
    <3> QED BY <2>6, <3>1, LogGrows
  <2> HIDE DEF m
  <2>8. /\ BeginsInOrder(m, nextId + 1) /\ EndsInOrder(m)
        /\ \A h : OpenInOrder(log, h) => OpenInOrder(m, h)
        /\ \A h : h.id = nextId => OpenInOrder(m, h)
    BY <2>2, <2>6, <2>7, BeginLogged
  <2>9. \A n \in 1 .. Len(stack) - 1 :
          /\ OpenInOrder(log, stack[n]) /\ stack[n].id \in Nat /\ stack[n].id < nextId
    BY <1>1, Around
  <2>10. Logs(stack, g, m, nextId + 1, debug)
    <3>1. \A n \in 1 .. Len(stack) - 1 :
            OpenInOrder(m, stack[n]) /\ stack[n].id < nextId + 1 /\ stack[n].id < g.id
      BY <2>2, <2>4, <2>8, <2>9
    <3>2. OpenInOrder(m, g) /\ g.id < nextId + 1
      BY <2>2, <2>4, <2>8
    <3> QED BY <2>5, <2>8, <3>1, <3>2, Zenon DEF Logs, f, Top
  <2> QED BY <1>1, <2>1, <2>2, <2>10, LoggedStep DEF debug
<1> QED BY <1>2, <1>3

LEMMA EndKeeps ==
  ASSUME LogInv, End
  PROVE  LogInv'
<1> DEFINE f == Top
           debug == enableDebugLogging
<1>1. stack # <<>> /\ FrameInOrder(f, debug) /\ f \in Frame /\ f.pc = "end" /\ ~f.key
  BY AtPoint, KeyIsOf DEF End
<1>2. levels' = levels /\ nextId' = nextId
  BY DEF End
<1>3. CASE ~debug
  <2>1. Leave(f) /\ log' = log
    BY <1>3, Zenon DEF End
  <2>2. EndInOrder(f, debug) /\ EndsFrom(f, f)
    BY <1>1, DoneInOrder
  <2>3. EndsAs(stack, f)
    BY <1>1, <2>2, EndsInPlace
  <2> QED BY <1>1, <1>2, <2>1, <2>2, <2>3, LeaveQuiet
<1>4. CASE debug /\ NoStart(f)
  <2> DEFINE g == [f EXCEPT !.threw = "null_check"]
  <2>1. Leave(g) /\ log' = log
    BY <1>4, Zenon DEF End
  <2>2. /\ g \in Frame /\ g.fn = f.fn /\ g.id = f.id /\ g.key = f.key /\ g.warned = f.warned
        /\ g.callbackThrew = f.callbackThrew /\ g.held = f.held /\ g.threw = "null_check"
    BY <1>1, Zenon DEF Frame
  <2>3. f.fn = "validateAddress" /\ f.warned /\ f.id = 0
    <3> HIDE DEF f, debug
    <3> QED BY <1>1, <1>4 DEF FrameInOrder, StartInOrder, PlaceInOrder, NoStart
  <2> HIDE DEF g
  <2>4. EndInOrder(g, debug) /\ EndsFrom(f, g)
    <3> HIDE DEF f, debug
    <3> QED BY <1>1, <1>4, <2>2, <2>3
            DEF EndInOrder, EndsFrom, FrameInOrder, MemoryInOrder, Holding
  <2>5. EndsAs(stack, g)
    BY <1>1, <2>4, EndsInPlace
  <2> QED BY <1>1, <1>2, <2>1, <2>4, <2>5, LeaveQuiet
<1>5. CASE debug /\ ~NoStart(f)
  <2> DEFINE g == [f EXCEPT !.pc = "in_END"]
             e == <<"END", f.id>>
             m == Append(log, e)
  <2>1. log' = m /\ Become(g)
    BY <1>5, Zenon DEF End
  <2>2. "in_END" \in Points
    BY DEF Points, Callbacks
  <2>3. MovedTo(f, g, "in_END", f.held, f.threw)
    BY <1>1, <2>2, Zenon DEF MovedTo, Frame
  <2>4. /\ OpenInOrder(log, f) /\ f.id \in Nat /\ f.id < nextId
        /\ \A n \in 1 .. Len(stack) - 1 :
             /\ OpenInOrder(log, stack[n]) /\ stack[n].id \in Nat /\ stack[n].id < nextId
             /\ f.id # 0 => stack[n].id < f.id
    BY <1>1, Around
  <2>5. f.id # 0
    BY <1>5 DEF NoStart
  <2>6. BeginsInOrder(log, nextId) /\ EndsInOrder(log) /\ log \in Seq(Events)
        /\ nextId \in Nat \ {0}
    BY DEF LogInv, CallsInv, LogInOrder, BeginsInOrder
  <2> HIDE DEF g, f, debug
  <2>7. FrameInOrder(g, debug) /\ GoesOn(f, g)
    <3>1. MemoryInOrder(g)
      BY <1>1, <2>3 DEF MovedTo, FrameInOrder, MemoryInOrder, Holding
    <3>2. PlaceInOrder(g)
      BY <1>1, <2>3 DEF MovedTo, FrameInOrder, PlaceInOrder
    <3>3. StartInOrder(g, debug)
      BY <1>1, <2>3, <2>5 DEF MovedTo, FrameInOrder, StartInOrder, PlaceInOrder
    <3>4. GoesOn(f, g) /\ g \in Frame
      BY <1>1, <2>3 DEF MovedTo, GoesOn
    <3> QED BY <3>1, <3>2, <3>3, <3>4 DEF FrameInOrder
  <2>8. Grows(log, m, e)
    <3>1. e \in Events
      BY <2>4 DEF Events
    <3> QED BY <2>6, <3>1, LogGrows
  <2> HIDE DEF m
  <2>9. /\ BeginsInOrder(m, nextId) /\ EndsInOrder(m)
        /\ \A h : OpenInOrder(log, h) /\ h.id \in Nat /\ h.id < f.id => OpenInOrder(m, h)
    <3>1. f.pc # "in_END"
      BY <1>1
    <3> QED BY <2>4, <2>5, <2>6, <2>8, <3>1, EndLogged
  <2>10. Logs(stack, g, m, nextId, debug)
    <3>1. g.id = f.id /\ g.pc = "in_END"
      BY <2>3 DEF MovedTo
    <3>2. \A n \in 1 .. Len(stack) - 1 :
            OpenInOrder(m, stack[n]) /\ stack[n].id < nextId /\ stack[n].id < g.id
      BY <2>4, <2>5, <2>9, <3>1
    <3>3. OpenInOrder(m, g) /\ g.id < nextId
      BY <2>4, <3>1 DEF OpenInOrder
    <3> QED BY <2>7, <2>9, <3>2, <3>3, Zenon DEF Logs, f, Top
  <2> QED BY <1>1, <1>2, <2>1, <2>6, <2>10, LoggedStep DEF debug
<1> QED BY <1>3, <1>4, <1>5

-----------------------------------------------------------------------------
(***************************************************************************)
(* The theorems.                                                           *)
(***************************************************************************)

LEMMA LogInitInv == LogInit => LogInv
<1> SUFFICES ASSUME LogInit PROVE LogInv
  OBVIOUS
<1>1. levels \in Levels /\ stack = <<>> /\ nextId = 1 /\ log = <<>> /\ ended = {}
  BY DEF LogInit, Levels
<1>2. /\ stack \in Seq(Frame) /\ log \in Seq(Events) /\ Len(stack) = 0 /\ Len(log) = 0
      /\ nextId \in Nat \ {0}
  BY <1>1, EmptySeq
<1>3. CallsInv
  BY <1>1, <1>2 DEF CallsInv, StackInOrder, Linked
<1>4. LogInOrder
  BY <1>2 DEF LogInOrder, BeginsInOrder, EndsInOrder
<1> QED BY <1>3, <1>4 DEF LogInv

LEMMA LogNextKeeps == LogInv /\ [LogNext]_logVars => LogInv'
<1> SUFFICES ASSUME LogInv, [LogNext]_logVars PROVE LogInv'
  OBVIOUS
<1>1. CASE LogNext
  BY <1>1, CallFunctionKeeps, SetLevelsKeeps, CallbackReturnsKeeps, CallbackThrowsKeeps,
     BeginKeeps, OpenKeyKeeps, NativeCallKeeps, DeleteKeyKeeps, ReadKeeps, WarnKeeps,
     FreeNativeKeeps, UnwindKeeps, KeyDeletedKeeps, EndKeeps, Zenon DEF LogNext
<1>2. CASE UNCHANGED logVars
  <2>1. UNCHANGED <<levels, stack, nextId, log, ended>>
    BY <1>2 DEF logVars
  <2>2. CallsInv'
    BY <2>1 DEF LogInv, CallsInv, enableDebugLogging
  <2>3. LogInOrder'
    BY <2>1 DEF LogInv, LogInOrder, BeginsInOrder, EndsInOrder, Closes, OpenInOrder
  <2> QED BY <2>2, <2>3 DEF LogInv
<1> QED BY <1>1, <1>2

\* LibSpark's calls and the log they write stay in order, whatever the
\* application's callback does in the middle of them: LogInv is an invariant.
THEOREM LogInvariant == LogSpec => []LogInv
BY LogInitInv, LogNextKeeps, PTL DEF LogSpec

\* freeNative never frees a block twice, and every call but the innermost one
\* waits for its callback or for the _deleteFullViewKey it made.
THEOREM LogTypeCorrect == LogSpec => []LogTypeOK
<1>1. LogInv => LogTypeOK
  <2> SUFFICES ASSUME LogInv PROVE LogTypeOK
    OBVIOUS
  <2>1. ended \subseteq Frame
    BY DEF LogInv, CallsInv, EndInOrder
  <2>2. \A n \in 1 .. Len(stack) - 1 : CallInOrder(stack[n], stack[n + 1])
    BY DEF LogInv, CallsInv, StackInOrder, Linked
  <2>3. \A n \in 1 .. Len(stack) - 1 :
          IF stack[n + 1].fn = "_deleteFullViewKey"
          THEN stack[n].pc = "deleting" /\ stack[n].fn = "identifyAndRecoverCoin"
          ELSE stack[n].pc \in Callbacks
    BY <2>2, Zenon DEF CallInOrder
  <2>4. levels \in Levels /\ stack \in Seq(Frame) /\ nextId \in Nat
    BY DEF LogInv, CallsInv, StackInOrder, Linked
  <2> QED BY <2>1, <2>3, <2>4, Zenon DEF LogTypeOK
<1> QED BY <1>1, LogInvariant, PTL

\* The BEGINs and ENDs that Log.l hands to the callback always read as nested
\* calls, even when callbacks make calls, throw, or change the levels.
THEOREM LogIsWellBracketed == LogSpec => []WellBracketed
<1>1. LogInv => WellBracketed
  <2> SUFFICES ASSUME LogInv, NEW n \in 1 .. Len(log)
               PROVE  /\ Shown(log[n][1], log[n][2]) = {n}
                      /\ log[n][1] = "END" =>
                           \E b \in Shown("BEGIN", log[n][2]) :
                             /\ b < n
                             /\ \A c \in b + 1 .. n - 1 :
                                  log[c][1] = "END" =>
                                    \E d \in Shown("BEGIN", log[c][2]) : b < d
    BY Zenon DEF WellBracketed
  <2>1. BeginsInOrder(log, nextId) /\ EndsInOrder(log) /\ log \in Seq(Events)
    BY DEF LogInv, LogInOrder, BeginsInOrder
  <2> DEFINE l == log
             L == Len(l)
  <2>2. L \in Nat /\ \A k \in 1 .. L : l[k][1] \in {"BEGIN", "END"} /\ l[k][2] \in Nat
    BY <2>1, Positions
  <2>3. \A k \in 1 .. L : l[k] \in {"BEGIN", "END"} \X Nat
    BY <2>1, ElementOfSeq DEF Events
  <2>4. \A k \in 1 .. L : l[k] = <<l[k][1], l[k][2]>>
    BY <2>3
  <2>5. \A k \in 1 .. L : l[k] = l[n] => k = n
    <3>1. CASE l[n][1] = "END"
      BY <2>1, <3>1 DEF EndsInOrder
    <3>2. CASE l[n][1] = "BEGIN"
      <4>1. \A j, k \in 1 .. L :
              j < k /\ l[j][1] = "BEGIN" /\ l[k][1] = "BEGIN" => l[j][2] < l[k][2]
        BY <2>1 DEF BeginsInOrder
      <4>2. n \in 1 .. L
        OBVIOUS
      <4> HIDE DEF L
      <4>3. ASSUME NEW k \in 1 .. L, l[k] = l[n] PROVE ~(k < n) /\ ~(n < k)
        BY <2>2, <3>2, <4>1, <4>2, <4>3
      <4> QED BY <2>2, <4>2, <4>3
    <3> QED BY <2>2, <3>1, <3>2
  <2>6. Shown(l[n][1], l[n][2]) = {n}
    BY <2>4, <2>5 DEF Shown
  <2>7. ASSUME l[n][1] = "END"
        PROVE  \E b \in Shown("BEGIN", l[n][2]) :
                 /\ b < n
                 /\ \A c \in b + 1 .. n - 1 :
                      l[c][1] = "END" => \E d \in Shown("BEGIN", l[c][2]) : b < d
    <3>1. PICK b \in 1 .. n - 1 :
            l[b] = <<"BEGIN", l[n][2]>> /\ \A c \in b + 1 .. n - 1 : Closes(l, b, c)
      BY <2>1, <2>7 DEF EndsInOrder
    <3>2. n \in 1 .. L
      OBVIOUS
    <3>3. b \in 1 .. L /\ b < n
      <4> HIDE DEF L
      <4> QED BY <2>2, <3>2
    <3>4. b \in Shown("BEGIN", l[n][2])
      BY <3>1, <3>3 DEF Shown
    <3>5. \A c \in b + 1 .. n - 1 :
            l[c][1] = "END" => \E d \in Shown("BEGIN", l[c][2]) : b < d
      BY <3>1 DEF Closes, Shown
    <3> QED BY <3>3, <3>4, <3>5
  <2> QED BY <2>6, <2>7
<1> QED BY <1>1, LogInvariant, PTL

\* A call ends with native memory or a full view key left only when a callback
\* of it threw: every other path, a failure of the native function or of the
\* reading included, reaches freeNative and _deleteFullViewKey.
THEOREM CallsLeakOnlyByCallback == LogSpec => []LeaksOnlyByCallback
<1>1. LogInv => LeaksOnlyByCallback
  BY DEF LogInv, CallsInv, EndInOrder, LeaksOnlyByCallback
<1> QED BY <1>1, LogInvariant, PTL

\* Logging changes what a call returns only by a callback that throws, or by
\* start! in a validateAddress that warned before debug logging was enabled.
THEOREM AnswersAreLostOnlyByWarning == LogSpec => []AnswerLostOnlyByWarning
<1>1. LogInv => AnswerLostOnlyByWarning
  BY DEF LogInv, CallsInv, EndInOrder, AnswerLostOnlyByWarning
<1> QED BY <1>1, LogInvariant, PTL

=============================================================================
