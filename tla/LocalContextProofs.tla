------------------------- MODULE LocalContextProofs -------------------------
(* Theorems about LocalContext, for any calls, contexts and bounds.          *)
EXTENDS LocalContext, SequenceTheorems, TLAPS

Words == {"policy", "w0", "w1", "cleared"}

\* The words a call may assign, before and after it drains.
MayAssign(c) ==
  CASE c.op \in {"set_cycles_for_tick", "clear_time_budget", "chained_from_latency"} -> {"w1"}
    [] c.op = "set_time_for_throttle" -> {"w0", "w1"}
    [] c.op = "set_as_latency_flick"  -> {"policy", "w0", "w1"}
    [] c.op = "set_as_immediate"      -> {"policy"}
    [] c.op = "shot_on_latency"       -> {"cleared", "w1"}
    [] c.op = "add_runcycle"          -> {}
    [] c.op \in SwitchOps             -> Words

\* What the program counter says of the call: which one it is, and that the
\* assignments left are assignments of that call.
CallInv ==
  /\ pc # "app" => call \in Call
  /\ \A i \in DOMAIN todo : pc # "app" /\ todo[i] \in MayAssign(call)

WordOf(f) == CASE f = "policy"  -> Policies
               [] f = "w0"      -> [as : Members, v : Nat]
               [] f = "w1"      -> [as : Members, v : Nat]
               [] f = "cleared" -> Nat

(* A call in Call names an operation of Ops, with its arguments. *)
LEMMA CallType ==
  ASSUME NEW c \in Call
  PROVE  /\ c.op \in Ops /\ c.op \in AllOps
         /\ c.op = "set_time_for_throttle" => c.slice \in Slices
         /\ c.op \in SwitchOps => c.new \in Buffers /\ c.saved \in Buffers \cup {NULL}
  BY ContextAssumption DEF Call, SwitchOps

(* A word of a context has the type of that word. *)
LEMMA WordType ==
  ASSUME NEW x \in Context, NEW f \in Words
  PROVE  x[f] \in WordOf(f)
  BY DEF Context, Words, WordOf

(* Assigning a word a value of its type keeps a context a context. *)
LEMMA AssignType ==
  ASSUME NEW x \in Context, NEW f \in Words, NEW val \in WordOf(f)
  PROVE  [x EXCEPT ![f] = val] \in Context
<1>1. CASE f = "policy"  BY <1>1 DEF Context, WordOf
<1>2. CASE f = "w0"      BY <1>2 DEF Context, WordOf
<1>3. CASE f = "w1"      BY <1>3 DEF Context, WordOf
<1>4. CASE f = "cleared" BY <1>4 DEF Context, WordOf
<1>5. QED BY <1>1, <1>2, <1>3, <1>4 DEF Words

(* A call assigns a word a value of that word's type. *)
LEMMA ValueType ==
  ASSUME NEW c \in Call, NEW n \in Nat, bufs \in [Buffers -> Context],
         NEW f \in MayAssign(c)
  PROVE  f \in Words /\ Value(c, n, f) \in WordOf(f)
<1>1. c.op \in AllOps BY CallType
<1>2. CASE c.op \in SwitchOps
  <2>1. f \in Words /\ bufs[c.new] \in Context
    BY <1>2, CallType DEF MayAssign, SwitchOps
  <2>2. bufs[c.new][f] \in WordOf(f) BY <2>1, WordType
  <2>3. QED BY <1>2, <2>1, <2>2 DEF Value, SwitchOps
<1>3. CASE c.op \notin SwitchOps
  BY <1>1, <1>3, CallType, ContextAssumption
     DEF AllOps, SwitchOps, MayAssign, Value, WordOf, Words, StartTime, NoBudget, Policies, Norm, Members
<1>4. QED BY <1>2, <1>3

-----------------------------------------------------------------------------
(* Type correctness *)

TypeInv == TypeOK /\ CallInv

LEMMA InitType == Init => TypeInv
<1>1. \A mode \in Modes : InitialContext(mode) \in Context
  BY ContextAssumption DEF InitialContext, NoBudget, Context, Members
<1>2. Init => bufs \in [Buffers -> Context]
  BY ContextAssumption DEF Init
<1>3. Init => loc_ctx \in Context BY <1>1 DEF Init
<1>4. Init => TypeOK
  <2> SUFFICES ASSUME Init PROVE TypeOK
    OBVIOUS
  <2>1. /\ todo \in Seq({"policy", "w0", "w1", "cleared"})
        /\ frames \in Seq([where : {"drain", "handler"}, ctx : Context])
    BY EmptySeq DEF Init
  <2>2. QED BY <1>2, <1>3, <2>1 DEF Init, TypeOK
<1>5. Init => CallInv BY DEF Init, CallInv
<1>6. QED BY <1>4, <1>5 DEF TypeInv

(* Removing the first of the assignments left. *)
LEMMA TailOfTodo ==
  ASSUME NEW S, NEW s \in Seq(S), s # <<>>
  PROVE  /\ Head(s) \in S /\ Head(s) = s[1] /\ 1 \in DOMAIN s
         /\ Tail(s) \in Seq(S)
         /\ \A i \in DOMAIN Tail(s) : i + 1 \in DOMAIN s /\ Tail(s)[i] = s[i + 1]
  OBVIOUS

(* The innermost of the ticks being handled, and the others. *)
LEMMA LastAndRest ==
  ASSUME NEW S, NEW s \in Seq(S), s # <<>>
  PROVE  /\ s[Len(s)] \in S /\ Len(s) \in DOMAIN s
         /\ SubSeq(s, 1, Len(s) - 1) \in Seq(S)
         /\ Len(SubSeq(s, 1, Len(s) - 1)) = Len(s) - 1
         /\ \A i \in 1 .. Len(s) - 1 : SubSeq(s, 1, Len(s) - 1)[i] = s[i]
<1>1. Len(s) \in Nat \ {0} /\ DOMAIN s = 1 .. Len(s) BY EmptySeq, LenProperties
<1>2. \A i \in 1 .. Len(s) : s[i] \in S BY ElementOfSeq
<1>3. QED BY <1>1, <1>2, SubSeqProperties

(* The assignments of a call are among those it may make. *)
LEMMA WritesType ==
  ASSUME NEW c \in Call
  PROVE  /\ Writes(c) \in Seq(Words) /\ PostWrites(c) \in Seq(Words)
         /\ \A i \in DOMAIN Writes(c) : Writes(c)[i] \in MayAssign(c)
         /\ \A i \in DOMAIN PostWrites(c) : PostWrites(c)[i] \in MayAssign(c)
<1> USE DEF SwitchOps, Writes, PostWrites, MayAssign, Words
<1>1. CASE c.op \in {"set_cycles_for_tick", "clear_time_budget", "chained_from_latency"}
  BY <1>1
<1>2. CASE c.op = "set_time_for_throttle" BY <1>2
<1>3. CASE c.op = "set_as_latency_flick" BY <1>3
<1>4. CASE c.op = "set_as_immediate" BY <1>4
<1>5. CASE c.op = "shot_on_latency" BY <1>5
<1>6. CASE c.op = "add_runcycle"
  <2>1. Writes(c) = <<>> /\ PostWrites(c) = <<>> BY <1>6
  <2>2. <<>> \in Seq(Words) /\ \A i \in DOMAIN <<>> : FALSE BY EmptySeq
  <2> HIDE DEF Writes, PostWrites, Words
  <2>3. QED BY <2>1, <2>2
<1>7. CASE c.op \in SwitchOps
  <2>1. /\ Writes(c) = <<"policy", "w0", "w1", "cleared">> /\ PostWrites(c) = <<>>
        /\ MayAssign(c) = Words
    BY <1>7
  <2>2. <<>> \in Seq(Words) /\ \A i \in DOMAIN <<>> : FALSE BY EmptySeq
  <2>3. /\ <<"policy", "w0", "w1", "cleared">> \in Seq(Words)
        /\ \A i \in DOMAIN <<"policy", "w0", "w1", "cleared">> :
             <<"policy", "w0", "w1", "cleared">>[i] \in Words
    OBVIOUS
  <2> HIDE DEF Writes, PostWrites, MayAssign, Words
  <2>4. QED BY <2>1, <2>2, <2>3
<1>8. QED BY <1>1, <1>2, <1>3, <1>4, <1>5, <1>6, <1>7, CallType DEF AllOps

LEMMA NextType == TypeInv /\ [Next]_vars => TypeInv'
<1> SUFFICES ASSUME TypeInv, [Next]_vars PROVE TypeInv'
  OBVIOUS
<1> USE DEF TypeInv
<1>1. ASSUME NEW c \in Call, Enter(c) PROVE TypeInv'
  BY <1>1, WritesType DEF Enter, TypeOK, CallInv, Words
<1>2. CASE Write
  <2>1. call \in Call /\ Head(todo) \in MayAssign(call)
    BY <1>2, TailOfTodo DEF Write, TypeOK, CallInv
  <2>2. loc_ctx' \in Context
    BY <1>2, <2>1, ValueType, AssignType DEF Write, TypeOK
  <2>3. TypeOK' BY <1>2, <2>2, TailOfTodo DEF Write, TypeOK
  <2>4. CallInv' BY <1>2, TailOfTodo DEF Write, TypeOK, CallInv
  <2>5. QED BY <2>3, <2>4
<1>3. CASE Leave BY <1>3 DEF Leave, TypeOK, CallInv
<1>4. CASE DrainTick BY <1>4 DEF DrainTick, Tick, TypeOK, CallInv
<1>5. CASE DrainDone
  BY <1>5, WritesType DEF DrainDone, TypeOK, CallInv, Words
<1>6. CASE Return
  <2>1. bufs' \in [Buffers -> Context]
    BY <1>6, CallType DEF Return, TypeOK, CallInv
  <2>2. QED BY <1>6, <2>1 DEF Return, TypeOK, CallInv
<1>7. CASE PerfSignal
  <2>1. Tick("handler") \in [where : {"drain", "handler"}, ctx : Context]
    BY DEF Tick, TypeOK
  <2>2. frames' \in Seq([where : {"drain", "handler"}, ctx : Context])
    <3> DEFINE F == [where : {"drain", "handler"}, ctx : Context]
    <3>1. frames' = frames \/ frames' = Append(frames, Tick("handler"))
      BY <1>7 DEF PerfSignal
    <3>2. frames \in Seq(F) /\ Tick("handler") \in F BY <2>1 DEF TypeOK
    <3> HIDE DEF F
    <3>3. Append(frames, Tick("handler")) \in Seq(F) BY <3>2, AppendProperties
    <3>4. frames' \in Seq(F) BY <3>1, <3>2, <3>3
    <3>5. QED BY <3>4 DEF F
  <2>3. QED BY <1>7, <2>2 DEF PerfSignal, TypeOK, CallInv
<1>8. CASE TickEnd
  <2>1. /\ frames[Len(frames)] \in [where : {"drain", "handler"}, ctx : Context]
        /\ frames' \in Seq([where : {"drain", "handler"}, ctx : Context])
    BY <1>8, LastAndRest DEF TickEnd, TypeOK
  <2>2. loc_ctx' \in Context
    <3> DEFINE tick == frames[Len(frames)]
    <3>1. CASE tick.ctx.policy \in Norm
      <4>1. loc_ctx' = [loc_ctx EXCEPT !.w1 = [as |-> "norm", v |-> loc_ctx.w1.v + 1]]
        BY <1>8, <3>1 DEF TickEnd, Charged, TypeOK, Context
      <4>2. loc_ctx.w1.v \in Nat BY DEF TypeOK, Context
      <4>3. [as |-> "norm", v |-> loc_ctx.w1.v + 1] \in WordOf("w1")
        BY <4>2 DEF WordOf, Members
      <4>4. QED BY <4>1, <4>3, AssignType DEF TypeOK, Words
    <3>2. CASE tick.ctx.policy \notin Norm BY <1>8, <3>2 DEF TickEnd, TypeOK
    <3>3. QED BY <3>1, <3>2
  <2>3. QED BY <1>8, <2>1, <2>2 DEF TickEnd, TypeOK, CallInv
<1>9. ASSUME NEW v \in CpiValues, CpiSignal(v) PROVE TypeInv'
  BY <1>9, ContextAssumption DEF CpiSignal, TypeOK, CallInv, Context, Members
<1>10. CASE UNCHANGED vars BY <1>10 DEF vars, TypeOK, CallInv
<1>11. QED
  BY <1>1, <1>2, <1>3, <1>4, <1>5, <1>6, <1>7, <1>8, <1>9, <1>10 DEF Next, Program

(* The variables keep their types: whatever the calls, their arguments and   *)
(* the signals, a context stays a context (the copies of a switch and the    *)
(* write-back of a tick included).                                           *)
THEOREM TypeCorrect == Spec => []TypeOK
<1>1. TypeInv => TypeOK BY DEF TypeInv
<1>2. QED BY <1>1, InitType, NextType, PTL DEF Spec

-----------------------------------------------------------------------------
(* Deferred ticks *)

\* in_critical is set exactly in the protected part of the calls that defer
\* ticks, and a tick is pending only there and until the draining is over.
DeferInv ==
  /\ in_critical = 1 <=> pc = "write" /\ call.op \in CriticalOps
  /\ pc = "drain" => call.op \in CriticalOps
  /\ n_signal_pendings > 0 => pc = "drain" \/ (pc = "write" /\ call.op \in CriticalOps)

LEMMA NextDefer == TypeInv /\ DeferInv /\ [Next]_vars => DeferInv'
<1> SUFFICES ASSUME TypeInv, DeferInv, [Next]_vars PROVE DeferInv'
  OBVIOUS
<1> USE DEF DeferInv, TypeInv, TypeOK
<1>1. ASSUME NEW c \in Call, Enter(c) PROVE DeferInv'
  BY <1>1 DEF Enter
<1>2. CASE Write BY <1>2 DEF Write
<1>3. CASE Leave BY <1>3 DEF Leave
<1>4. CASE DrainTick BY <1>4 DEF DrainTick
<1>5. CASE DrainDone BY <1>5 DEF DrainDone, Drained
<1>6. CASE Return BY <1>6 DEF Return
<1>7. CASE PerfSignal BY <1>7 DEF PerfSignal
<1>8. CASE TickEnd BY <1>8 DEF TickEnd
<1>9. ASSUME NEW v \in CpiValues, CpiSignal(v) PROVE DeferInv'
  BY <1>9 DEF CpiSignal
<1>10. CASE UNCHANGED vars BY <1>10 DEF vars
<1>11. QED
  BY <1>1, <1>2, <1>3, <1>4, <1>5, <1>6, <1>7, <1>8, <1>9, <1>10 DEF Next, Program

LEMMA InitDefer == Init => DeferInv
  BY DEF Init, DeferInv

(* No tick is left behind when a call returns: for any number of signals,    *)
(* arriving at any step of any call, handlers that interrupt the draining    *)
(* included.                                                                 *)
THEOREM NoTickIsLeftBehind == Spec => []NoTickLeftBehind
<1>1. TypeInv /\ DeferInv => NoTickLeftBehind
  BY DEF TypeInv, TypeOK, DeferInv, NoTickLeftBehind
<1>2. QED BY <1>1, InitType, NextType, InitDefer, NextDefer, PTL DEF Spec

-----------------------------------------------------------------------------
(* Nested ticks *)

\* The ticks being handled: at most one the program drains, and on top of it
\* at most one in the signal handler.
NestInv ==
  /\ Len(frames) <= 2
  /\ Len(frames) >= 1 /\ frames[1].where = "drain" => pc = "drain"
  /\ Len(frames) = 2 => frames[1].where = "drain" /\ frames[2].where = "handler"

LEMMA NextNest == TypeInv /\ NestInv /\ [Next]_vars => NestInv'
<1> SUFFICES ASSUME TypeInv, NestInv, [Next]_vars PROVE NestInv'
  OBVIOUS
<1> DEFINE F == [where : {"drain", "handler"}, ctx : Context]
<1>a. frames \in Seq(F) BY DEF TypeInv, TypeOK
<1>b. /\ Len(frames) \in {0, 1, 2} /\ DOMAIN frames = 1 .. Len(frames)
      /\ \A i \in DOMAIN frames : frames[i].where \in {"drain", "handler"}
  <2>1. Len(frames) \in Nat /\ DOMAIN frames = 1 .. Len(frames) BY <1>a, LenProperties
  <2>2. \A i \in 1 .. Len(frames) : frames[i] \in F BY <1>a, ElementOfSeq
  <2>3. QED BY <2>1, <2>2 DEF NestInv
<1> USE DEF NestInv
<1>1. ASSUME NEW c \in Call, Enter(c) PROVE NestInv'
  BY <1>1 DEF Enter, Running
<1>2. CASE Write BY <1>2 DEF Write
<1>3. CASE Leave BY <1>3 DEF Leave, Running
<1>4. CASE DrainTick BY <1>4 DEF DrainTick, Tick
<1>5. CASE DrainDone BY <1>5 DEF DrainDone, Running
<1>6. CASE Return BY <1>6 DEF Return, Running
<1>7. CASE PerfSignal
  <2>1. \A i \in 1 .. Len(frames) : frames[i].where = "drain"
    BY <1>7, <1>b DEF PerfSignal, InHandler
  <2>2. Len(frames) <= 1 BY <1>b, <2>1
  <2>3. Tick("handler") \in F BY DEF Tick, TypeInv, TypeOK
  <2>4. CASE frames' = frames BY <1>7, <2>4 DEF PerfSignal
  <2>5. CASE frames' = Append(frames, Tick("handler"))
    <3> HIDE DEF F
    <3>1. /\ Len(frames') = Len(frames) + 1
          /\ \A i \in 1 .. Len(frames) : frames'[i] = frames[i]
          /\ frames'[Len(frames) + 1] = Tick("handler")
      BY <1>a, <2>3, <2>5, AppendProperties
    <3>2. Len(frames) \in {0, 1} BY <1>b, <2>2
    <3>3. pc' = pc BY <1>7 DEF PerfSignal
    <3>4. Tick("handler").where = "handler" BY DEF Tick
    <3>5. QED BY <2>1, <3>1, <3>2, <3>3, <3>4
  <2>6. QED BY <1>7, <2>4, <2>5 DEF PerfSignal
<1>8. CASE TickEnd
  <2>1. /\ frames # <<>> /\ pc' = pc
        /\ frames' = SubSeq(frames, 1, Len(frames) - 1)
    BY <1>8 DEF TickEnd
  <2>2. /\ Len(frames') = Len(frames) - 1
        /\ \A i \in 1 .. Len(frames) - 1 : frames'[i] = frames[i]
    BY <1>a, <2>1, LastAndRest
  <2>3. Len(frames) \in {1, 2} BY <1>a, <1>b, <2>1, EmptySeq
  <2>4. Len(frames') = 1 => frames'[1] = frames[1] /\ Len(frames) = 2 BY <2>2, <2>3
  <2>5. Len(frames') \in {0, 1} BY <2>2, <2>3
  <2>6. pc' = pc BY <2>1
  <2>7. QED BY <1>b, <2>4, <2>5, <2>6
<1>9. ASSUME NEW v \in CpiValues, CpiSignal(v) PROVE NestInv'
  BY <1>9 DEF CpiSignal
<1>10. CASE UNCHANGED vars BY <1>10 DEF vars
<1>11. QED
  BY <1>1, <1>2, <1>3, <1>4, <1>5, <1>6, <1>7, <1>8, <1>9, <1>10 DEF Next, Program

(* Handlers nest at most once, and only in a drained tick.                   *)
THEOREM NestingBounded == Spec => []NestingIsBounded
<1>1. Init => NestInv BY DEF Init, NestInv
<1>2. TypeInv /\ NestInv => NestingIsBounded
  BY DEF TypeInv, TypeOK, NestInv, NestingIsBounded
<1>3. QED BY <1>1, <1>2, InitType, NextType, NextNest, PTL DEF Spec

-----------------------------------------------------------------------------
(* Whole contexts *)

\* Calls made in their policy, and contexts initialised as the policy they name.
Undisturbed ==
  /\ Disciplined
  /\ "LATENCY_ORIENTED" \notin Modes
  /\ \A x \in InitCtxs : Whole(x)

\* The word `f` once the assignments left to the call have been made.
Left(f) == \E i \in DOMAIN todo : todo[i] = f
At(f)   == IF Left(f) THEN Value(call, calls, f) ELSE loc_ctx[f]

WholeWith(p, a0, a1) ==
  /\ p \in Norm => a0.as \in {"norm", "cpi"} /\ a1.as = "norm"
  /\ p = "LATENCY_ORIENTED" => a0.as \in {"lat", "cpi"} /\ a1.as = "lat"

\* Signals find the context whole, and it will be whole when the protected
\* part is left; so are the copies and what the ticks being handled have seen.
WholeInv ==
  /\ in_critical = 0 /\ ~blocked => Whole(loc_ctx)
  /\ pc = "write" => WholeWith(At("policy"), At("w0"), At("w1"))
  /\ Whole(backup) /\ \A b \in Buffers : Whole(bufs[b])
  /\ \A i \in DOMAIN frames : Whole(frames[i].ctx)

\* Where the call stands: what is protected, what runs unprotected, and the
\* policy under which shot_on_latency assigns after draining.
StandInv ==
  /\ blocked <=> pc = "write" /\ call.op = "switch_context_block"
  /\ frames # <<>> => in_critical = 0 /\ ~blocked
  /\ \A i \in DOMAIN frames : frames[i].ctx.policy = loc_ctx.policy
  /\ pc \in {"drain", "post"} /\ todo # <<>> => pc = "post" /\ call.op = "shot_on_latency"
                                                 /\ loc_ctx.policy = "LATENCY_ORIENTED"
  /\ pc \in {"write", "drain"} /\ call.op = "shot_on_latency" => loc_ctx.policy = backup.policy

WriteSet(c) == IF c.op = "shot_on_latency" THEN {"cleared"} ELSE MayAssign(c)

(* The words a call assigns before it drains, as a set.                      *)
LEMMA WritesSet ==
  ASSUME NEW c \in Call, NEW f
  PROVE  (\E i \in DOMAIN Writes(c) : Writes(c)[i] = f) <=> f \in WriteSet(c)
<1> USE DEF SwitchOps, WriteSet, MayAssign, Words
<1>1. CASE c.op \in {"set_cycles_for_tick", "clear_time_budget", "chained_from_latency"}
  <2>1. Writes(c) = <<"w1">> BY <1>1 DEF Writes
  <2>2. QED BY <1>1, <2>1
<1>2. CASE c.op = "set_time_for_throttle"
  <2>1. Writes(c) = <<"w0", "w1">> BY <1>2 DEF Writes
  <2>2. QED BY <1>2, <2>1
<1>3. CASE c.op = "set_as_latency_flick"
  <2>1. Writes(c) = <<"policy", "w0", "w1">> BY <1>3 DEF Writes
  <2>2. QED BY <1>3, <2>1
<1>4. CASE c.op = "set_as_immediate"
  <2>1. Writes(c) = <<"policy">> BY <1>4 DEF Writes
  <2>2. QED BY <1>4, <2>1
<1>5. CASE c.op = "shot_on_latency"
  <2>1. Writes(c) = <<"cleared">> BY <1>5 DEF Writes
  <2>2. QED BY <1>5, <2>1
<1>6. CASE c.op = "add_runcycle"
  <2>1. Writes(c) = <<>> BY <1>6 DEF Writes
  <2>2. \A i \in DOMAIN <<>> : FALSE BY EmptySeq
  <2>3. MayAssign(c) = {} BY <1>6
  <2> HIDE DEF MayAssign
  <2>4. QED BY <1>6, <2>1, <2>2, <2>3
<1>7. CASE c.op \in SwitchOps
  <2>1. Writes(c) = <<"policy", "w0", "w1", "cleared">> BY <1>7 DEF Writes
  <2>2. QED BY <1>7, <2>1
<1>8. QED BY <1>1, <1>2, <1>3, <1>4, <1>5, <1>6, <1>7, CallType DEF AllOps

(* A call made in its policy, of a whole context, makes it whole again.      *)
LEMMA CallKeepsWhole ==
  ASSUME NEW c \in Call, NEW n \in Nat, NEW x \in Context,
         bufs \in [Buffers -> Context], \A b \in Buffers : Whole(bufs[b]),
         Whole(x), InPolicy(c, x), ~Refused(c, x)
  PROVE  LET at(f) == IF f \in WriteSet(c) THEN Value(c, n, f) ELSE x[f]
         IN  WholeWith(at("policy"), at("w0"), at("w1"))
<1> DEFINE at(f) == IF f \in WriteSet(c) THEN Value(c, n, f) ELSE x[f]
<1>1. CASE c.op \in SwitchOps
  <2>1. WriteSet(c) = Words BY <1>1 DEF WriteSet, MayAssign, SwitchOps
  <2>2. \A f : Value(c, n, f) = bufs[c.new][f] BY <1>1 DEF Value, SwitchOps
  <2>3. Whole(bufs[c.new]) BY <1>1, CallType
  <2>4. QED BY <2>1, <2>2, <2>3 DEF Whole, WholeWith, Words
<1>2. CASE c.op = "set_time_for_throttle"
  <2>1. WriteSet(c) = {"w0", "w1"} BY <1>2 DEF WriteSet, MayAssign, SwitchOps
  <2>2. Value(c, n, "w0").as = "norm" /\ Value(c, n, "w1").as = "norm"
    BY <1>2 DEF Value, SwitchOps, NoBudget
  <2>3. x.policy \in Norm BY <1>2 DEF Refused
  <2>4. QED BY <2>1, <2>2, <2>3 DEF WholeWith, Norm
<1>3. CASE c.op \in {"set_cycles_for_tick", "clear_time_budget"}
  <2>1. WriteSet(c) = {"w1"} BY <1>3 DEF WriteSet, MayAssign, SwitchOps
  <2>2. Value(c, n, "w1").as = "norm" BY <1>3 DEF Value, SwitchOps, NoBudget
  <2>3. x.policy \in Norm BY <1>3 DEF Refused, InPolicy
  <2>4. QED BY <2>1, <2>2, <2>3 DEF Whole, WholeWith, Norm
<1>4. CASE c.op = "chained_from_latency"
  <2>1. WriteSet(c) = {"w1"} BY <1>4 DEF WriteSet, MayAssign, SwitchOps
  <2>2. Value(c, n, "w1").as = "lat" BY <1>4 DEF Value, SwitchOps, StartTime
  <2>3. x.policy = "LATENCY_ORIENTED" BY <1>4 DEF InPolicy
  <2>4. QED BY <2>1, <2>2, <2>3 DEF Whole, WholeWith, Norm
<1>5. CASE c.op = "set_as_latency_flick"
  <2>1. WriteSet(c) = {"policy", "w0", "w1"} BY <1>5 DEF WriteSet, MayAssign, SwitchOps
  <2>2. /\ Value(c, n, "policy") = "LATENCY_ORIENTED"
        /\ Value(c, n, "w0").as = "lat" /\ Value(c, n, "w1").as = "lat"
    BY <1>5 DEF Value, SwitchOps, StartTime
  <2>3. QED BY <2>1, <2>2 DEF WholeWith, Norm
<1>6. CASE c.op = "set_as_immediate"
  <2>1. WriteSet(c) = {"policy"} BY <1>6 DEF WriteSet, MayAssign, SwitchOps
  <2>2. Value(c, n, "policy") = "IMMEDIATE" BY <1>6 DEF Value, SwitchOps
  <2>3. QED BY <2>1, <2>2 DEF WholeWith, Norm
<1>7. CASE c.op \in {"shot_on_latency", "add_runcycle"}
  <2>1. "policy" \notin WriteSet(c) /\ "w0" \notin WriteSet(c) /\ "w1" \notin WriteSet(c)
    BY <1>7 DEF WriteSet, MayAssign, SwitchOps
  <2>2. QED BY <2>1 DEF Whole, WholeWith
<1>8. QED
  BY <1>1, <1>2, <1>3, <1>4, <1>5, <1>6, <1>7, CallType DEF AllOps, SwitchOps

(* The stack of ticks as it grows and shrinks.                               *)
LEMMA FramesGrow ==
  ASSUME TypeInv, frames' = Append(frames, Tick("handler"))
  PROVE  /\ DOMAIN frames' = 1 .. Len(frames) + 1 /\ DOMAIN frames = 1 .. Len(frames)
         /\ Len(frames) \in Nat
         /\ \A i \in 1 .. Len(frames) : frames'[i] = frames[i]
         /\ frames'[Len(frames) + 1] = Tick("handler")
<1> DEFINE F == [where : {"drain", "handler"}, ctx : Context]
<1>1. frames \in Seq(F) /\ Tick("handler") \in F BY DEF TypeInv, TypeOK, Tick
<1> HIDE DEF F
<1>2. QED BY <1>1, AppendProperties, LenProperties

LEMMA FramesShrink ==
  ASSUME TypeInv, TickEnd
  PROVE  /\ Len(frames) \in DOMAIN frames
         /\ \A i \in DOMAIN frames' : i \in DOMAIN frames /\ frames'[i] = frames[i]
<1> DEFINE F == [where : {"drain", "handler"}, ctx : Context]
<1>1. frames \in Seq(F) BY DEF TypeInv, TypeOK
<1>2. frames # <<>> /\ frames' = SubSeq(frames, 1, Len(frames) - 1) BY DEF TickEnd
<1> HIDE DEF F
<1>3. /\ Len(frames) \in DOMAIN frames /\ frames' \in Seq(F)
      /\ Len(frames') = Len(frames) - 1
      /\ \A i \in 1 .. Len(frames) - 1 : frames'[i] = frames[i]
  BY <1>1, <1>2, LastAndRest
<1>4. /\ DOMAIN frames' = 1 .. Len(frames) - 1 /\ DOMAIN frames = 1 .. Len(frames)
      /\ Len(frames) \in Nat
  BY <1>1, <1>3, LenProperties
<1>5. QED BY <1>3, <1>4

LEMMA NextStand == TypeInv /\ DeferInv /\ StandInv /\ [Next]_vars => StandInv'
<1> SUFFICES ASSUME TypeInv, DeferInv, StandInv, [Next]_vars PROVE StandInv'
  OBVIOUS
<1> USE DEF StandInv
<1>1. ASSUME NEW c \in Call, Enter(c) PROVE StandInv'
  BY <1>1 DEF Enter, Running
<1>2. CASE Write
  <2>1. /\ frames' = <<>> /\ frames = <<>> /\ pc \in {"write", "post"} /\ call \in Call
        /\ UNCHANGED <<pc, call, blocked, in_critical, backup>>
        /\ loc_ctx' = [loc_ctx EXCEPT ![Head(todo)] = Value(call, calls, Head(todo))]
    BY <1>2 DEF Write, Running, TypeInv, CallInv
  <2>2. call.op = "shot_on_latency" => Head(todo) \in {"w1", "cleared"}
    BY <1>2, TailOfTodo DEF Write, TypeInv, TypeOK, CallInv, MayAssign, SwitchOps
  <2>3. call.op = "shot_on_latency" => loc_ctx'.policy = loc_ctx.policy
    BY <2>1, <2>2 DEF TypeInv, TypeOK, Context
  <2>4. todo # <<>> BY <1>2 DEF Write
  <2>5. pc = "post" => call.op = "shot_on_latency" /\ loc_ctx.policy = "LATENCY_ORIENTED"
    BY <2>4
  <2>6. QED BY <2>1, <2>3, <2>5
<1>3. CASE Leave BY <1>3 DEF Leave, Running
<1>4. CASE DrainTick
  <2>1. frames' = <<[where |-> "drain", ctx |-> loc_ctx]>> BY <1>4 DEF DrainTick, Tick
  <2>2. in_critical = 0 /\ ~blocked BY <1>4 DEF DrainTick, DeferInv, TypeInv, TypeOK
  <2>3. QED BY <1>4, <2>1, <2>2 DEF DrainTick
<1>5. CASE DrainDone
  <2>1. todo' # <<>> => call.op = "shot_on_latency" /\ backup.policy = "LATENCY_ORIENTED"
    BY <1>5 DEF DrainDone, PostWrites, Refused
  <2>2. QED BY <1>5, <2>1 DEF DrainDone, Running
<1>6. CASE Return BY <1>6 DEF Return, Running
<1>7. CASE PerfSignal
  <2>1. UNCHANGED <<loc_ctx, in_critical, blocked, pc, call, todo, backup>>
    BY <1>7 DEF PerfSignal
  <2>2. CASE in_critical = 1 /\ frames' = frames BY <2>1, <2>2
  <2>3. CASE in_critical = 0 /\ frames' = Append(frames, Tick("handler"))
    <3>1. /\ DOMAIN frames' = 1 .. Len(frames) + 1 /\ DOMAIN frames = 1 .. Len(frames)
          /\ Len(frames) \in Nat
          /\ \A i \in 1 .. Len(frames) : frames'[i] = frames[i]
          /\ frames'[Len(frames) + 1] = Tick("handler")
      BY <2>3, FramesGrow
    <3>2. Tick("handler").ctx = loc_ctx BY DEF Tick
    <3>3. ~blocked BY <1>7 DEF PerfSignal
    <3>4. \A i \in DOMAIN frames' : frames'[i].ctx.policy = loc_ctx.policy
      BY <3>1, <3>2
    <3>5. QED BY <2>1, <2>3, <3>3, <3>4
  <2>4. QED BY <1>7, <2>2, <2>3 DEF PerfSignal
<1>8. CASE TickEnd
  <2>1. loc_ctx'.policy = loc_ctx.policy
    BY <1>8 DEF TickEnd, Charged, TypeInv, TypeOK, Context
  <2>2. \A i \in DOMAIN frames' : i \in DOMAIN frames /\ frames'[i] = frames[i]
    BY <1>8, FramesShrink
  <2>3. frames # <<>> /\ UNCHANGED <<in_critical, blocked, pc, call, todo, backup>>
    BY <1>8 DEF TickEnd
  <2>4. QED BY <2>1, <2>2, <2>3
<1>9. ASSUME NEW v \in CpiValues, CpiSignal(v) PROVE StandInv'
  <2>1. loc_ctx'.policy = loc_ctx.policy
    BY <1>9 DEF CpiSignal, TypeInv, TypeOK, Context
  <2>2. QED BY <1>9, <2>1 DEF CpiSignal
<1>10. CASE UNCHANGED vars BY <1>10 DEF vars
<1>11. QED
  BY <1>1, <1>2, <1>3, <1>4, <1>5, <1>6, <1>7, <1>8, <1>9, <1>10 DEF Next, Program

LEMMA NextWhole ==
  ASSUME Undisturbed
  PROVE  TypeInv /\ DeferInv /\ StandInv /\ WholeInv /\ [Next]_vars => WholeInv'
<1> SUFFICES ASSUME TypeInv, DeferInv, StandInv, WholeInv, [Next]_vars PROVE WholeInv'
  OBVIOUS
<1>a. /\ loc_ctx \in Context /\ backup \in Context /\ bufs \in [Buffers -> Context]
      /\ in_critical \in {0, 1} /\ calls \in Nat /\ todo \in Seq(Words)
  BY DEF TypeInv, TypeOK, Words
<1>1. ASSUME NEW c \in Call, Enter(c) PROVE WholeInv'
  <2>1. Whole(loc_ctx) BY <1>1, <1>a DEF Enter, WholeInv, StandInv, DeferInv
  <2>2. WholeWith(At("policy"), At("w0"), At("w1"))'
    <3>1. CASE Refused(c, loc_ctx)
      <4>1. todo' = <<>> /\ loc_ctx' = loc_ctx BY <1>1, <3>1 DEF Enter
      <4>2. \A i \in DOMAIN <<>> : FALSE BY EmptySeq
      <4>3. \A f : ~Left(f)' BY <4>1, <4>2 DEF Left
      <4>4. QED BY <2>1, <4>1, <4>3 DEF At, Whole, WholeWith
    <3>2. CASE ~Refused(c, loc_ctx)
      <4> DEFINE at(f) == IF f \in WriteSet(c) THEN Value(c, calls + 1, f) ELSE loc_ctx[f]
      <4>1. /\ todo' = Writes(c) /\ loc_ctx' = loc_ctx /\ bufs' = bufs
            /\ call' = c /\ calls' = calls + 1
        BY <1>1, <3>2 DEF Enter
      <4>2. \A f : Left(f)' <=> f \in WriteSet(c) BY <4>1, WritesSet DEF Left
      <4>3. \A f : Value(c, calls + 1, f) = Value(call, calls, f)' BY <4>1 DEF Value
      <4>4. /\ At("policy")' = at("policy") /\ At("w0")' = at("w0") /\ At("w1")' = at("w1")
        BY <4>1, <4>2, <4>3 DEF At
      <4>5. InPolicy(c, loc_ctx) BY <1>1 DEF Enter, Undisturbed
      <4>6. WholeWith(at("policy"), at("w0"), at("w1"))
        BY <1>a, <2>1, <3>2, <4>5, CallKeepsWhole DEF WholeInv
      <4> HIDE DEF at
      <4>7. QED BY <4>4, <4>6 DEF WholeWith
    <3>3. QED BY <3>1, <3>2
  <2>3. /\ Whole(backup') /\ \A b \in Buffers : Whole(bufs'[b])
        /\ Whole(loc_ctx') /\ \A i \in DOMAIN frames' : Whole(frames'[i].ctx)
    BY <1>1, <2>1 DEF Enter, WholeInv
  <2>4. QED BY <2>2, <2>3 DEF WholeInv
<1>2. CASE Write
  <2>1. /\ frames' = frames /\ pc \in {"write", "post"} /\ call \in Call /\ todo # <<>>
        /\ UNCHANGED <<pc, call, calls, blocked, in_critical, backup, bufs>>
        /\ loc_ctx' = [loc_ctx EXCEPT ![Head(todo)] = Value(call, calls, Head(todo))]
        /\ todo' = Tail(todo)
    BY <1>2 DEF Write, Running, TypeInv, CallInv
  <2>2. /\ Head(todo) \in Words /\ Head(todo) = todo[1] /\ 1 \in DOMAIN todo
        /\ \A i \in DOMAIN Tail(todo) : i + 1 \in DOMAIN todo /\ Tail(todo)[i] = todo[i + 1]
        /\ Head(todo) \in MayAssign(call)
    BY <1>a, <2>1, TailOfTodo DEF TypeInv, CallInv
  <2>3. \A f : Value(call, calls, f)' = Value(call, calls, f) BY <2>1 DEF Value
  <2>4. \A f \in Words : loc_ctx'[f] = IF f = Head(todo) THEN Value(call, calls, f) ELSE loc_ctx[f]
    BY <1>a, <2>1, <2>2 DEF Context, Words
  <2>5. \A f \in Words : At(f)' = At(f)
    <3>1. \A f : Left(f) <=> f = Head(todo) \/ Left(f)'
      <4>1. DOMAIN todo = 1 .. Len(todo) /\ DOMAIN Tail(todo) = 1 .. Len(todo) - 1
            /\ Len(todo) \in Nat
        BY <1>a, <2>1, HeadTailProperties, LenProperties
      <4>2. \A i \in DOMAIN todo : i = 1 \/ (i - 1 \in DOMAIN Tail(todo) /\ Tail(todo)[i - 1] = todo[i])
        BY <2>2, <4>1
      <4>3. QED BY <2>1, <2>2, <4>2 DEF Left
    <3>2. QED BY <2>3, <2>4, <3>1 DEF At
  <2>6. pc = "write" => WholeWith(At("policy"), At("w0"), At("w1"))'
    BY <2>5 DEF WholeInv, WholeWith, Words
  <2>7. in_critical = 0 /\ ~blocked => Whole(loc_ctx')
    <3> SUFFICES ASSUME in_critical = 0, ~blocked PROVE Whole(loc_ctx')
      OBVIOUS
    <3>1. CASE pc = "write"
      <4>1. call.op = "set_as_immediate"
        BY <2>1, <3>1, CallType DEF DeferInv, StandInv, CriticalOps
      <4>2. Head(todo) = "policy" BY <2>2, <4>1 DEF MayAssign, SwitchOps
      <4>3. Value(call, calls, "policy") = "IMMEDIATE" BY <4>1 DEF Value, SwitchOps
      <4>4. loc_ctx'.policy = "IMMEDIATE" BY <2>4, <4>2, <4>3 DEF Words
      <4>5. QED BY <4>4 DEF Whole, Norm
    <3>2. CASE pc = "post"
      <4>1. call.op = "shot_on_latency" /\ loc_ctx.policy = "LATENCY_ORIENTED" /\ Whole(loc_ctx)
        BY <2>1, <3>2 DEF StandInv, WholeInv
      <4>2. Head(todo) \in {"cleared", "w1"} BY <2>2, <4>1 DEF MayAssign, SwitchOps
      <4>3. Value(call, calls, "w1").as = "lat" BY <4>1 DEF Value, SwitchOps, StartTime
      <4>4. /\ loc_ctx'.policy = "LATENCY_ORIENTED" /\ loc_ctx'.w0.as \in {"lat", "cpi"}
            /\ loc_ctx'.w1.as = "lat"
        BY <2>4, <4>1, <4>2, <4>3 DEF Words, Whole
      <4>5. QED BY <4>4 DEF Whole, Norm
    <3>3. QED BY <2>1, <3>1, <3>2
  <2>8. QED BY <2>1, <2>6, <2>7 DEF WholeInv
<1>3. CASE Leave
  <2>1. /\ todo = <<>> /\ pc = "write" /\ pc' # "write"
        /\ UNCHANGED <<loc_ctx, backup, bufs, frames>>
    BY <1>3 DEF Leave
  <2>2. \A i \in DOMAIN <<>> : FALSE BY EmptySeq
  <2>3. \A f : At(f) = loc_ctx[f] BY <2>1, <2>2 DEF At, Left
  <2>4. Whole(loc_ctx) BY <2>1, <2>3 DEF WholeInv, Whole, WholeWith
  <2>5. QED BY <2>1, <2>4 DEF WholeInv
<1>4. CASE DrainTick
  <2>1. frames' = <<[where |-> "drain", ctx |-> loc_ctx]>> BY <1>4 DEF DrainTick, Tick
  <2>2. Whole(loc_ctx) BY <1>4, <1>a DEF DrainTick, WholeInv, DeferInv, StandInv
  <2>3. QED BY <1>4, <2>1, <2>2 DEF DrainTick, WholeInv
<1>5. CASE DrainDone BY <1>5 DEF DrainDone, WholeInv
<1>6. CASE Return
  <2>1. \A b \in Buffers : bufs'[b] = bufs[b] \/ bufs'[b] = backup
    BY <1>6, <1>a DEF Return
  <2>2. UNCHANGED <<loc_ctx, in_critical, blocked, backup, frames>> /\ pc' = "app"
    BY <1>6 DEF Return
  <2>3. QED BY <2>1, <2>2 DEF WholeInv
<1>7. CASE PerfSignal
  <2>1. UNCHANGED <<loc_ctx, in_critical, blocked, pc, call, calls, todo, backup, bufs>>
    BY <1>7 DEF PerfSignal
  <2>2. \A f : At(f)' = At(f) BY <2>1 DEF At, Left, Value
  <2>3. \A i \in DOMAIN frames' : Whole(frames'[i].ctx)
    <3>1. CASE frames' = frames BY <3>1 DEF WholeInv
    <3>2. CASE in_critical = 0 /\ frames' = Append(frames, Tick("handler"))
      <4>1. Whole(Tick("handler").ctx) BY <1>7, <3>2 DEF PerfSignal, WholeInv, Tick
      <4>2. QED BY <3>2, <4>1, FramesGrow DEF WholeInv
    <3>3. QED BY <1>7, <3>1, <3>2 DEF PerfSignal
  <2>4. QED BY <2>1, <2>2, <2>3 DEF WholeInv, WholeWith
<1>8. CASE TickEnd
  <2>1. \A i \in DOMAIN frames' : i \in DOMAIN frames /\ frames'[i] = frames[i]
    BY <1>8, FramesShrink
  <2>2. /\ frames # <<>>
        /\ UNCHANGED <<in_critical, blocked, pc, call, calls, todo, backup, bufs>>
    BY <1>8 DEF TickEnd
  <2>3. in_critical = 0 /\ ~blocked /\ Whole(loc_ctx) BY <2>2 DEF StandInv, WholeInv
  <2>4. Whole(loc_ctx')
    <3> DEFINE tick == frames[Len(frames)]
    <3>1. tick.ctx.policy = loc_ctx.policy BY <1>8, FramesShrink DEF StandInv
    <3>2. CASE loc_ctx.policy \in Norm
      <4>1. loc_ctx' = Charged BY <1>8, <3>1, <3>2 DEF TickEnd
      <4>2. /\ loc_ctx'.policy = loc_ctx.policy /\ loc_ctx'.w0 = loc_ctx.w0
            /\ loc_ctx'.w1.as = "norm"
        BY <1>a, <4>1 DEF Charged, Context
      <4>3. QED BY <2>3, <3>2, <4>2 DEF Whole, Norm
    <3>3. CASE loc_ctx.policy \notin Norm
      BY <1>8, <2>3, <3>1, <3>3 DEF TickEnd
    <3>4. QED BY <3>2, <3>3
  <2>5. pc = "write" => WholeWith(At("policy"), At("w0"), At("w1"))'
    <3> SUFFICES ASSUME pc = "write" PROVE WholeWith(At("policy"), At("w0"), At("w1"))'
      OBVIOUS
    <3>1. call \in Call /\ call.op = "set_as_immediate"
      BY <2>3, CallType DEF DeferInv, StandInv, CriticalOps, TypeInv, CallInv
    <3>2. \A i \in DOMAIN todo : todo[i] = "policy"
      BY <3>1 DEF TypeInv, CallInv, MayAssign, SwitchOps
    <3>3. Value(call, calls, "policy") = "IMMEDIATE" BY <3>1 DEF Value, SwitchOps
    <3>4. CASE Left("policy")
      <4>1. At("policy")' = "IMMEDIATE"
        BY <2>2, <3>3, <3>4 DEF At, Left, Value
      <4>2. QED BY <4>1 DEF WholeWith, Norm
    <3>5. CASE ~Left("policy")
      <4>1. At("policy")' = loc_ctx'.policy /\ At("w0")' = loc_ctx'.w0 /\ At("w1")' = loc_ctx'.w1
        BY <2>2, <3>2, <3>5 DEF At, Left
      <4>2. QED BY <2>4, <4>1 DEF Whole, WholeWith
    <3>6. QED BY <3>4, <3>5
  <2>6. QED BY <2>1, <2>2, <2>4, <2>5 DEF WholeInv
<1>9. ASSUME NEW v \in CpiValues, CpiSignal(v) PROVE WholeInv'
  <2>1. /\ UNCHANGED <<in_critical, blocked, pc, call, calls, todo, backup, bufs, frames>>
        /\ loc_ctx' = [loc_ctx EXCEPT !.w0 = [as |-> "cpi", v |-> v]]
    BY <1>9 DEF CpiSignal
  <2>2. loc_ctx'.policy = loc_ctx.policy /\ loc_ctx'.w1 = loc_ctx.w1 /\ loc_ctx'.w0.as = "cpi"
    BY <1>a, <2>1 DEF Context
  <2>3. /\ At("policy")' = At("policy") /\ At("w1")' = At("w1")
        /\ At("w0")' = At("w0") \/ At("w0")'.as = "cpi"
    <3>1. \A f : (Left(f)' <=> Left(f)) /\ Value(call, calls, f)' = Value(call, calls, f)
      BY <2>1 DEF Left, Value
    <3>2. QED BY <2>2, <3>1 DEF At
  <2>4. in_critical = 0 /\ ~blocked => Whole(loc_ctx')
    BY <2>2 DEF WholeInv, Whole
  <2>5. pc = "write" => WholeWith(At("policy"), At("w0"), At("w1"))'
    BY <2>3 DEF WholeInv, WholeWith
  <2>6. QED BY <2>1, <2>4, <2>5 DEF WholeInv
<1>10. CASE UNCHANGED vars
  <2>1. UNCHANGED <<loc_ctx, in_critical, blocked, pc, call, calls, todo, backup, bufs, frames>>
    BY <1>10 DEF vars
  <2>2. \A f : At(f)' = At(f) BY <2>1 DEF At, Left, Value
  <2>3. QED BY <2>1, <2>2 DEF WholeInv, WholeWith
<1>11. QED
  BY <1>1, <1>2, <1>3, <1>4, <1>5, <1>6, <1>7, <1>8, <1>9, <1>10 DEF Next, Program

LEMMA InitWhole ==
  ASSUME Undisturbed
  PROVE  Init => StandInv /\ WholeInv
<1> SUFFICES ASSUME Init PROVE StandInv /\ WholeInv
  OBVIOUS
<1>1. StandInv BY DEF Init, StandInv
<1>2. Whole(loc_ctx)
  <2>1. PICK mode \in Modes : loc_ctx = InitialContext(mode) BY DEF Init
  <2>2. QED BY <2>1 DEF Undisturbed, InitialContext, NoBudget, Whole
<1>3. \A b \in Buffers : Whole(bufs[b]) BY DEF Init, Undisturbed
<1>4. WholeInv BY <1>2, <1>3 DEF Init, WholeInv
<1>5. QED BY <1>1, <1>4

(* No tick acts on half a context: whatever calls are made, in the policy    *)
(* they expect, and wherever the signals arrive, a tick finds a policy and   *)
(* the demand of that policy, or a time slice the daemon's signal stored.    *)
THEOREM TicksAreWhole ==
  ASSUME Undisturbed
  PROVE  Spec => []TicksSeeWholeContext
<1>1. Init => TypeInv /\ DeferInv /\ StandInv /\ WholeInv
  BY InitType, InitDefer, InitWhole
<1>2. TypeInv /\ DeferInv /\ StandInv /\ WholeInv /\ [Next]_vars
        => (TypeInv /\ DeferInv /\ StandInv /\ WholeInv)'
  BY NextType, NextDefer, NextStand, NextWhole
<1>3. WholeInv => TicksSeeWholeContext BY DEF WholeInv, TicksSeeWholeContext
<1>4. QED BY <1>1, <1>2, <1>3, PTL DEF Spec

-----------------------------------------------------------------------------
(* The calls are atomic *)

\* What AtomicContext sees of the state, beside Stored and handled.
View   == [f \in DOMAIN loc_ctx |-> Assigned(f)]
Called == IF NotBegun THEN calls - 1 ELSE calls

\* A call under way has all its assignments before it, or fewer; and one that
\* has not made the first is not refused.
PlaceInv ==
  pc = "write" =>
    /\ todo = Writes(call) \/ Len(todo) < Len(Writes(call))
    /\ NotBegun => ~ Refused(call, loc_ctx)

\* A context is its four words.
LEMMA ContextWords ==
  /\ \A x \in Context : x = [policy |-> x.policy, w0 |-> x.w0, w1 |-> x.w1, cleared |-> x.cleared]
                        /\ DOMAIN x = Words
  /\ \A x, y \in Context : (\A f \in Words : x[f] = y[f]) => x = y
BY DEF Context, Words

\* What a call assigns after it has drained.
LEMMA PostWritesSet ==
  ASSUME NEW c, NEW f
  PROVE  (\E i \in DOMAIN PostWrites(c) : PostWrites(c)[i] = f) <=> c.op = "shot_on_latency" /\ f = "w1"
<1>1. CASE c.op = "shot_on_latency"
  <2>1. PostWrites(c) = <<"w1">>
    BY <1>1 DEF PostWrites
  <2> QED
    BY <1>1, <2>1
<1>2. CASE c.op # "shot_on_latency"
  <2>1. PostWrites(c) = <<>> /\ \A i \in DOMAIN <<>> : FALSE
    BY <1>2, EmptySeq DEF PostWrites
  <2> QED
    BY <1>2, <2>1
<1> QED
  BY <1>1, <1>2

\* What is seen is a context, and the one in use unless a call owes it words.
LEMMA ViewType ==
  ASSUME TypeInv
  PROVE  /\ View \in Context
         /\ \A f \in Words : View[f] = Assigned(f)
         /\ (NotBegun \/ \A f \in Words : ~ Owed(f)) => View = loc_ctx
<1>1. loc_ctx \in Context /\ DOMAIN loc_ctx = Words
  BY ContextWords DEF TypeInv, TypeOK
<1>2. \A f \in Words : View[f] = Assigned(f)
  BY <1>1 DEF View
<1>3. \A f \in Words : Assigned(f) \in WordOf(f)
  <2>1. ASSUME NEW f, Owed(f) PROVE call \in Call /\ f \in MayAssign(call)
    <3>1. call \in Call
      BY <2>1 DEF Owed, TypeInv, CallInv
    <3>2. CASE \E i \in DOMAIN todo : todo[i] = f
      BY <3>1, <3>2 DEF TypeInv, CallInv
    <3>3. CASE \E i \in DOMAIN PostWrites(call) : PostWrites(call)[i] = f
      BY <3>1, <3>3, WritesType
    <3> QED
      BY <2>1, <3>1, <3>2, <3>3 DEF Owed
  <2>2. ASSUME NEW f, Owed(f) PROVE Value(call, calls, f) \in WordOf(f)
    BY <2>1, <2>2, ValueType DEF TypeInv, TypeOK
  <2> QED
    BY <1>1, <2>2, WordType DEF Assigned
<1>4. View \in Context
  <2>1. View = [policy |-> Assigned("policy"), w0 |-> Assigned("w0"), w1 |-> Assigned("w1"),
                cleared |-> Assigned("cleared")]
    BY <1>1 DEF View, Words
  <2> QED
    BY <1>3, <2>1 DEF Context, WordOf, Words
<1>5. ASSUME NotBegun \/ \A f \in Words : ~ Owed(f) PROVE View = loc_ctx
  <2>1. \A f \in Words : View[f] = loc_ctx[f]
    BY <1>2, <1>5 DEF Assigned
  <2> QED
    BY <1>1, <1>4, <2>1, ContextWords
<1> QED
  BY <1>2, <1>4, <1>5

\* AtomicContext knows the same calls.
LEMMA SameCalls ==
  /\ Atomic!Call = Call /\ Atomic!SwitchOps = SwitchOps /\ Atomic!Norm = Norm
  /\ \A c, x : Atomic!Refused(c, x) <=> Refused(c, x)
  /\ Atomic!NoBudget = NoBudget /\ \A n : Atomic!StartTime(n) = StartTime(n)
  /\ \A mode : Atomic!InitialContext(mode) = InitialContext(mode)
BY DEF Atomic!Call, Call, Atomic!SwitchOps, SwitchOps, Atomic!Norm, Norm, Atomic!Refused, Refused,
       Atomic!NoBudget, NoBudget, Atomic!StartTime, StartTime, Atomic!InitialContext, InitialContext

\* A context with some words assigned, as its four words.
Words4(p, a, b, n) == [policy |-> p, w0 |-> a, w1 |-> b, cleared |-> n]
LEMMA AssignedWords ==
  ASSUME NEW x \in Context, NEW p, NEW a, NEW b
  PROVE  /\ x = Words4(x.policy, x.w0, x.w1, x.cleared)
         /\ [x EXCEPT !.policy = p] = Words4(p, x.w0, x.w1, x.cleared)
         /\ [x EXCEPT !.w0 = a] = Words4(x.policy, a, x.w1, x.cleared)
         /\ [x EXCEPT !.w1 = b] = Words4(x.policy, x.w0, b, x.cleared)
         /\ [x EXCEPT !.w0 = a, !.w1 = b] = Words4(x.policy, a, b, x.cleared)
         /\ [x EXCEPT !.policy = p, !.w0 = a, !.w1 = b] = Words4(p, a, b, x.cleared)
<1>1. x = Words4(x.policy, x.w0, x.w1, x.cleared)
  BY ContextWords DEF Words4
<1>2. ASSUME NEW q, NEW c, NEW d, NEW n
      PROVE  /\ [Words4(q, c, d, n) EXCEPT !.policy = p] = Words4(p, c, d, n)
             /\ [Words4(q, c, d, n) EXCEPT !.w0 = a] = Words4(q, a, d, n)
             /\ [Words4(q, c, d, n) EXCEPT !.w1 = b] = Words4(q, c, b, n)
  BY DEF Words4
<1> DEFINE q == x.policy
           c == x.w0
           d == x.w1
           n == x.cleared
<1>3. x = Words4(q, c, d, n)
  BY <1>1
<1> HIDE DEF q, c, d, n
<1>4. /\ [x EXCEPT !.policy = p] = Words4(p, c, d, n)
      /\ [x EXCEPT !.w0 = a] = Words4(q, a, d, n)
      /\ [x EXCEPT !.w1 = b] = Words4(q, c, b, n)
  BY <1>2, <1>3
<1>5. ASSUME NEW y, y = [x EXCEPT !.w0 = a] PROVE [y EXCEPT !.w1 = b] = Words4(q, a, b, n)
  <2>1. y = Words4(q, a, d, n)
    BY <1>4, <1>5
  <2>2. [Words4(q, a, d, n) EXCEPT !.w1 = b] = Words4(q, a, b, n)
    BY <1>2
  <2> QED
    BY <2>1, <2>2
<1>6. ASSUME NEW y, y = [x EXCEPT !.policy = p], NEW z, z = [y EXCEPT !.w0 = a]
      PROVE  [z EXCEPT !.w1 = b] = Words4(p, a, b, n)
  <2>1. y = Words4(p, c, d, n)
    BY <1>4, <1>6
  <2>2. [Words4(p, c, d, n) EXCEPT !.w0 = a] = Words4(p, a, d, n)
    BY <1>2
  <2>3. z = Words4(p, a, d, n)
    BY <1>6, <2>1, <2>2
  <2>4. [Words4(p, a, d, n) EXCEPT !.w1 = b] = Words4(p, a, b, n)
    BY <1>2
  <2> QED
    BY <2>3, <2>4
<1> QED
  BY <1>3, <1>4, <1>5, <1>6 DEF q, c, d, n

\* What the atomic calls make of a context, word by word.
LEMMA EffectWords ==
  ASSUME NEW c \in Call, NEW n, NEW x \in Context, ~ Refused(c, x)
  PROVE  /\ c.op = "add_runcycle" => Atomic!Effect(c, n, x) = Words4(x.policy, x.w0, x.w1, x.cleared)
         /\ c.op \in {"set_cycles_for_tick", "clear_time_budget"} =>
              Atomic!Effect(c, n, x) = Words4(x.policy, x.w0, NoBudget, x.cleared)
         /\ c.op = "set_time_for_throttle" =>
              Atomic!Effect(c, n, x) = Words4(x.policy, [as |-> "norm", v |-> c.slice], NoBudget, x.cleared)
         /\ c.op = "set_as_immediate" =>
              Atomic!Effect(c, n, x) = Words4("IMMEDIATE", x.w0, x.w1, x.cleared)
         /\ c.op = "set_as_latency_flick" =>
              Atomic!Effect(c, n, x) = Words4("LATENCY_ORIENTED", [as |-> "lat", v |-> 0], StartTime(n), x.cleared)
         /\ c.op = "chained_from_latency" =>
              Atomic!Effect(c, n, x) = Words4(x.policy, x.w0, StartTime(n), x.cleared)
         /\ c.op = "shot_on_latency" =>
              Atomic!Effect(c, n, x) = Words4(x.policy, x.w0, StartTime(n), n)
         /\ c.op \in SwitchOps => Atomic!Effect(c, n, x) = Stored[c.new]
<1>1. ~ Atomic!Refused(c, x)
  BY SameCalls
<1>2. Atomic!NoBudget = NoBudget /\ Atomic!StartTime(n) = StartTime(n) /\ Atomic!SwitchOps = {"switch_context", "switch_context_block"}
  BY SameCalls DEF SwitchOps
<1>w. x = Words4(x.policy, x.w0, x.w1, x.cleared)
  BY AssignedWords
<1>w0. ASSUME NEW a, NEW b PROVE [x EXCEPT !.w0 = a, !.w1 = b] = Words4(x.policy, a, b, x.cleared)
  BY AssignedWords
<1>w1. ASSUME NEW b PROVE [x EXCEPT !.w1 = b] = Words4(x.policy, x.w0, b, x.cleared)
  BY AssignedWords
<1>p. ASSUME NEW p PROVE [x EXCEPT !.policy = p] = Words4(p, x.w0, x.w1, x.cleared)
  BY AssignedWords
<1>p3. ASSUME NEW p, NEW a, NEW b
       PROVE  [x EXCEPT !.policy = p, !.w0 = a, !.w1 = b] = Words4(p, a, b, x.cleared)
  <2>1. ASSUME NEW y, y = [x EXCEPT !.policy = p], NEW z, z = [y EXCEPT !.w0 = a]
        PROVE  [z EXCEPT !.w1 = b] = Words4(p, a, b, x.cleared)
    <3>1. y = Words4(p, x.w0, x.w1, x.cleared)
      BY <2>1, <1>p
    <3>2. z = Words4(p, a, x.w1, x.cleared)
      BY <2>1, <3>1 DEF Words4
    <3> QED
      BY <3>2 DEF Words4
  <2> QED
    BY <2>1
<1>3. CASE c.op = "add_runcycle"
  <2>1. Atomic!Effect(c, n, x) = x
    BY <1>3 DEF Atomic!Effect
  <2> QED
    BY <1>3, <1>w, <2>1 DEF SwitchOps
<1>4. CASE c.op \in {"set_cycles_for_tick", "clear_time_budget"}
  <2>1. Atomic!Effect(c, n, x) = [x EXCEPT !.w1 = NoBudget]
    BY <1>1, <1>2, <1>4 DEF Atomic!Effect
  <2>2. @ = Words4(x.policy, x.w0, NoBudget, x.cleared)
    BY <1>w1
  <2> QED
    BY <1>4, <2>1, <2>2 DEF SwitchOps
<1>5. CASE c.op = "set_time_for_throttle"
  <2>0. c.op # "add_runcycle" /\ c.op \notin {"set_cycles_for_tick", "clear_time_budget"}
        /\ c.op # "set_as_immediate" /\ c.op # "set_as_latency_flick" /\ c.op # "chained_from_latency"
        /\ c.op # "shot_on_latency" /\ c.op \notin Atomic!SwitchOps
    BY <1>2, <1>5
  <2>1. ASSUME NEW z, z = [x EXCEPT !.w0 = [as |-> "norm", v |-> c.slice], !.w1 = Atomic!NoBudget]
        PROVE  Atomic!Effect(c, n, x) = z
    BY <1>1, <1>5, <2>0, <2>1, ZenonT(30) DEF Atomic!Effect
  <2>2. ASSUME NEW a, a = [as |-> "norm", v |-> c.slice], NEW z, z = [x EXCEPT !.w0 = a, !.w1 = NoBudget]
        PROVE  z = Words4(x.policy, a, NoBudget, x.cleared)
    BY <1>w0, <2>2
  <2>3. Atomic!Effect(c, n, x) = Words4(x.policy, [as |-> "norm", v |-> c.slice], NoBudget, x.cleared)
    BY <1>2, <2>1, <2>2
  <2> QED
    BY <1>5, <2>3 DEF SwitchOps
<1>6. CASE c.op = "set_as_immediate"
  <2>1. Atomic!Effect(c, n, x) = [x EXCEPT !.policy = "IMMEDIATE"]
    BY <1>1, <1>2, <1>6 DEF Atomic!Effect
  <2>2. @ = Words4("IMMEDIATE", x.w0, x.w1, x.cleared)
    BY <1>p
  <2> QED
    BY <1>6, <2>1, <2>2 DEF SwitchOps
<1>7. CASE c.op = "set_as_latency_flick"
  <2>0. ASSUME NEW a, a = [as |-> "lat", v |-> 0],
               NEW z, z = [x EXCEPT !.policy = "LATENCY_ORIENTED", !.w0 = a, !.w1 = StartTime(n)]
        PROVE  z = Words4("LATENCY_ORIENTED", a, StartTime(n), x.cleared)
    BY <1>p3, <2>0
  <2>1. ASSUME NEW z, z = [x EXCEPT !.policy = "LATENCY_ORIENTED", !.w0 = [as |-> "lat", v |-> 0],
                                    !.w1 = Atomic!StartTime(n)]
        PROVE  Atomic!Effect(c, n, x) = z
    BY <1>1, <1>2, <1>7, <2>1, ZenonT(30) DEF Atomic!Effect
  <2>2. Atomic!Effect(c, n, x) = Words4("LATENCY_ORIENTED", [as |-> "lat", v |-> 0], StartTime(n), x.cleared)
    BY <1>2, <2>0, <2>1
  <2> QED
    BY <1>7, <2>2 DEF SwitchOps
<1>8. CASE c.op = "chained_from_latency"
  <2>1. Atomic!Effect(c, n, x) = [x EXCEPT !.w1 = StartTime(n)]
    BY <1>1, <1>2, <1>8 DEF Atomic!Effect
  <2>2. @ = Words4(x.policy, x.w0, StartTime(n), x.cleared)
    BY <1>w1
  <2> QED
    BY <1>8, <2>1, <2>2 DEF SwitchOps
<1>9. CASE c.op \in SwitchOps
  BY <1>1, <1>2, <1>9 DEF Atomic!Effect, SwitchOps
<1>10. CASE c.op = "shot_on_latency"
  <2>0. ASSUME NEW y, y = [x EXCEPT !.cleared = n], NEW z, z = [y EXCEPT !.w1 = StartTime(n)]
        PROVE  z = Words4(x.policy, x.w0, StartTime(n), n)
    <3>1. y = Words4(x.policy, x.w0, x.w1, n)
      BY <2>0, <1>w DEF Words4
    <3> QED
      BY <2>0, <3>1 DEF Words4
  <2>1. ASSUME NEW z, z = [x EXCEPT !.cleared = n, !.w1 = Atomic!StartTime(n)]
        PROVE  Atomic!Effect(c, n, x) = z
    BY <1>1, <1>2, <1>10, <2>1, ZenonT(30) DEF Atomic!Effect
  <2>2. ASSUME NEW z, z = [x EXCEPT !.cleared = n, !.w1 = StartTime(n)]
        PROVE  z = Words4(x.policy, x.w0, StartTime(n), n)
    BY <2>0, <2>2
  <2>3. Atomic!Effect(c, n, x) = Words4(x.policy, x.w0, StartTime(n), n)
    BY <1>2, <2>1, <2>2
  <2> QED
    BY <1>10, <2>3 DEF SwitchOps
<1> QED
  BY <1>3, <1>4, <1>5, <1>6, <1>7, <1>8, <1>9, <1>10, CallType DEF AllOps, SwitchOps

\* A context that has been given the words a call assigns shows the effect of
\* that call.
LEMMA EffectOfWrites ==
  ASSUME NEW c \in Call, c.op \notin SwitchOps, NEW n \in Nat,
         NEW x \in Context, ~ Refused(c, x), NEW y \in Context,
         \A f \in Words : y[f] = IF f \in MayAssign(c) THEN Value(c, n, f) ELSE x[f]
  PROVE  y = Atomic!Effect(c, n, x)
<1>1. /\ y.policy = IF "policy" \in MayAssign(c) THEN Value(c, n, "policy") ELSE x.policy
      /\ y.w0 = IF "w0" \in MayAssign(c) THEN Value(c, n, "w0") ELSE x.w0
      /\ y.w1 = IF "w1" \in MayAssign(c) THEN Value(c, n, "w1") ELSE x.w1
      /\ y.cleared = IF "cleared" \in MayAssign(c) THEN Value(c, n, "cleared") ELSE x.cleared
  BY DEF Words
<1>2. /\ c.op = "add_runcycle" => Atomic!Effect(c, n, x) = Words4(x.policy, x.w0, x.w1, x.cleared)
      /\ c.op \in {"set_cycles_for_tick", "clear_time_budget"} =>
           Atomic!Effect(c, n, x) = Words4(x.policy, x.w0, NoBudget, x.cleared)
      /\ c.op = "set_time_for_throttle" =>
           Atomic!Effect(c, n, x) = Words4(x.policy, [as |-> "norm", v |-> c.slice], NoBudget, x.cleared)
      /\ c.op = "set_as_immediate" =>
           Atomic!Effect(c, n, x) = Words4("IMMEDIATE", x.w0, x.w1, x.cleared)
      /\ c.op = "set_as_latency_flick" =>
           Atomic!Effect(c, n, x) = Words4("LATENCY_ORIENTED", [as |-> "lat", v |-> 0], StartTime(n), x.cleared)
      /\ c.op = "chained_from_latency" =>
           Atomic!Effect(c, n, x) = Words4(x.policy, x.w0, StartTime(n), x.cleared)
      /\ c.op = "shot_on_latency" =>
           Atomic!Effect(c, n, x) = Words4(x.policy, x.w0, StartTime(n), n)
  <2>1. c.op = "add_runcycle" => Atomic!Effect(c, n, x) = Words4(x.policy, x.w0, x.w1, x.cleared)
    BY EffectWords, ZenonT(60)
  <2>2. c.op \in {"set_cycles_for_tick", "clear_time_budget"} =>
          Atomic!Effect(c, n, x) = Words4(x.policy, x.w0, NoBudget, x.cleared)
    BY EffectWords, ZenonT(60)
  <2>3. c.op = "set_time_for_throttle" =>
          Atomic!Effect(c, n, x) = Words4(x.policy, [as |-> "norm", v |-> c.slice], NoBudget, x.cleared)
    BY EffectWords, ZenonT(60)
  <2>4. c.op = "set_as_immediate" =>
          Atomic!Effect(c, n, x) = Words4("IMMEDIATE", x.w0, x.w1, x.cleared)
    BY EffectWords, ZenonT(60)
  <2>5. c.op = "set_as_latency_flick" =>
          Atomic!Effect(c, n, x) = Words4("LATENCY_ORIENTED", [as |-> "lat", v |-> 0], StartTime(n), x.cleared)
    BY EffectWords, ZenonT(60)
  <2>6. c.op = "chained_from_latency" =>
          Atomic!Effect(c, n, x) = Words4(x.policy, x.w0, StartTime(n), x.cleared)
    BY EffectWords, ZenonT(60)
  <2>7. c.op = "shot_on_latency" =>
          Atomic!Effect(c, n, x) = Words4(x.policy, x.w0, StartTime(n), n)
    BY EffectWords, ZenonT(60)
  <2> QED
    BY <2>1, <2>2, <2>3, <2>4, <2>5, <2>6, <2>7
<1>3. y = Words4(y.policy, y.w0, y.w1, y.cleared)
  BY AssignedWords
<1>4. CASE c.op = "add_runcycle"
  <2>1. MayAssign(c) = {}
    BY <1>4 DEF MayAssign, SwitchOps
  <2> QED
    BY <1>1, <1>2, <1>3, <1>4, <2>1
<1>5. CASE c.op \in {"set_cycles_for_tick", "clear_time_budget"}
  <2>1. MayAssign(c) = {"w1"} /\ Value(c, n, "w1") = NoBudget
    BY <1>5 DEF MayAssign, SwitchOps, Value
  <2> QED
    BY <1>1, <1>2, <1>3, <1>5, <2>1
<1>6. CASE c.op = "set_time_for_throttle"
  <2>1. MayAssign(c) = {"w0", "w1"} /\ Value(c, n, "w1") = NoBudget
        /\ Value(c, n, "w0") = [as |-> "norm", v |-> c.slice]
    BY <1>6 DEF MayAssign, SwitchOps, Value
  <2> QED
    BY <1>1, <1>2, <1>3, <1>6, <2>1
<1>7. CASE c.op = "set_as_immediate"
  <2>1. MayAssign(c) = {"policy"} /\ Value(c, n, "policy") = "IMMEDIATE"
    BY <1>7 DEF MayAssign, SwitchOps, Value
  <2> QED
    BY <1>1, <1>2, <1>3, <1>7, <2>1
<1>8. CASE c.op = "set_as_latency_flick"
  <2>1. /\ MayAssign(c) = {"policy", "w0", "w1"} /\ Value(c, n, "policy") = "LATENCY_ORIENTED"
        /\ Value(c, n, "w0") = [as |-> "lat", v |-> 0] /\ Value(c, n, "w1") = StartTime(n)
    BY <1>8 DEF MayAssign, SwitchOps, Value
  <2> QED
    BY <1>1, <1>2, <1>3, <1>8, <2>1
<1>9. CASE c.op = "chained_from_latency"
  <2>1. MayAssign(c) = {"w1"} /\ Value(c, n, "w1") = StartTime(n)
    BY <1>9 DEF MayAssign, SwitchOps, Value
  <2> QED
    BY <1>1, <1>2, <1>3, <1>9, <2>1
<1>10. CASE c.op = "shot_on_latency"
  <2>1. MayAssign(c) = {"cleared", "w1"} /\ Value(c, n, "w1") = StartTime(n) /\ Value(c, n, "cleared") = n
    BY <1>10 DEF MayAssign, SwitchOps, Value
  <2> QED
    BY <1>1, <1>2, <1>3, <1>10, <2>1
<1> QED
  BY <1>4, <1>5, <1>6, <1>7, <1>8, <1>9, <1>10, CallType DEF AllOps, SwitchOps

\* How long the assignments of a call are.
LEMMA WritesLen ==
  ASSUME NEW c \in Call
  PROVE  /\ Len(Writes(c)) \in Nat
         /\ c.op # "add_runcycle" => Len(Writes(c)) >= 1 /\ Writes(c) # <<>>
         /\ c.op = "add_runcycle" => Writes(c) = <<>>
         /\ c.op = "set_as_immediate" => Writes(c) = <<"policy">> /\ Len(Writes(c)) = 1
<1>1. CASE c.op = "add_runcycle"
  BY <1>1 DEF Writes, SwitchOps
<1>2. CASE c.op # "add_runcycle"
  <2>1. c.op \in AllOps
    BY CallType
  <2>2. \/ Writes(c) = <<"w1">> \/ Writes(c) = <<"w0", "w1">> \/ Writes(c) = <<"policy", "w0", "w1">>
        \/ Writes(c) = <<"policy">> \/ Writes(c) = <<"cleared">>
        \/ Writes(c) = <<"policy", "w0", "w1", "cleared">>
    BY <1>2, <2>1 DEF Writes, AllOps, SwitchOps
  <2>3. c.op = "set_as_immediate" => Writes(c) = <<"policy">>
    BY DEF Writes, SwitchOps
  <2>4. Len(Writes(c)) \in Nat /\ Len(Writes(c)) >= 1 /\ Writes(c) # <<>>
    BY <2>2
  <2> HIDE DEF Writes
  <2> QED
    BY <1>2, <2>3, <2>4
<1> QED
  BY <1>1, <1>2

LEMMA NextPlace == TypeInv /\ PlaceInv /\ [Next]_vars => PlaceInv'
<1> SUFFICES ASSUME TypeInv, PlaceInv, [Next]_vars PROVE PlaceInv'
  OBVIOUS
<1> USE DEF PlaceInv
<1>a. loc_ctx \in Context /\ todo \in Seq(Words) /\ Len(todo) \in Nat
  BY DEF TypeInv, TypeOK, Words
<1>1. ASSUME NEW c \in Call, Enter(c) PROVE PlaceInv'
  <2>1. /\ call' = c /\ loc_ctx' = loc_ctx
        /\ todo' = IF Refused(c, loc_ctx) THEN <<>> ELSE Writes(c)
    BY <1>1 DEF Enter
  <2>2. Writes(call)' = Writes(c)
    BY <2>1 DEF Writes
  <2>3. NotBegun' => ~ Refused(c, loc_ctx)
    BY <2>1 DEF NotBegun
  <2>4. Refused(call, loc_ctx)' <=> Refused(c, loc_ctx)
    BY <2>1 DEF Refused
  <2>5. Refused(c, loc_ctx) => Len(<<>>) < Len(Writes(c))
    BY WritesLen DEF Refused
  <2> QED
    BY <2>1, <2>2, <2>3, <2>4, <2>5
<1>2. CASE Write
  <2>1. /\ todo # <<>> /\ todo' = Tail(todo) /\ UNCHANGED <<pc, call>>
    BY <1>2 DEF Write
  <2>2. Len(todo') = Len(todo) - 1 /\ Len(todo') \in Nat
    BY <1>a, <2>1
  <2>3. Writes(call)' = Writes(call)
    BY <2>1 DEF Writes
  <2>4. pc = "write" => Len(Writes(call)) \in Nat
    BY WritesLen DEF TypeInv, CallInv
  <2>5. pc = "write" => Len(todo') < Len(Writes(call))
    BY <1>a, <2>2, <2>4
  <2>6. pc = "write" => ~ NotBegun'
    BY <2>3, <2>4, <2>5 DEF NotBegun
  <2> QED
    BY <2>1, <2>3, <2>5, <2>6
<1>3. CASE Leave \/ DrainTick \/ DrainDone \/ Return
  BY <1>3 DEF Leave, DrainTick, DrainDone, Return
<1>4. ASSUME UNCHANGED <<pc, call, todo>>, loc_ctx'.policy = loc_ctx.policy PROVE PlaceInv'
  <2>1. Writes(call)' = Writes(call) /\ (NotBegun' <=> NotBegun)
    BY <1>4 DEF Writes, NotBegun
  <2>2. Refused(call, loc_ctx)' <=> Refused(call, loc_ctx)
    BY <1>4 DEF Refused
  <2> QED
    BY <1>4, <2>1, <2>2
<1>5. CASE PerfSignal
  BY <1>4, <1>5 DEF PerfSignal
<1>6. CASE TickEnd
  <2>1. loc_ctx'.policy = loc_ctx.policy
    BY <1>6, <1>a DEF TickEnd, Charged, Context
  <2> QED
    BY <1>4, <1>6, <2>1 DEF TickEnd
<1>7. ASSUME NEW v \in CpiValues, CpiSignal(v) PROVE PlaceInv'
  <2>1. loc_ctx'.policy = loc_ctx.policy
    BY <1>7, <1>a DEF CpiSignal, Context
  <2> QED
    BY <1>4, <1>7, <2>1 DEF CpiSignal
<1>8. CASE UNCHANGED vars
  BY <1>4, <1>8 DEF vars
<1> QED
  BY <1>1, <1>2, <1>3, <1>5, <1>6, <1>7, <1>8 DEF Next, Program

\* What is seen before and after a step.
ViewFacts ==
  /\ View \in Context
  /\ \A f \in Words : View[f] = Assigned(f)
  /\ (NotBegun \/ \A f \in Words : ~ Owed(f)) => View = loc_ctx

LEMMA ViewBoth == (TypeInv => ViewFacts) /\ (TypeInv' => ViewFacts')
<1>1. TypeInv => ViewFacts
  BY ViewType DEF ViewFacts
<1> QED
  BY <1>1, PTL

\* A step of AtomicContext, told by what it sees.
DoSeen(c) ==
  /\ Called' = Called + 1
  /\ View' = Atomic!Effect(c, Called + 1, View)
  /\ Stored' = IF c.op \in SwitchOps /\ c.saved # NULL THEN [Stored EXCEPT ![c.saved] = View] ELSE Stored
  /\ handled' = handled

TickSeen ==
  /\ handled' = handled + 1
  /\ View' = IF View.policy \in Norm
             THEN [View EXCEPT !.w1 = [as |-> "norm", v |-> @.v + 1]] ELSE View
  /\ Stored' = Stored /\ Called' = Called

CpiSeen(v) ==
  /\ View' = [View EXCEPT !.w0 = [as |-> "cpi", v |-> v]]
  /\ Stored' = Stored /\ Called' = Called /\ handled' = handled

NothingSeen == View' = View /\ Stored' = Stored /\ Called' = Called /\ handled' = handled

StepSeen ==
  NothingSeen \/ TickSeen \/ (\E c \in Call : DoSeen(c)) \/ (\E v \in CpiValues : CpiSeen(v))

\* Steps so told are steps of AtomicContext.
LEMMA SeenIsAtomic == StepSeen => [Atomic!ANext]_(Atomic!absVars)
<1>1. ASSUME NothingSeen PROVE UNCHANGED Atomic!absVars
  BY <1>1 DEF NothingSeen, Atomic!absVars, View, Called
<1>2. ASSUME TickSeen PROVE Atomic!ATick
  BY <1>2, SameCalls DEF TickSeen, Atomic!ATick, View, Called
<1>3. ASSUME NEW c \in Call, DoSeen(c) PROVE Atomic!Do(c)
  BY <1>3, SameCalls DEF DoSeen, Atomic!Do, View, Called
<1>4. ASSUME NEW v \in CpiValues, CpiSeen(v) PROVE Atomic!ACpi(v)
  BY <1>4 DEF CpiSeen, Atomic!ACpi, View, Called
<1> QED
  BY <1>1, <1>2, <1>3, <1>4, SameCalls DEF StepSeen, Atomic!ANext

\* What is owed by a call that assigns on before and after it drains.
LEMMA OwedWords ==
  ASSUME TypeInv
  PROVE  /\ \A f : Owed(f) <=> \/ pc \in {"write", "post"} /\ \E i \in DOMAIN todo : todo[i] = f
                               \/ /\ pc \in {"write", "drain"} /\ ~ Refused(call, backup)
                                  /\ call.op = "shot_on_latency" /\ f = "w1"
         /\ \A f : ~ \E i \in DOMAIN <<>> : <<>>[i] = f
<1>1. \A i \in DOMAIN <<>> : FALSE
  BY EmptySeq
<1> QED
  BY <1>1, PostWritesSet DEF Owed

\* Entering a switch is the switch; entering a call that will assign nothing is
\* that call; entering another is not seen.
LEMMA EnterSeen ==
  ASSUME TypeInv, TypeInv', NEW c \in Call, Enter(c)
  PROVE  StepSeen
<1>1. /\ pc = "app" /\ pc' = "write" /\ call' = c /\ loc_ctx' = loc_ctx /\ calls' = calls + 1
      /\ calls \in Nat /\ bufs' = bufs /\ backup' = loc_ctx /\ handled' = handled
      /\ todo' = IF Refused(c, loc_ctx) THEN <<>> ELSE Writes(c)
  BY DEF Enter, TypeInv, TypeOK
<1>2. /\ View = loc_ctx /\ Called = calls /\ Stored = bufs /\ ~ NotBegun
      /\ loc_ctx \in Context /\ bufs \in [Buffers -> Context]
  BY <1>1, ViewBoth DEF ViewFacts, Owed, Begun, NotBegun, Called, Stored, TypeInv, TypeOK
<1>3. Writes(call)' = Writes(c) /\ PostWrites(call)' = PostWrites(c)
      /\ (Refused(call, backup)' <=> Refused(c, loc_ctx))
  BY <1>1 DEF Writes, PostWrites, Refused
<1>4. CASE c.op \in SwitchOps
  <2>1. ~ Refused(c, loc_ctx) /\ WriteSet(c) = Words
    BY <1>4 DEF Refused, SwitchOps, MayAssign, WriteSet
  <2>2. Begun' /\ ~ NotBegun'
    BY <1>1, <1>4 DEF Begun, NotBegun
  <2>3. ASSUME NEW f \in Words PROVE View'[f] = bufs[c.new][f]
    <3>1. \E i \in DOMAIN Writes(c) : Writes(c)[i] = f
      BY <2>1, WritesSet
    <3>2. Owed(f)'
      BY <1>1, <2>1, <3>1 DEF Owed
    <3>3. Assigned(f)' = Value(call, calls, f)'
      BY <2>2, <3>2 DEF Assigned
    <3>4. Value(call, calls, f)' = bufs[c.new][f]
      BY <1>1, <1>4 DEF Value, SwitchOps
    <3> QED
      BY <3>3, <3>4, ViewBoth DEF ViewFacts
  <2>4. View' = bufs[c.new]
    <3>1. View' \in Context /\ bufs[c.new] \in Context
      BY <1>2, <1>4, CallType, ViewBoth DEF ViewFacts
    <3> QED
      BY <2>3, <3>1, ContextWords
  <2>5. Atomic!Effect(c, Called + 1, View) = Stored[c.new]
    <3>1. View \in Context /\ ~ Refused(c, View)
      BY <1>2, <2>1
    <3> QED
      BY <1>4, <3>1, EffectWords, Zenon
  <2>6. Stored' = IF c.saved # NULL THEN [Stored EXCEPT ![c.saved] = View] ELSE Stored
    BY <1>1, <1>2, <1>4, <2>2 DEF Stored
  <2> QED
    BY <1>1, <1>2, <1>4, <2>2, <2>4, <2>5, <2>6 DEF StepSeen, DoSeen, Called
<1>5. CASE c.op \notin SwitchOps /\ todo' = <<>>
  <2>1. Refused(c, loc_ctx) \/ c.op = "add_runcycle"
    BY <1>1, <1>5, WritesLen
  <2>2. ~ NotBegun' /\ \A f : ~ Owed(f)'
    <3>1. \A i \in DOMAIN <<>> : FALSE
      BY EmptySeq
    <3>2. \A f : ~ \E i \in DOMAIN todo' : todo'[i] = f
      BY <1>5, <3>1
    <3>3. Refused(call, backup)' \/ \A f : ~ \E i \in DOMAIN PostWrites(c) : PostWrites(c)[i] = f
      BY <1>3, <2>1, PostWritesSet
    <3> QED
      BY <1>1, <1>3, <1>5, <3>2, <3>3 DEF Owed, NotBegun
  <2>3. View' = View
    BY <1>1, <1>2, <2>2, ViewBoth DEF ViewFacts
  <2>4. Stored' = Stored
    BY <1>1, <1>2, <1>5 DEF Stored
  <2>5. Atomic!Effect(c, Called + 1, View) = View
    BY <1>2, <2>1, SameCalls DEF Atomic!Effect
  <2> QED
    BY <1>1, <1>2, <1>5, <2>2, <2>3, <2>4, <2>5 DEF StepSeen, DoSeen, Called
<1>6. CASE c.op \notin SwitchOps /\ todo' # <<>>
  <2>1. NotBegun' /\ ~ Begun'
    BY <1>1, <1>3, <1>6 DEF NotBegun, Begun
  <2>2. View' = View
    BY <1>1, <1>2, <2>1, ViewBoth DEF ViewFacts
  <2>3. Stored' = Stored
    BY <1>1, <1>2, <1>6 DEF Stored
  <2>4. Called' = Called
    BY <1>1, <1>2, <2>1 DEF Called
  <2> QED
    BY <1>1, <2>2, <2>3, <2>4 DEF StepSeen, NothingSeen
<1> QED
  BY <1>4, <1>5, <1>6

\* The first assignment of a call is the call; its others are not seen.
LEMMA WriteSeen ==
  ASSUME TypeInv, TypeInv', StandInv, PlaceInv, Write
  PROVE  StepSeen
<1>1. /\ todo # <<>> /\ todo' = Tail(todo) /\ call \in Call /\ pc \in {"write", "post"}
      /\ UNCHANGED <<pc, call, calls, bufs, backup, handled>>
      /\ loc_ctx' = [loc_ctx EXCEPT ![Head(todo)] = Value(call, calls, Head(todo))]
      /\ loc_ctx \in Context /\ calls \in Nat /\ todo \in Seq(Words)
  BY DEF Write, TypeInv, TypeOK, CallInv, Words
<1>2. Head(todo) \in Words /\ Head(todo) = todo[1] /\ 1 \in DOMAIN todo
  BY <1>1, TailOfTodo
<1> DEFINE Held(s, f) == \E i \in DOMAIN s : s[i] = f
           Later(f) == /\ pc = "write" /\ ~ Refused(call, backup)
                       /\ call.op = "shot_on_latency" /\ f = "w1"
<1>3. \A f : Held(todo, f) <=> f = Head(todo) \/ Held(todo', f)
  <2>1. /\ DOMAIN todo = 1 .. Len(todo) /\ DOMAIN Tail(todo) = 1 .. Len(todo) - 1 /\ Len(todo) \in Nat
        /\ \A i \in DOMAIN Tail(todo) : i + 1 \in DOMAIN todo /\ Tail(todo)[i] = todo[i + 1]
    BY <1>1, TailOfTodo, HeadTailProperties, LenProperties
  <2>2. \A i \in DOMAIN todo : i = 1 \/ (i - 1 \in DOMAIN Tail(todo) /\ Tail(todo)[i - 1] = todo[i])
    BY <2>1
  <2> QED
    BY <1>1, <1>2, <2>1, <2>2
<1>4. \A f : (Owed(f) <=> Held(todo, f) \/ Later(f)) /\ (Owed(f)' <=> Held(todo', f) \/ Later(f))
  <2>1. \A f : Owed(f) <=> Held(todo, f) \/ Later(f)
    BY <1>1, OwedWords
  <2>2. \A f : Owed(f)' <=> \/ pc' \in {"write", "post"} /\ \E i \in DOMAIN todo' : todo'[i] = f
                            \/ /\ pc' \in {"write", "drain"} /\ ~ Refused(call, backup)'
                               /\ \E i \in DOMAIN PostWrites(call)' : PostWrites(call)'[i] = f
    BY DEF Owed
  <2>3. PostWrites(call)' = PostWrites(call) /\ (Refused(call, backup)' <=> Refused(call, backup))
    BY <1>1 DEF PostWrites, Refused
  <2> QED
    BY <1>1, <2>1, <2>2, <2>3, PostWritesSet
<1>5. ~ NotBegun' /\ (pc = "write" => Begun')
  <2>1. Len(todo') = Len(todo) - 1 /\ Len(todo) \in Nat
    BY <1>1
  <2>2. Len(Writes(call)) \in Nat /\ Writes(call)' = Writes(call)
    BY <1>1, WritesLen DEF Writes
  <2>3. pc = "write" => Len(todo) = Len(Writes(call)) \/ Len(todo) < Len(Writes(call))
    BY DEF PlaceInv
  <2> QED
    BY <1>1, <2>1, <2>2, <2>3 DEF NotBegun, Begun
<1>6. \A f : Value(call, calls, f)' = Value(call, calls, f)
  BY <1>1 DEF Value
<1>7. \A f \in Words : loc_ctx'[f] = IF f = Head(todo) THEN Value(call, calls, f) ELSE loc_ctx[f]
  BY <1>1, <1>2 DEF Context, Words
<1>8. \A f \in Words : View'[f] = IF Held(todo, f) \/ Later(f) THEN Value(call, calls, f) ELSE loc_ctx[f]
  <2> HIDE DEF Held, Later
  <2>1. \A f \in Words : View'[f] = IF Held(todo', f) \/ Later(f) THEN Value(call, calls, f) ELSE loc_ctx'[f]
    BY <1>4, <1>5, <1>6, ViewBoth DEF ViewFacts, Assigned
  <2> QED
    BY <1>3, <1>7, <2>1
<1>9. CASE NotBegun
  <2>1. /\ pc = "write" /\ todo = Writes(call) /\ call.op \notin SwitchOps /\ View = loc_ctx
        /\ ~ Refused(call, loc_ctx)
    BY <1>9, ViewBoth DEF NotBegun, ViewFacts, PlaceInv
  <2>2. \A f : Held(todo, f) \/ Later(f) <=> f \in MayAssign(call)
    <3>1. \A f : Held(todo, f) <=> f \in WriteSet(call)
      BY <1>1, <2>1, WritesSet
    <3>2. call.op = "shot_on_latency" => ~ Refused(call, backup)
      BY <2>1 DEF StandInv, Refused
    <3>3. call.op = "shot_on_latency" => MayAssign(call) = {"cleared", "w1"}
      BY DEF MayAssign, SwitchOps
    <3> HIDE DEF Held
    <3> QED
      BY <2>1, <3>1, <3>2, <3>3 DEF WriteSet
  <2>3. View' = Atomic!Effect(call, calls, View)
    <3>1. View' \in Context /\ \A f \in Words : View'[f] = IF f \in MayAssign(call) THEN Value(call, calls, f) ELSE loc_ctx[f]
      BY <1>8, <2>2, ViewBoth DEF ViewFacts
    <3> QED
      BY <1>1, <2>1, <3>1, EffectOfWrites
  <2>4. Called + 1 = calls /\ Called' = Called + 1
    BY <1>1, <1>5, <1>9 DEF Called
  <2>5. Stored' = Stored
    BY <1>1, <2>1 DEF Stored
  <2> QED
    BY <1>1, <2>1, <2>3, <2>4, <2>5 DEF StepSeen, DoSeen
<1>10. CASE ~ NotBegun
  <2>1. \A f \in Words : View[f] = View'[f]
    <3> HIDE DEF Held, Later
    <3> QED
      BY <1>4, <1>8, <1>10, ViewBoth DEF ViewFacts, Assigned
  <2>2. View' = View
    BY <2>1, ViewBoth, ContextWords DEF ViewFacts
  <2>3. Stored' = Stored
    BY <1>1, <1>5, <1>10 DEF Stored, Begun
  <2>4. Called' = Called
    BY <1>1, <1>5, <1>10 DEF Called
  <2> QED
    BY <1>1, <2>2, <2>3, <2>4 DEF StepSeen, NothingSeen
<1> QED
  BY <1>9, <1>10

\* What is owed, and so what is seen, is left alone with the call it is owed by.
LEMMA SameView ==
  ASSUME TypeInv, TypeInv', ~ NotBegun, ~ NotBegun', loc_ctx' = loc_ctx,
         \A f \in Words : (Owed(f)' <=> Owed(f)) /\ (Owed(f) => Value(call, calls, f)' = Value(call, calls, f))
  PROVE  View' = View
<1>1. \A f \in Words : Assigned(f)' = Assigned(f)
  BY DEF Assigned
<1>2. \A f \in Words : View'[f] = View[f]
  BY <1>1, ViewBoth DEF ViewFacts
<1> QED
  BY <1>2, ViewBoth, ContextWords DEF ViewFacts

\* The rest of a call is not seen.
LEMMA RestSeen ==
  ASSUME TypeInv, TypeInv', DeferInv, Leave \/ DrainTick \/ DrainDone \/ Return
  PROVE  StepSeen
<1>1. /\ ~ NotBegun /\ ~ NotBegun' /\ ~ Begun'
      /\ loc_ctx' = loc_ctx /\ calls' = calls /\ handled' = handled /\ pc # "app"
  BY DEF Leave, DrainTick, DrainDone, Return, NotBegun, Begun
<1>2. Stored' = Stored
  BY DEF Leave, DrainTick, DrainDone, Return, NotBegun, Begun, Stored
<1>3. ASSUME NEW f PROVE ~ \E i \in DOMAIN <<>> : <<>>[i] = f
  BY EmptySeq
<1> DEFINE Post(f) == \E i \in DOMAIN PostWrites(call) : PostWrites(call)[i] = f
<1>4. CASE Leave \/ DrainTick \/ DrainDone
  <2>1. UNCHANGED <<call, calls, bufs, backup>>
    BY <1>4 DEF Leave, DrainTick, DrainDone
  <2>2. /\ PostWrites(call)' = PostWrites(call) /\ (Refused(call, backup)' <=> Refused(call, backup))
        /\ \A f : Value(call, calls, f)' = Value(call, calls, f)
    BY <2>1 DEF PostWrites, Refused, Value
  <2>3. \A f : Owed(f)' <=> \/ pc' \in {"write", "post"} /\ \E i \in DOMAIN todo' : todo'[i] = f
                            \/ pc' \in {"write", "drain"} /\ ~ Refused(call, backup) /\ Post(f)
    BY <2>2 DEF Owed
  <2>4. \A f : Owed(f) <=> \/ pc \in {"write", "post"} /\ \E i \in DOMAIN todo : todo[i] = f
                           \/ pc \in {"write", "drain"} /\ ~ Refused(call, backup) /\ Post(f)
    BY DEF Owed
  <2> HIDE DEF Post
  <2>5. CASE Leave
    <3>1. /\ pc = "write" /\ todo = <<>> /\ todo' = <<>>
          /\ pc' = IF call.op \in CriticalOps THEN "drain" ELSE "post"
      BY <2>5 DEF Leave
    <3>2. call.op \notin CriticalOps => \A f : ~ Post(f)
      BY PostWritesSet DEF CriticalOps, AllOps, Post
    <3>3. \A f : (\E i \in DOMAIN todo : todo[i] = f) <=> FALSE
      BY <1>3, <3>1
    <3>4. \A f : Owed(f)' <=> Owed(f)
      BY <2>3, <2>4, <3>1, <3>2, <3>3
    <3> QED
      BY <1>1, <1>2, <2>2, <3>4, SameView DEF StepSeen, NothingSeen, Called
  <2>6. CASE DrainTick
    <3>1. \A f : Owed(f)' <=> Owed(f)
      BY <2>3, <2>4, <2>6 DEF DrainTick
    <3> QED
      BY <1>1, <1>2, <2>2, <3>1, SameView DEF StepSeen, NothingSeen, Called
  <2>7. CASE DrainDone
    <3>1. pc = "drain" /\ pc' = "post" /\ todo' = IF Refused(call, backup) THEN <<>> ELSE PostWrites(call)
      BY <2>7 DEF DrainDone
    <3>2. \A f : (\E i \in DOMAIN todo' : todo'[i] = f) <=> ~ Refused(call, backup) /\ Post(f)
      BY <1>3, <3>1 DEF Post
    <3>3. \A f : Owed(f)' <=> Owed(f)
      BY <2>3, <2>4, <3>1, <3>2
    <3> QED
      BY <1>1, <1>2, <2>2, <3>3, SameView DEF StepSeen, NothingSeen, Called
  <2> QED
    BY <1>4, <2>5, <2>6, <2>7
<1>5. CASE Return
  <2>1. pc = "post" /\ pc' = "app" /\ todo = <<>>
    BY <1>5 DEF Return
  <2>2. \A f : ~ \E i \in DOMAIN todo : todo[i] = f
    BY <1>3, <2>1
  <2>3. \A f : ~ Owed(f) /\ ~ Owed(f)'
    BY <2>1, <2>2 DEF Owed
  <2> QED
    BY <1>1, <1>2, <2>3, SameView DEF StepSeen, NothingSeen, Called
<1> QED
  BY <1>4, <1>5

\* What a signal leaves alone.
LEMMA SignalSame ==
  ASSUME UNCHANGED <<pc, call, todo, calls, bufs, backup>>
  PROVE  /\ Stored' = Stored /\ Called' = Called /\ (NotBegun' <=> NotBegun)
         /\ \A f : (Owed(f)' <=> Owed(f)) /\ Value(call, calls, f)' = Value(call, calls, f)
<1>1. (NotBegun' <=> NotBegun) /\ (Begun' <=> Begun)
  BY DEF NotBegun, Begun, Writes
<1>2. Stored' = Stored
  BY <1>1 DEF Stored
<1>3. \A f : Owed(f)' <=> Owed(f)
  BY DEF Owed, Refused, PostWrites
<1> QED
  BY <1>1, <1>2, <1>3 DEF Called, Value

\* A tick finds no call in the middle of its assignments, or one that owes only
\* what no tick reads in its policy; and it is a tick, counted once however ticks
\* nest.
LEMMA TickIsSeen ==
  ASSUME TypeInv, TypeInv', DeferInv, StandInv, PlaceInv, TickEnd
  PROVE  StepSeen
<1> DEFINE tick == frames[Len(frames)]
<1>1. /\ frames # <<>> /\ in_critical = 0 /\ ~ blocked /\ handled' = handled + 1
      /\ UNCHANGED <<pc, call, todo, calls, bufs, backup>> /\ loc_ctx \in Context /\ loc_ctx' \in Context
  BY DEF TickEnd, StandInv, TypeInv, TypeOK
<1>2. \/ NotBegun \/ \A f : ~ Owed(f)
      \/ loc_ctx.policy = "LATENCY_ORIENTED" /\ ~ Owed("policy")
  <2>0. ASSUME NEW f PROVE ~ \E i \in DOMAIN <<>> : <<>>[i] = f
    BY EmptySeq
  <2>1. CASE pc = "app" BY <2>1 DEF Owed
  <2>2. CASE pc = "write"
    <3>1. call \in Call /\ call.op = "set_as_immediate"
      BY <1>1, <2>2, CallType DEF DeferInv, StandInv, CriticalOps, TypeInv, CallInv
    <3>2. Len(Writes(call)) = 1 /\ todo \in Seq(Words) /\ Len(todo) \in Nat
      BY <3>1, WritesLen DEF TypeInv, TypeOK, Words
    <3>3. todo = <<>> \/ NotBegun
      BY <2>2, <3>1, <3>2, EmptySeq DEF PlaceInv, NotBegun, SwitchOps
    <3>4. todo = <<>> => \A f : ~ Owed(f)
      BY <2>0, <3>1, OwedWords
    <3> QED
      BY <3>3, <3>4
  <2>3. CASE pc = "drain"
    <3>1. \A f : Owed(f) => call.op = "shot_on_latency" /\ f = "w1" /\ ~ Refused(call, backup)
      BY <2>3, OwedWords
    <3>2. \A f : Owed(f) => loc_ctx.policy = "LATENCY_ORIENTED"
      BY <2>3, <3>1 DEF StandInv, Refused
    <3> QED
      BY <3>1, <3>2
  <2>4. CASE pc = "post"
    <3>1. \A f : Owed(f) <=> \E i \in DOMAIN todo : todo[i] = f
      BY <2>4, OwedWords
    <3>2. CASE todo = <<>>
      BY <2>0, <3>1, <3>2
    <3>3. CASE todo # <<>>
      <4>1. call.op = "shot_on_latency" /\ loc_ctx.policy = "LATENCY_ORIENTED"
        BY <2>4, <3>3 DEF StandInv
      <4>2. \A i \in DOMAIN todo : todo[i] \in {"cleared", "w1"}
        BY <4>1 DEF TypeInv, CallInv, MayAssign, SwitchOps
      <4> QED
        BY <3>1, <4>1, <4>2
    <3> QED
      BY <3>2, <3>3
  <2> QED
    BY <2>1, <2>2, <2>3, <2>4 DEF TypeInv, TypeOK
<1>3. tick.ctx.policy = loc_ctx.policy
  BY FramesShrink DEF StandInv
<1>4. loc_ctx' = IF loc_ctx.policy \in Norm
                 THEN [loc_ctx EXCEPT !.w1 = [as |-> "norm", v |-> @.v + 1]] ELSE loc_ctx
  BY <1>3 DEF TickEnd, Charged
<1>5. CASE NotBegun \/ \A f : ~ Owed(f)
  <2>1. View = loc_ctx
    BY <1>5, ViewBoth DEF ViewFacts
  <2>2. View' = loc_ctx'
    BY <1>1, <1>5, SignalSame, ViewBoth DEF ViewFacts
  <2> QED
    BY <1>1, <1>4, <2>1, <2>2, SignalSame DEF StepSeen, TickSeen
<1>6. CASE ~ NotBegun /\ loc_ctx.policy = "LATENCY_ORIENTED" /\ ~ Owed("policy")
  <2>1. loc_ctx' = loc_ctx
    BY <1>4, <1>6 DEF Norm
  <2>2. View' = View
    BY <1>1, <1>6, <2>1, SignalSame, SameView
  <2>3. View.policy = "LATENCY_ORIENTED"
    BY <1>6, ViewBoth DEF ViewFacts, Assigned, Words
  <2> QED
    BY <1>1, <2>2, <2>3, SignalSame DEF StepSeen, TickSeen, Norm
<1> QED
  BY <1>2, <1>5, <1>6

\* A time slice is seen where it is stored, unless the call under way is about
\* to replace it.
LEMMA CpiIsSeen ==
  ASSUME TypeInv, TypeInv', NEW v \in CpiValues, CpiSignal(v)
  PROVE  StepSeen
<1>1. /\ UNCHANGED <<pc, call, todo, calls, bufs, backup, handled>> /\ loc_ctx \in Context
      /\ loc_ctx' = [loc_ctx EXCEPT !.w0 = [as |-> "cpi", v |-> v]]
  BY DEF CpiSignal, TypeInv, TypeOK
<1>2. \A f \in Words : loc_ctx'[f] = IF f = "w0" THEN [as |-> "cpi", v |-> v] ELSE loc_ctx[f]
  BY <1>1 DEF Context, Words
<1> DEFINE left(f) == ~ NotBegun /\ Owed(f)
<1>3. \A f \in Words : /\ View[f] = IF left(f) THEN Value(call, calls, f) ELSE loc_ctx[f]
                       /\ View'[f] = IF left(f) THEN Value(call, calls, f) ELSE loc_ctx'[f]
  <2>1. \A f \in Words : View[f] = IF left(f) THEN Value(call, calls, f) ELSE loc_ctx[f]
    BY ViewBoth DEF ViewFacts, Assigned
  <2>2. \A f \in Words : View'[f] = Assigned(f)'
    BY ViewBoth DEF ViewFacts
  <2>3. \A f : Assigned(f)' = IF left(f) THEN Value(call, calls, f) ELSE loc_ctx'[f]
    BY <1>1, SignalSame DEF Assigned
  <2> QED
    BY <2>1, <2>2, <2>3
<1> HIDE DEF left
<1>4. CASE left("w0")
  <2>1. \A f \in Words : View'[f] = View[f]
    BY <1>2, <1>3, <1>4
  <2>2. View' = View
    BY <2>1, ViewBoth, ContextWords DEF ViewFacts
  <2> QED
    BY <1>1, <2>2, SignalSame DEF StepSeen, NothingSeen
<1>5. CASE ~ left("w0")
  <2>1. \A f \in Words : View'[f] = IF f = "w0" THEN [as |-> "cpi", v |-> v] ELSE View[f]
    BY <1>2, <1>3, <1>5
  <2>2. /\ View'.policy = View.policy /\ View'.w1 = View.w1 /\ View'.cleared = View.cleared
        /\ View'.w0 = [as |-> "cpi", v |-> v] /\ View \in Context /\ View' \in Context
    BY <2>1, ViewBoth DEF Words, ViewFacts
  <2>3. View' = [View EXCEPT !.w0 = [as |-> "cpi", v |-> v]]
    <3>1. ASSUME NEW x \in Context, NEW y \in Context, y.policy = x.policy, y.w1 = x.w1,
                 y.cleared = x.cleared, NEW w, y.w0 = w
          PROVE  y = [x EXCEPT !.w0 = w]
      BY <3>1 DEF Context
    <3> QED
      BY <2>2, <3>1
  <2> QED
    BY <1>1, <2>3, SignalSame DEF StepSeen, CpiSeen
<1> QED
  BY <1>4, <1>5

\* Every step is seen as one of AtomicContext.
LEMMA NextSeen ==
  ASSUME TypeInv, TypeInv', DeferInv, StandInv, PlaceInv, [Next]_vars
  PROVE  StepSeen
<1>1. ASSUME UNCHANGED <<pc, call, todo, calls, bufs, backup, loc_ctx, handled>> PROVE StepSeen
  <2>1. View' = View
    BY <1>1, SignalSame DEF View, Assigned
  <2> QED
    BY <1>1, <2>1, SignalSame DEF StepSeen, NothingSeen
<1>2. CASE PerfSignal
  BY <1>1, <1>2 DEF PerfSignal
<1>3. CASE UNCHANGED vars
  BY <1>1, <1>3 DEF vars
<1> QED
  BY <1>2, <1>3, EnterSeen, WriteSeen, RestSeen, TickIsSeen, CpiIsSeen DEF Next, Program

LEMMA InitAtomic ==
  ASSUME Init
  PROVE  StandInv /\ PlaceInv /\ Atomic!AInit
<1>1. StandInv /\ PlaceInv
  BY DEF Init, StandInv, PlaceInv
<1>2. TypeInv /\ ~ NotBegun /\ Stored = bufs /\ bufs \in [Buffers -> InitCtxs]
  BY InitType DEF Init, Begun, NotBegun, Stored
<1>3. View = loc_ctx
  BY <1>2, ViewType DEF Init, Owed
<1>4. Atomic!AInit
  BY <1>2, <1>3, SameCalls DEF Atomic!AInit, Init, View
<1> QED
  BY <1>1, <1>4

\* With ticks and new time slices arriving at any step, each call of
\* robflex_api.c takes effect at once, at its first assignment (a switch when it
\* makes its backup), and every context, in use or switched out, holds the ticks
\* of the time it was in use: LocalContext implements AtomicContext, for any
\* calls, disciplined or not.
THEOREM CallsTakeEffectAtOnce == Spec => CallsAreAtomic
<1>1. Init => TypeInv /\ DeferInv /\ StandInv /\ PlaceInv /\ Atomic!AInit
  BY InitType, InitDefer, InitAtomic
<1>2. TypeInv /\ DeferInv /\ StandInv /\ PlaceInv /\ [Next]_vars
        => (TypeInv /\ DeferInv /\ StandInv /\ PlaceInv)' /\ [Atomic!ANext]_(Atomic!absVars)
  BY NextType, NextDefer, NextStand, NextPlace, NextSeen, SeenIsAtomic
<1> QED
  BY <1>1, <1>2, PTL DEF Spec, CallsAreAtomic, Atomic!ASpec
=============================================================================
