-------------------------- MODULE HeartbeatProofs --------------------------
(***************************************************************************)
(* The threads of the heartbeat service for every number of events and of  *)
(* thread handles: one worker at a time, a scheduler thread that never     *)
(* waits for a working one, no handle leaked or freed twice, and a user    *)
(* who knows the state of the LLM.                                         *)
(***************************************************************************)
EXTENDS Heartbeat, SeqLemmas

ThreadState == [pc : WorkerPcs, prompt : SUBSET Events]
TickPcs     == {"idle", "enter", "reclaim", "join", "forget", "claim",
                "createPing", "createAi", "store"}

(* What a thread that moves leaves alone. *)
LEMMA GotoMoves ==
  ASSUME thread \in [Handles -> ThreadState], NEW h \in Handles,
         NEW pc \in WorkerPcs, Goto(h, pc)
  PROVE  /\ thread' \in [Handles -> ThreadState]
         /\ thread'[h].pc = pc
         /\ \A g \in Handles : g # h => thread'[g] = thread[g]
<1>1. thread[h] \in ThreadState
  OBVIOUS
<1>2. [thread[h] EXCEPT !.pc = pc] \in ThreadState
      /\ [thread[h] EXCEPT !.pc = pc].pc = pc
  BY <1>1 DEF ThreadState
<1>3. thread' = [thread EXCEPT ![h] = [thread[h] EXCEPT !.pc = pc]]
  BY DEF Goto
<1> HIDE DEF ThreadState
<1>4. QED
  BY <1>2, <1>3

LEMMA TypeFacts ==
  ASSUME TypeOK
  PROVE  /\ thread \in [Handles -> ThreadState]
         /\ tick.pc \in TickPcs /\ tick.handle \in Handles \cup {None}
         /\ tick = [pc |-> tick.pc, handle |-> tick.handle]
         /\ stop.pc \in {"down", "up", "failed", "wait", "join", "stopped"}
         /\ \A h \in Handles : thread[h].pc \in WorkerPcs /\ thread[h].prompt \subseteq Events
         /\ last \in Handles \cup {None} /\ busy \in BOOLEAN /\ registered \in BOOLEAN
BY DEF TypeOK, ThreadState, TickPcs

(* Two threads that work are the same; one that works has s_busy set, and  *)
(* neither a claim nor a reclaim is under way.                             *)
LEMMA WorkerAlone ==
  ASSUME HeartbeatInv, NEW h \in Working
  PROVE  /\ \A g \in Working : g = h
         /\ busy /\ ~Claimed /\ ~Reclaiming
BY DEF HeartbeatInv, OneWorker, BusyIsClaimed

(* While s_busy is clear nobody works. *)
LEMMA IdleIsQuiet ==
  ASSUME HeartbeatInv, ~busy
  PROVE  Working = {} /\ ~Claimed /\ \A h \in Handles : ~At(h, "deliver")
<1>1. Working = {}
  BY DEF HeartbeatInv, OneWorker
<1>2. \A h \in Handles : At(h, "deliver") => h \in Working
  BY DEF At, Working, Unfinished
<1>3. QED
  BY <1>1, <1>2 DEF HeartbeatInv, BusyIsClaimed

LEMMA WorkingIs ==
  /\ \A h \in Handles : h \in Working <=> thread[h].pc \notin {"free", "done", "exit"}
  /\ Working \subseteq Handles
BY DEF Working, Unfinished

-----------------------------------------------------------------------------

LEMMA EmptyTyped == <<>> \in Seq(Events) /\ Len(<<>>) <= MaxEvents
<1>1. Len(<<>>) = 0
  OBVIOUS
<1>2. QED
  BY <1>1, BufferAssumption

LEMMA InitInv == Init => HeartbeatInv
<1> SUFFICES ASSUME Init PROVE HeartbeatInv
  OBVIOUS
<1>1. TypeOK
  <2>1. events \in Seq(Events) /\ Len(events) <= MaxEvents
    BY EmptyTyped DEF Init
  <2>2. thread \in [Handles -> [pc : WorkerPcs, prompt : SUBSET Events]]
    BY DEF Init, WorkerPcs
  <2>3. QED
    BY <2>1, <2>2 DEF Init, TypeOK
<1>2. \A h \in Handles : At(h, "free")
  BY DEF Init, At
<1>3. Working = {}
  BY <1>2 DEF Working, Unfinished, At
<1>4. OneWorker /\ HandlesOwned /\ UserKnowsLlmState
  BY <1>2, <1>3 DEF Init, OneWorker, HandlesOwned, UserKnowsLlmState, At
<1>5. BusyIsClaimed /\ TickKnowsHandle /\ DownIsEmpty
  BY <1>2, <1>3 DEF Init, BusyIsClaimed, Claimed, Reclaiming, TickKnowsHandle, DownIsEmpty
<1>6. QED
  BY <1>1, <1>4, <1>5 DEF HeartbeatInv

(* Steps that touch neither threads, tick, stop nor the flags. *)
LEMMA ControlKept ==
  ASSUME HeartbeatInv, UNCHANGED <<busy, last, llm, registered, thread, tick, stop, told>>
  PROVE  /\ OneWorker' /\ HandlesOwned' /\ UserKnowsLlmState'
         /\ BusyIsClaimed' /\ TickKnowsHandle' /\ DownIsEmpty'
BY DEF HeartbeatInv, OneWorker, HandlesOwned, UserKnowsLlmState, BusyIsClaimed,
       TickKnowsHandle, DownIsEmpty, Working, Unfinished, Claimed, Reclaiming, At

LEMMA BufferTyped ==
  ASSUME TypeOK, NEW e \in Events, Buffer(e)
  PROVE  /\ events' \in Seq(Events) /\ Len(events') <= MaxEvents
         /\ dropped' \subseteq Events
<1>1. events \in Seq(Events) /\ Len(events) <= MaxEvents /\ dropped \subseteq Events
  BY DEF TypeOK
<1>2. CASE Len(events) < MaxEvents
  <2>1. events' = Append(events, e) /\ dropped' = dropped
    BY <1>2 DEF Buffer
  <2>2. Append(events, e) \in Seq(Events) /\ Len(Append(events, e)) = Len(events) + 1
    BY <1>1
  <2>3. QED
    BY <1>1, <1>2, <2>1, <2>2, BufferAssumption
<1>3. CASE ~(Len(events) < MaxEvents)
  BY <1>1, <1>3 DEF Buffer
<1>4. QED
  BY <1>2, <1>3

LEMMA PostInv ==
  ASSUME HeartbeatInv, NEW e \in Events, Post(e)
  PROVE  HeartbeatInv'
<1>1. TypeOK'
  BY BufferTyped DEF HeartbeatInv, TypeOK, Post
<1>2. QED
  BY <1>1, ControlKept DEF Post, HeartbeatInv

(* The service starts with every handle free. *)
LEMMA InitServiceInv ==
  ASSUME HeartbeatInv, HeartbeatInit
  PROVE  HeartbeatInv'
<1>1. /\ last = None /\ tick = [pc |-> "idle", handle |-> None]
      /\ \A h \in Handles : thread[h].pc = "free"
      /\ busy' = FALSE /\ events' = <<>> /\ registered' \in BOOLEAN
      /\ stop'.pc \in {"up", "failed"} /\ stop'.handle = None
      /\ stop' \in [pc : {"down", "up", "failed", "wait", "join", "stopped"},
                    handle : Handles \cup {None}]
      /\ UNCHANGED <<engine, last, llm, thread, tick, history>>
  <2>1. last = None /\ tick = [pc |-> "idle", handle |-> None]
        /\ \A h \in Handles : thread[h].pc = "free"
    BY DEF HeartbeatInv, DownIsEmpty, HeartbeatInit, At
  <2>2. PICK pc \in {"up", "failed"} : stop' = [pc |-> pc, handle |-> None]
    BY DEF HeartbeatInit, StopGoto
  <2>3. /\ stop'.pc \in {"up", "failed"} /\ stop'.handle = None
        /\ stop' \in [pc : {"down", "up", "failed", "wait", "join", "stopped"},
                      handle : Handles \cup {None}]
    BY <2>2
  <2>4. QED
    BY <2>1, <2>3 DEF HeartbeatInit
<1>2. Working' = {}
  BY <1>1 DEF Working, Unfinished
<1>3. TypeOK'
  <2>1. events' \in Seq(Events) /\ Len(events') <= MaxEvents
    BY <1>1, EmptyTyped
  <2>2. QED
    BY <1>1, <2>1 DEF HeartbeatInv, TypeOK, history
<1>4. OneWorker' /\ HandlesOwned' /\ BusyIsClaimed' /\ TickKnowsHandle' /\ DownIsEmpty'
  BY <1>1, <1>2 DEF OneWorker, HandlesOwned, BusyIsClaimed, TickKnowsHandle,
                    DownIsEmpty, Claimed, Reclaiming, At
<1>5. UserKnowsLlmState'
  BY <1>1 DEF HeartbeatInv, UserKnowsLlmState, At, history
<1>6. QED
  BY <1>3, <1>4, <1>5 DEF HeartbeatInv

-----------------------------------------------------------------------------
(* The scheduler thread *)

(* A step of the tick that touches no thread. *)
LEMMA TickMoves ==
  ASSUME HeartbeatInv, NEW pc \in TickPcs, NEW h \in Handles \cup {None},
         TickGoto(pc, h), last' \in Handles \cup {None}, busy' \in BOOLEAN,
         UNCHANGED <<engine, events, llm, registered, thread, stop, history>>
  PROVE  /\ TypeOK' /\ UserKnowsLlmState'
         /\ tick'.pc = pc /\ tick'.handle = h
         /\ Working' = Working
         /\ stop.pc # "down" => DownIsEmpty'
BY DEF HeartbeatInv, TypeOK, TickGoto, TickPcs, UserKnowsLlmState, At, history,
       Working, Unfinished, DownIsEmpty

LEMMA TickCalledInv ==
  ASSUME HeartbeatInv, TickCalled
  PROVE  HeartbeatInv'
<1>1. /\ tick.pc = "idle" /\ registered /\ TickGoto("enter", None)
      /\ UNCHANGED <<engine, events, busy, last, llm, registered, thread, stop, history>>
  BY DEF TickCalled
<1>2. stop.pc # "down"
  BY <1>1 DEF HeartbeatInv, DownIsEmpty
<1>3. /\ TypeOK' /\ UserKnowsLlmState' /\ DownIsEmpty'
      /\ tick'.pc = "enter" /\ tick'.handle = None /\ Working' = Working
  <2>1. last' \in Handles \cup {None} /\ busy' \in BOOLEAN
    BY <1>1, TypeFacts DEF HeartbeatInv
  <2>2. QED
    BY <1>1, <1>2, <2>1, TickMoves DEF TickPcs
<1>4. OneWorker' /\ BusyIsClaimed'
  BY <1>1, <1>3 DEF HeartbeatInv, OneWorker, BusyIsClaimed, Claimed, Reclaiming
<1>5. HandlesOwned' /\ TickKnowsHandle'
  BY <1>1, <1>3 DEF HeartbeatInv, HandlesOwned, TickKnowsHandle, Claimed, At
<1>6. QED
  BY <1>3, <1>4, <1>5 DEF HeartbeatInv

(* A tick that is under way keeps the service from being down. *)
LEMMA TickIsUp ==
  ASSUME HeartbeatInv, tick.pc # "idle"
  PROVE  stop.pc # "down"
BY DEF HeartbeatInv, DownIsEmpty

(* s_busy is claimed while nobody works. *)
LEMMA ClaimInv ==
  ASSUME HeartbeatInv, Claim, ~busy, tick.pc \in {"enter", "claim"}, last = None,
         UNCHANGED <<engine, events, last, llm, registered, thread, stop, history>>
  PROVE  HeartbeatInv'
<1>1. PICK pc \in {"createPing", "createAi"} : TickGoto(pc, None)
  BY DEF Claim
<1>2. busy' = TRUE /\ Working = {}
  BY IdleIsQuiet DEF Claim
<1>3. /\ TypeOK' /\ UserKnowsLlmState' /\ DownIsEmpty'
      /\ tick'.pc = pc /\ tick'.handle = None /\ Working' = Working
  <2>1. last' \in Handles \cup {None} /\ pc \in TickPcs
    BY <1>1, TypeFacts DEF HeartbeatInv, TickPcs
  <2>2. QED
    BY <1>1, <1>2, <2>1, TickMoves, TickIsUp
<1>4. OneWorker' /\ BusyIsClaimed'
  BY <1>1, <1>2, <1>3 DEF OneWorker, BusyIsClaimed, Claimed, Reclaiming
<1>5. HandlesOwned' /\ TickKnowsHandle'
  BY <1>1, <1>3 DEF HeartbeatInv, HandlesOwned, TickKnowsHandle, Claimed, At
<1>6. QED
  BY <1>3, <1>4, <1>5 DEF HeartbeatInv

LEMMA TickEnterInv ==
  ASSUME HeartbeatInv, TickEnter
  PROVE  HeartbeatInv'
<1>1. /\ tick.pc = "enter"
      /\ UNCHANGED <<engine, events, last, llm, registered, thread, stop, history>>
  BY DEF TickEnter
<1>2. CASE ~busy /\ last = None /\ Claim
  BY <1>1, <1>2, ClaimInv
<1>3. CASE \/ busy /\ TickGoto("idle", None) /\ UNCHANGED busy
           \/ ~busy /\ last # None /\ TickGoto("reclaim", None) /\ UNCHANGED busy
  <2>1. PICK pc \in {"idle", "reclaim"} :
          TickGoto(pc, None) /\ (pc = "reclaim" => ~busy /\ last # None)
    BY <1>3
  <2>2. /\ TypeOK' /\ UserKnowsLlmState' /\ DownIsEmpty'
        /\ tick'.pc = pc /\ tick'.handle = None /\ Working' = Working
    <3>1. last' \in Handles \cup {None} /\ busy' \in BOOLEAN /\ pc \in TickPcs
      BY <1>1, <1>3, TypeFacts DEF HeartbeatInv, TickPcs
    <3>2. QED
      BY <1>1, <2>1, <3>1, TickMoves, TickIsUp
  <2>3. OneWorker' /\ BusyIsClaimed'
    BY <1>3, <2>1, <2>2 DEF HeartbeatInv, OneWorker, BusyIsClaimed, Claimed, Reclaiming
  <2>4. HandlesOwned' /\ TickKnowsHandle'
    BY <1>1, <2>1, <2>2 DEF HeartbeatInv, HandlesOwned, TickKnowsHandle, Claimed, At
  <2>5. QED
    BY <2>2, <2>3, <2>4 DEF HeartbeatInv
<1>4. QED
  BY <1>2, <1>3 DEF TickEnter

LEMMA TickReclaimInv ==
  ASSUME HeartbeatInv, TickReclaim
  PROVE  HeartbeatInv'
<1>1. /\ tick.pc = "reclaim" /\ TickGoto("join", last)
      /\ UNCHANGED <<engine, events, busy, last, llm, registered, thread, stop, history>>
  BY DEF TickReclaim
<1>2. /\ TypeOK' /\ UserKnowsLlmState' /\ DownIsEmpty'
      /\ tick'.pc = "join" /\ tick'.handle = last /\ Working' = Working
  <2>1. last \in Handles \cup {None} /\ busy' \in BOOLEAN
    BY <1>1, TypeFacts DEF HeartbeatInv
  <2>2. QED
    BY <1>1, <2>1, TickMoves, TickIsUp DEF TickPcs
<1>3. OneWorker' /\ BusyIsClaimed'
  BY <1>1, <1>2 DEF HeartbeatInv, OneWorker, BusyIsClaimed, Claimed, Reclaiming
<1>4. HandlesOwned' /\ TickKnowsHandle'
  <2> SUFFICES ASSUME stop.pc \in {"up", "wait"}
               PROVE  HandlesOwned' /\ TickKnowsHandle'
    BY <1>1 DEF HandlesOwned, TickKnowsHandle
  <2>1. /\ last # None /\ thread[last].pc # "free" /\ tick.handle = None
        /\ \A h \in Handles : thread[h].pc # "free" => h = last
    BY <1>1, TypeFacts, HandleAssumption
       DEF HeartbeatInv, HandlesOwned, TickKnowsHandle, At
  <2>2. HandlesOwned'
    BY <1>1, <1>2, <2>1 DEF HandlesOwned
  <2>3. TickKnowsHandle'
    BY <1>1, <1>2, <2>1 DEF TickKnowsHandle, Claimed, At
  <2>4. QED
    BY <2>2, <2>3
<1>5. QED
  BY <1>2, <1>3, <1>4 DEF HeartbeatInv

(* A step of the tick that may move threads too. *)
LEMMA TickTyped ==
  ASSUME HeartbeatInv, NEW pc \in TickPcs, NEW h \in Handles \cup {None},
         TickGoto(pc, h), last' \in Handles \cup {None}, busy' \in BOOLEAN,
         thread' \in [Handles -> ThreadState], stop.pc # "down",
         UNCHANGED <<engine, events, llm, registered, stop, history>>
  PROVE  TypeOK' /\ DownIsEmpty' /\ tick'.pc = pc /\ tick'.handle = h
BY DEF HeartbeatInv, TypeOK, TickGoto, TickPcs, ThreadState, history, DownIsEmpty

(* Joining frees a thread that had ended, and touches no other. *)
LEMMA JoinFrees ==
  ASSUME HeartbeatInv, NEW h \in Handles \cup {None}, Join(h)
  PROVE  /\ thread' \in [Handles -> ThreadState]
         /\ h # None => thread'[h].pc = "free"
         /\ \A g \in Handles : g # h => thread'[g] = thread[g]
         /\ Working' = Working
         /\ \A g \in Handles : At(g, "deliver")' <=> At(g, "deliver")
<1>1. thread \in [Handles -> ThreadState]
  BY TypeFacts DEF HeartbeatInv
<1>2. CASE h = None
  <2>1. thread' = thread
    BY <1>2 DEF Join
  <2>2. QED
    BY <1>1, <1>2, <2>1, HandleAssumption DEF Working, Unfinished, At
<1>3. CASE h # None
  <2>1. h \in Handles /\ thread[h].pc \in {"done", "free"} /\ Goto(h, "free")
    BY <1>3 DEF Join, Goto
  <2>2. /\ thread' \in [Handles -> ThreadState] /\ thread'[h].pc = "free"
        /\ \A g \in Handles : g # h => thread'[g] = thread[g]
    BY <1>1, <2>1, GotoMoves DEF WorkerPcs
  <2>3. Working' = Working
    BY <2>1, <2>2 DEF Working, Unfinished
  <2>4. \A g \in Handles : At(g, "deliver")' <=> At(g, "deliver")
    BY <2>1, <2>2 DEF At
  <2>5. QED
    BY <2>2, <2>3, <2>4
<1>4. QED
  BY <1>2, <1>3

LEMMA TickJoinInv ==
  ASSUME HeartbeatInv, TickJoin
  PROVE  HeartbeatInv'
<1>1. /\ tick.pc = "join" /\ Join(tick.handle) /\ TickGoto("forget", None)
      /\ UNCHANGED <<engine, events, busy, last, llm, registered, stop, history>>
  BY DEF TickJoin
<1>2. tick.handle \in Handles \cup {None} /\ last' \in Handles \cup {None} /\ busy' \in BOOLEAN
  BY <1>1, TypeFacts DEF HeartbeatInv
<1>3. /\ thread' \in [Handles -> ThreadState]
      /\ tick.handle # None => thread'[tick.handle].pc = "free"
      /\ \A g \in Handles : g # tick.handle => thread'[g] = thread[g]
      /\ Working' = Working
      /\ \A g \in Handles : At(g, "deliver")' <=> At(g, "deliver")
  BY <1>1, <1>2, JoinFrees
<1>4. TypeOK' /\ DownIsEmpty' /\ tick'.pc = "forget" /\ tick'.handle = None
  BY <1>1, <1>2, <1>3, TickTyped, TickIsUp DEF TickPcs
<1>5. OneWorker' /\ BusyIsClaimed'
  BY <1>1, <1>3, <1>4 DEF HeartbeatInv, OneWorker, BusyIsClaimed, Claimed, Reclaiming
<1>6. UserKnowsLlmState'
  BY <1>1, <1>3 DEF HeartbeatInv, UserKnowsLlmState, history
<1>7. HandlesOwned' /\ TickKnowsHandle'
  <2> SUFFICES ASSUME stop.pc \in {"up", "wait"}
               PROVE  HandlesOwned' /\ TickKnowsHandle'
    BY <1>1 DEF HandlesOwned, TickKnowsHandle
  <2>1. /\ tick.handle # None
        /\ \A h \in Handles : thread[h].pc # "free" => h = tick.handle
    BY <1>1 DEF HeartbeatInv, HandlesOwned, TickKnowsHandle
  <2>2. \A h \in Handles : thread'[h].pc = "free"
    BY <1>3, <2>1
  <2>3. QED
    BY <1>4, <2>2 DEF HandlesOwned, TickKnowsHandle, Claimed, At
<1>8. QED
  BY <1>4, <1>5, <1>6, <1>7 DEF HeartbeatInv

LEMMA TickForgetInv ==
  ASSUME HeartbeatInv, TickForget
  PROVE  HeartbeatInv'
<1>1. /\ tick.pc = "forget" /\ last' = None /\ TickGoto("claim", None)
      /\ UNCHANGED <<engine, events, busy, llm, registered, thread, stop, history>>
  BY DEF TickForget
<1>2. /\ TypeOK' /\ UserKnowsLlmState' /\ DownIsEmpty'
      /\ tick'.pc = "claim" /\ tick'.handle = None /\ Working' = Working
  <2>1. last' \in Handles \cup {None} /\ busy' \in BOOLEAN
    BY <1>1, TypeFacts DEF HeartbeatInv
  <2>2. QED
    BY <1>1, <2>1, TickMoves, TickIsUp DEF TickPcs
<1>3. OneWorker' /\ BusyIsClaimed'
  BY <1>1, <1>2 DEF HeartbeatInv, OneWorker, BusyIsClaimed, Claimed, Reclaiming
<1>4. HandlesOwned' /\ TickKnowsHandle'
  BY <1>1, <1>2 DEF HeartbeatInv, HandlesOwned, TickKnowsHandle, Claimed, At
<1>5. QED
  BY <1>2, <1>3, <1>4 DEF HeartbeatInv

(* s_busy is not looked at a second time, and need not be. *)
LEMMA TickClaimInv ==
  ASSUME HeartbeatInv, TickClaim
  PROVE  HeartbeatInv'
<1>1. /\ tick.pc = "claim" /\ Claim
      /\ UNCHANGED <<engine, events, last, llm, registered, thread, stop, history>>
  BY DEF TickClaim
<1>2. PICK pc \in {"createPing", "createAi"} : TickGoto(pc, None)
  BY <1>1 DEF Claim
<1>3. busy' = TRUE /\ ~busy /\ Working = {}
  BY <1>1, IdleIsQuiet DEF Claim, HeartbeatInv, BusyIsClaimed, Reclaiming
<1>4. /\ TypeOK' /\ UserKnowsLlmState' /\ DownIsEmpty'
      /\ tick'.pc = pc /\ tick'.handle = None /\ Working' = Working
  <2>1. last' \in Handles \cup {None} /\ pc \in TickPcs
    BY <1>1, <1>2, TypeFacts DEF HeartbeatInv, TickPcs
  <2>2. QED
    BY <1>1, <1>2, <1>3, <2>1, TickMoves, TickIsUp
<1>5. OneWorker' /\ BusyIsClaimed'
  BY <1>2, <1>3, <1>4 DEF OneWorker, BusyIsClaimed, Claimed, Reclaiming
<1>6. HandlesOwned' /\ TickKnowsHandle'
  BY <1>1, <1>2, <1>4 DEF HeartbeatInv, HandlesOwned, TickKnowsHandle, Claimed, At
<1>7. QED
  BY <1>4, <1>5, <1>6 DEF HeartbeatInv

(* The worker that is created is the only one.                             *)
LEMMA TickCreateInv ==
  ASSUME HeartbeatInv, TickCreate
  PROVE  HeartbeatInv'
<1>1. /\ tick.pc \in {"createPing", "createAi"}
      /\ UNCHANGED <<engine, events, busy, last, llm, registered, stop, history>>
  BY DEF TickCreate
<1>2. PICK h \in Handles : /\ thread[h].pc = "free" /\ Goto(h, FirstPc(tick.pc))
                           /\ TickGoto("store", h)
  BY DEF TickCreate, At
<1>3. FirstPc(tick.pc) \in {"health", "snapshot"}
  BY DEF FirstPc
<1>4. /\ thread' \in [Handles -> ThreadState]
      /\ thread'[h].pc \in {"health", "snapshot"}
      /\ \A g \in Handles : g # h => thread'[g] = thread[g]
  BY <1>2, <1>3, TypeFacts, GotoMoves DEF HeartbeatInv, WorkerPcs
<1>5. TypeOK' /\ DownIsEmpty' /\ tick'.pc = "store" /\ tick'.handle = h
  <2>1. last' \in Handles \cup {None} /\ busy' \in BOOLEAN
    BY <1>1, TypeFacts DEF HeartbeatInv
  <2>2. QED
    BY <1>1, <1>2, <1>4, <2>1, TickTyped, TickIsUp DEF TickPcs
<1>6. busy /\ Working = {} /\ Working' = {h}
  <2>1. busy /\ Working = {}
    BY <1>1 DEF HeartbeatInv, BusyIsClaimed, Claimed
  <2>2. QED
    BY <1>4, <2>1 DEF Working, Unfinished
<1>7. OneWorker' /\ BusyIsClaimed'
  BY <1>1, <1>5, <1>6 DEF OneWorker, BusyIsClaimed, Claimed, Reclaiming
<1>8. UserKnowsLlmState'
  <2>1. \A g \in Handles : ~At(g, "deliver")
    BY <1>6 DEF Working, Unfinished, At
  <2>2. QED
    BY <1>1, <2>1 DEF HeartbeatInv, UserKnowsLlmState, history
<1>9. HandlesOwned' /\ TickKnowsHandle'
  <2> SUFFICES ASSUME stop.pc \in {"up", "wait"}
               PROVE  HandlesOwned' /\ TickKnowsHandle'
    BY <1>1 DEF HandlesOwned, TickKnowsHandle
  <2>1. last = None /\ tick.handle = None
    BY <1>1 DEF HeartbeatInv, TickKnowsHandle, Claimed
  <2>2. \A g \in Handles : thread[g].pc = "free"
    BY <2>1, HandleAssumption DEF HeartbeatInv, HandlesOwned
  <2>3. HandlesOwned'
    BY <1>4, <1>5, <2>2 DEF HandlesOwned
  <2>4. TickKnowsHandle'
    BY <1>1, <1>4, <1>5, <2>1, HandleAssumption DEF TickKnowsHandle, Claimed, At
  <2>5. QED
    BY <2>3, <2>4
<1>10. QED
  BY <1>5, <1>7, <1>8, <1>9 DEF HeartbeatInv

(* The handle is stored while its thread may already have ended.           *)
LEMMA TickStoreInv ==
  ASSUME HeartbeatInv, TickStore
  PROVE  HeartbeatInv'
<1>1. /\ tick.pc = "store" /\ last' = tick.handle /\ TickGoto("idle", None)
      /\ UNCHANGED <<engine, events, busy, llm, registered, thread, stop, history>>
  BY DEF TickStore
<1>2. /\ TypeOK' /\ UserKnowsLlmState' /\ DownIsEmpty'
      /\ tick'.pc = "idle" /\ tick'.handle = None /\ Working' = Working
  <2>1. last' \in Handles \cup {None} /\ busy' \in BOOLEAN
    BY <1>1, TypeFacts DEF HeartbeatInv
  <2>2. QED
    BY <1>1, <2>1, TickMoves, TickIsUp DEF TickPcs
<1>3. OneWorker' /\ BusyIsClaimed'
  BY <1>1, <1>2 DEF HeartbeatInv, OneWorker, BusyIsClaimed, Claimed, Reclaiming
<1>4. HandlesOwned' /\ TickKnowsHandle'
  <2> SUFFICES ASSUME stop.pc \in {"up", "wait"}
               PROVE  HandlesOwned' /\ TickKnowsHandle'
    BY <1>1 DEF HandlesOwned, TickKnowsHandle
  <2>1. last = None /\ tick.handle # None /\ thread[tick.handle].pc # "free"
    BY <1>1 DEF HeartbeatInv, TickKnowsHandle, At
  <2>2. \A g \in Handles : thread[g].pc # "free" => g = last'
    BY <1>1, <2>1, HandleAssumption DEF HeartbeatInv, HandlesOwned
  <2>3. HandlesOwned'
    BY <1>1, <1>2, <2>2 DEF HandlesOwned
  <2>4. TickKnowsHandle'
    BY <1>1, <1>2, <2>1 DEF TickKnowsHandle, Claimed, At
  <2>5. QED
    BY <2>3, <2>4
<1>5. QED
  BY <1>2, <1>3, <1>4 DEF HeartbeatInv

LEMMA TickCreateFailsInv ==
  ASSUME HeartbeatInv, TickCreateFails
  PROVE  HeartbeatInv'
<1>1. /\ tick.pc \in {"createPing", "createAi"} /\ last' = None /\ busy' = FALSE
      /\ TickGoto("idle", None)
      /\ UNCHANGED <<engine, events, llm, registered, thread, stop, history>>
  BY DEF TickCreateFails
<1>2. /\ TypeOK' /\ UserKnowsLlmState' /\ DownIsEmpty'
      /\ tick'.pc = "idle" /\ tick'.handle = None /\ Working' = Working
  BY <1>1, TickMoves, TickIsUp DEF TickPcs
<1>3. OneWorker' /\ BusyIsClaimed'
  BY <1>1, <1>2 DEF HeartbeatInv, OneWorker, BusyIsClaimed, Claimed, Reclaiming
<1>4. HandlesOwned' /\ TickKnowsHandle'
  BY <1>1, <1>2 DEF HeartbeatInv, HandlesOwned, TickKnowsHandle, Claimed, At
<1>5. QED
  BY <1>2, <1>3, <1>4 DEF HeartbeatInv

LEMMA TickStepInv ==
  ASSUME HeartbeatInv, TickStep
  PROVE  HeartbeatInv'
BY TickEnterInv, TickReclaimInv, TickJoinInv, TickForgetInv, TickClaimInv,
   TickCreateInv, TickStoreInv, TickCreateFailsInv DEF TickStep

-----------------------------------------------------------------------------
(* The workers *)

(* What a step of the worker h keeps: it leaves the tick's claims alone,   *)
(* and clears s_busy only when it stops working.                           *)
LEMMA WorkerKeeps ==
  ASSUME HeartbeatInv, NEW h \in Handles,
         thread[h].pc # "free", thread'[h].pc # "free",
         \A g \in Handles : g # h => thread'[g] = thread[g],
         h \notin Working => h \notin Working',
         busy' = busy \/ (h \in Working /\ h \notin Working' /\ busy' = FALSE),
         UNCHANGED <<last, registered, tick, stop>>
  PROVE  OneWorker' /\ HandlesOwned' /\ BusyIsClaimed' /\ TickKnowsHandle' /\ DownIsEmpty'
<1>1. Working' \subseteq Working
  BY DEF Working, Unfinished
<1>2. h \in Working => ~Claimed /\ ~Reclaiming /\ (h \notin Working' => Working' = {})
  BY <1>1, WorkerAlone
<1>3. OneWorker'
  BY <1>1, <1>2 DEF HeartbeatInv, OneWorker
<1>4. BusyIsClaimed'
  BY <1>1, <1>2 DEF HeartbeatInv, BusyIsClaimed, Claimed, Reclaiming
<1>5. \A g \in Handles : thread'[g].pc = "free" <=> thread[g].pc = "free"
  OBVIOUS
<1>6. stop.pc # "down"
  BY DEF HeartbeatInv, DownIsEmpty, At
<1>7. HandlesOwned' /\ TickKnowsHandle'
  <2> SUFFICES ASSUME stop.pc \in {"up", "wait"}
               PROVE  HandlesOwned' /\ TickKnowsHandle'
    BY DEF HandlesOwned, TickKnowsHandle
  <2>1. last \in Handles \cup {None} /\ tick.handle \in Handles \cup {None}
    BY TypeFacts DEF HeartbeatInv
  <2>2. HandlesOwned'
    BY <1>5, <2>1 DEF HeartbeatInv, HandlesOwned
  <2>3. TickKnowsHandle'
    BY <1>5, <2>1 DEF HeartbeatInv, TickKnowsHandle, Claimed, At
  <2>4. QED
    BY <2>2, <2>3
<1>8. QED
  BY <1>3, <1>4, <1>6, <1>7 DEF DownIsEmpty

(* A step of a worker that does not tell the user keeps what he was told.  *)
LEMMA ToldKept ==
  ASSUME HeartbeatInv, NEW h \in Handles, ~At(h, "deliver"),
         \A g \in Handles : g # h => thread'[g] = thread[g],
         UNCHANGED <<llm, told>>
  PROVE  UserKnowsLlmState'
BY DEF HeartbeatInv, UserKnowsLlmState, At

(* The shape of most worker steps: the program counter of h moves on.      *)
LEMMA WorkerMoves ==
  ASSUME HeartbeatInv, NEW h \in Handles, NEW pc \in WorkerPcs, Goto(h, pc),
         thread[h].pc # "free", pc # "free",
         h \notin Working => pc \in {"exit", "done"},
         busy' = busy \/ (h \in Working /\ pc \in {"exit", "done"} /\ busy' = FALSE),
         UNCHANGED <<last, registered, tick, stop>>
  PROVE  /\ OneWorker' /\ HandlesOwned' /\ BusyIsClaimed' /\ TickKnowsHandle' /\ DownIsEmpty'
         /\ thread' \in [Handles -> ThreadState] /\ thread'[h].pc = pc
         /\ \A g \in Handles : g # h => thread'[g] = thread[g]
<1>1. /\ thread' \in [Handles -> ThreadState] /\ thread'[h].pc = pc
      /\ \A g \in Handles : g # h => thread'[g] = thread[g]
  BY TypeFacts, GotoMoves DEF HeartbeatInv
<1>2. h \in Working' <=> pc \notin {"free", "done", "exit"}
  BY <1>1 DEF Working, Unfinished
<1>3. QED
  BY <1>1, <1>2, WorkerKeeps

(* A step that changes a thread and s_busy only.                           *)
LEMMA WorkerTyped ==
  ASSUME HeartbeatInv, thread' \in [Handles -> ThreadState], busy' \in BOOLEAN,
         UNCHANGED <<engine, events, last, llm, registered, tick, stop, history>>
  PROVE  TypeOK'
<1>1. TypeOK
  BY DEF HeartbeatInv
<1>2. events' \in Seq(Events) /\ Len(events') <= MaxEvents
  BY <1>1 DEF TypeOK
<1>3. QED
  BY <1>1, <1>2 DEF TypeOK, ThreadState, history

(* build_prompt may leave out any number of events.                        *)
LEMMA SnapshotInv ==
  ASSUME HeartbeatInv, NEW h \in Handles, Snapshot(h)
  PROVE  HeartbeatInv'
<1>1. /\ thread[h].pc = "snapshot" /\ events' = <<>>
      /\ UNCHANGED <<engine, busy, last, llm, registered, tick, stop, dropped, reported, told>>
  BY DEF Snapshot, At
<1>2. PICK n \in 0..Len(events) :
        /\ thread' = [thread EXCEPT
                        ![h] = [pc |-> IF events = <<>> THEN "out" ELSE "chat",
                                prompt |-> ToSet(SubSeq(events, 1, n))]]
        /\ lost' = lost \cup ToSet(SubSeq(events, n + 1, Len(events)))
  BY DEF Snapshot, TakePrompt
<1>3. thread \in [Handles -> ThreadState] /\ events \in Seq(Events) /\ lost \subseteq Events
  BY TypeFacts DEF HeartbeatInv, TypeOK
<1>4. /\ ToSet(SubSeq(events, 1, n)) \subseteq Events
      /\ ToSet(SubSeq(events, n + 1, Len(events))) \subseteq Events
  <2>1. /\ SubSeq(events, 1, n) \in Seq(Events)
        /\ SubSeq(events, n + 1, Len(events)) \in Seq(Events)
    BY <1>3
  <2>2. \A s \in Seq(Events) : ToSet(s) \subseteq Events
    BY DEF ToSet
  <2>3. QED
    BY <2>1, <2>2
<1>5. PICK pc \in {"out", "chat"} :
        thread' = [thread EXCEPT ![h] = [pc |-> pc, prompt |-> ToSet(SubSeq(events, 1, n))]]
  BY <1>2
<1>6. [pc |-> pc, prompt |-> ToSet(SubSeq(events, 1, n))] \in ThreadState
  BY <1>4 DEF ThreadState, WorkerPcs
<1>7. /\ thread' \in [Handles -> ThreadState] /\ thread'[h].pc = pc
      /\ \A g \in Handles : g # h => thread'[g] = thread[g]
  BY <1>3, <1>5, <1>6
<1>8. h \in Working
  BY <1>1 DEF Working, Unfinished
<1>9. OneWorker' /\ HandlesOwned' /\ BusyIsClaimed' /\ TickKnowsHandle' /\ DownIsEmpty'
  BY <1>1, <1>5, <1>7, <1>8, WorkerKeeps
<1>10. UserKnowsLlmState'
  BY <1>1, <1>7, ToldKept DEF At
<1>11. TypeOK'
  <2>1. events' \in Seq(Events) /\ Len(events') <= MaxEvents
    BY <1>1, EmptyTyped
  <2>2. lost' \subseteq Events
    BY <1>2, <1>3, <1>4
  <2>3. QED
    BY <1>1, <1>7, <2>1, <2>2 DEF HeartbeatInv, TypeOK, ThreadState
<1>12. QED
  BY <1>9, <1>10, <1>11 DEF HeartbeatInv

LEMMA SnapshotFailsInv ==
  ASSUME HeartbeatInv, NEW h \in Handles, SnapshotFails(h)
  PROVE  HeartbeatInv'
<1>1. /\ thread[h].pc = "snapshot" /\ Goto(h, "out")
      /\ UNCHANGED <<engine, events, busy, last, llm, registered, tick, stop, history>>
  BY DEF SnapshotFails, At
<1>2. h \in Working
  BY <1>1 DEF Working, Unfinished
<1>3. /\ OneWorker' /\ HandlesOwned' /\ BusyIsClaimed' /\ TickKnowsHandle' /\ DownIsEmpty'
      /\ thread' \in [Handles -> ThreadState]
      /\ \A g \in Handles : g # h => thread'[g] = thread[g]
  BY <1>1, <1>2, WorkerMoves DEF WorkerPcs
<1>4. UserKnowsLlmState'
  BY <1>1, <1>3, ToldKept DEF At, history
<1>5. TypeOK'
  <2>1. busy' \in BOOLEAN
    BY <1>1, TypeFacts DEF HeartbeatInv
  <2>2. QED
    BY <1>1, <1>3, <2>1, WorkerTyped
<1>6. QED
  BY <1>3, <1>4, <1>5 DEF HeartbeatInv

LEMMA ChatInv ==
  ASSUME HeartbeatInv, NEW h \in Handles, Chat(h)
  PROVE  HeartbeatInv'
<1>1. /\ thread[h].pc = "chat"
      /\ thread' = [thread EXCEPT ![h] = [pc |-> "out", prompt |-> {}]]
      /\ reported' \in {reported, reported \cup thread[h].prompt}
      /\ lost' \in {lost, lost \cup thread[h].prompt}
      /\ UNCHANGED <<engine, events, busy, last, llm, registered, tick, stop, dropped, told>>
  BY DEF Chat, At
<1>2. thread \in [Handles -> ThreadState] /\ thread[h].prompt \subseteq Events
  BY TypeFacts DEF HeartbeatInv
<1>3. [pc |-> "out", prompt |-> {}] \in ThreadState
  BY DEF ThreadState, WorkerPcs
<1>4. /\ thread' \in [Handles -> ThreadState] /\ thread'[h].pc = "out"
      /\ \A g \in Handles : g # h => thread'[g] = thread[g]
  BY <1>1, <1>2, <1>3
<1>5. h \in Working
  BY <1>1 DEF Working, Unfinished
<1>6. OneWorker' /\ HandlesOwned' /\ BusyIsClaimed' /\ TickKnowsHandle' /\ DownIsEmpty'
  BY <1>1, <1>4, <1>5, WorkerKeeps
<1>7. UserKnowsLlmState'
  BY <1>1, <1>4, ToldKept DEF At
<1>8. TypeOK'
  <2>1. reported' \subseteq Events /\ lost' \subseteq Events
    BY <1>1, <1>2 DEF HeartbeatInv, TypeOK
  <2>2. QED
    BY <1>1, <1>4, <2>1 DEF HeartbeatInv, TypeOK, ThreadState
<1>9. QED
  BY <1>6, <1>7, <1>8 DEF HeartbeatInv

(* The worker is stranded in its call.                                     *)
LEMMA StrandedInv ==
  ASSUME HeartbeatInv, NEW h \in Handles, At(h, "chat"), Goto(h, "stranded"),
         engine' \in {"serves", "broken", "stopped"},
         UNCHANGED <<events, busy, last, llm, registered, tick, stop, history>>
  PROVE  HeartbeatInv'
<1>1. h \in Working /\ thread[h].pc = "chat"
  BY DEF Working, Unfinished, At
<1>2. /\ OneWorker' /\ HandlesOwned' /\ BusyIsClaimed' /\ TickKnowsHandle' /\ DownIsEmpty'
      /\ thread' \in [Handles -> ThreadState]
      /\ \A g \in Handles : g # h => thread'[g] = thread[g]
  BY <1>1, WorkerMoves DEF WorkerPcs
<1>3. UserKnowsLlmState'
  BY <1>1, <1>2, ToldKept DEF At, history
<1>4. TypeOK'
  <2>1. TypeOK
    BY DEF HeartbeatInv
  <2>2. events' \in Seq(Events) /\ Len(events') <= MaxEvents
    BY <2>1 DEF TypeOK
  <2>3. QED
    BY <1>2, <2>1, <2>2 DEF TypeOK, ThreadState, history
<1>5. QED
  BY <1>2, <1>3, <1>4 DEF HeartbeatInv

LEMMA StrandInv ==
  ASSUME HeartbeatInv, NEW h \in Handles, Strand(h)
  PROVE  HeartbeatInv'
<1>1. engine' \in {"serves", "broken", "stopped"}
  BY DEF Strand
<1>2. QED
  BY <1>1, StrandedInv DEF Strand

LEMMA EngineStopsInv ==
  ASSUME HeartbeatInv, EngineStops
  PROVE  HeartbeatInv'
<1>1. /\ engine' \in {"serves", "broken", "stopped"}
      /\ UNCHANGED <<events, busy, last, llm, registered, tick, stop, history>>
  BY DEF EngineStops
<1>2. CASE UNCHANGED thread
  <2>1. TypeOK'
    BY <1>1, <1>2 DEF HeartbeatInv, TypeOK, history
  <2>2. QED
    BY <1>1, <1>2, <2>1, ControlKept DEF HeartbeatInv, history
<1>3. ASSUME NEW h \in Handles, At(h, "chat"), Goto(h, "stranded") PROVE HeartbeatInv'
  BY <1>1, <1>3, StrandedInv
<1>4. QED
  BY <1>2, <1>3 DEF EngineStops

LEMMA HealthInv ==
  ASSUME HeartbeatInv, NEW h \in Handles, Health(h)
  PROVE  HeartbeatInv'
<1>1. /\ thread[h].pc = "health" /\ Goto(h, "ping")
      /\ UNCHANGED <<events, dropped>> \/ \E e \in Events : Buffer(e)
      /\ UNCHANGED <<engine, busy, last, llm, registered, tick, stop, reported, lost, told>>
  BY DEF Health, At
<1>2. h \in Working
  BY <1>1 DEF Working, Unfinished
<1>3. /\ OneWorker' /\ HandlesOwned' /\ BusyIsClaimed' /\ TickKnowsHandle' /\ DownIsEmpty'
      /\ thread' \in [Handles -> ThreadState]
      /\ \A g \in Handles : g # h => thread'[g] = thread[g]
  BY <1>1, <1>2, WorkerMoves DEF WorkerPcs
<1>4. UserKnowsLlmState'
  BY <1>1, <1>3, ToldKept DEF At
<1>5. TypeOK'
  <2>1. events' \in Seq(Events) /\ Len(events') <= MaxEvents /\ dropped' \subseteq Events
    BY <1>1, BufferTyped DEF HeartbeatInv, TypeOK
  <2>2. QED
    BY <1>1, <1>3, <2>1 DEF HeartbeatInv, TypeOK, ThreadState
<1>6. QED
  BY <1>3, <1>4, <1>5 DEF HeartbeatInv

(* Nobody else is telling the user: the one who pings is the only worker.  *)
LEMMA PingInv ==
  ASSUME HeartbeatInv, NEW h \in Handles, Ping(h)
  PROVE  HeartbeatInv'
<1>1. /\ thread[h].pc = "ping"
      /\ UNCHANGED <<engine, events, busy, last, registered, tick, stop, history>>
  BY DEF Ping, At
<1>2. PICK ok \in {0, 1} :
        llm' = ok /\ Goto(h, IF llm # ok THEN "deliver" ELSE "out")
  BY DEF Ping
<1>3. PICK pc \in {"deliver", "out"} : Goto(h, pc) /\ (pc = "out" => llm' = llm)
  BY <1>2
<1>4. h \in Working
  BY <1>1 DEF Working, Unfinished
<1>5. /\ OneWorker' /\ HandlesOwned' /\ BusyIsClaimed' /\ TickKnowsHandle' /\ DownIsEmpty'
      /\ thread' \in [Handles -> ThreadState] /\ thread'[h].pc = pc
      /\ \A g \in Handles : g # h => thread'[g] = thread[g]
  BY <1>1, <1>3, <1>4, WorkerMoves DEF WorkerPcs
<1>6. told = llm
  <2>1. \A g \in Handles : At(g, "deliver") => g \in Working
    BY DEF At, Working, Unfinished
  <2>2. \A g \in Handles : ~At(g, "deliver")
    BY <1>1, <1>4, <2>1, WorkerAlone DEF At
  <2>3. QED
    BY <2>2 DEF HeartbeatInv, UserKnowsLlmState
<1>7. UserKnowsLlmState'
  BY <1>1, <1>3, <1>5, <1>6 DEF UserKnowsLlmState, At, history
<1>8. TypeOK'
  BY <1>1, <1>2, <1>5 DEF HeartbeatInv, TypeOK, ThreadState, history
<1>9. QED
  BY <1>5, <1>7, <1>8 DEF HeartbeatInv

LEMMA DeliverInv ==
  ASSUME HeartbeatInv, NEW h \in Handles, Deliver(h)
  PROVE  HeartbeatInv'
<1>1. /\ thread[h].pc = "deliver" /\ Goto(h, "out") /\ told' = llm
      /\ UNCHANGED <<engine, events, busy, last, llm, registered, tick, stop, dropped, reported, lost>>
  BY DEF Deliver, At
<1>2. h \in Working
  BY <1>1 DEF Working, Unfinished
<1>3. /\ OneWorker' /\ HandlesOwned' /\ BusyIsClaimed' /\ TickKnowsHandle' /\ DownIsEmpty'
      /\ thread' \in [Handles -> ThreadState]
  BY <1>1, <1>2, WorkerMoves DEF WorkerPcs
<1>4. UserKnowsLlmState'
  BY <1>1 DEF UserKnowsLlmState
<1>5. TypeOK'
  BY <1>1, <1>3 DEF HeartbeatInv, TypeOK, ThreadState
<1>6. QED
  BY <1>3, <1>4, <1>5 DEF HeartbeatInv

(* s_busy is cleared by the only worker.                                   *)
LEMMA OutInv ==
  ASSUME HeartbeatInv, NEW h \in Handles, Out(h)
  PROVE  HeartbeatInv'
<1>1. /\ thread[h].pc = "out" /\ Goto(h, "exit") /\ busy' = FALSE
      /\ UNCHANGED <<engine, events, last, llm, registered, tick, stop, history>>
  BY DEF Out, At
<1>2. h \in Working
  BY <1>1 DEF Working, Unfinished
<1>3. /\ OneWorker' /\ HandlesOwned' /\ BusyIsClaimed' /\ TickKnowsHandle' /\ DownIsEmpty'
      /\ thread' \in [Handles -> ThreadState]
      /\ \A g \in Handles : g # h => thread'[g] = thread[g]
  BY <1>1, <1>2, WorkerMoves DEF WorkerPcs
<1>4. UserKnowsLlmState'
  BY <1>1, <1>3, ToldKept DEF At, history
<1>5. TypeOK'
  <2>1. busy' \in BOOLEAN
    BY <1>1, TypeFacts DEF HeartbeatInv
  <2>2. QED
    BY <1>1, <1>3, <2>1, WorkerTyped
<1>6. QED
  BY <1>3, <1>4, <1>5 DEF HeartbeatInv

LEMMA ExitInv ==
  ASSUME HeartbeatInv, NEW h \in Handles, Exit(h)
  PROVE  HeartbeatInv'
<1>1. /\ thread[h].pc = "exit" /\ Goto(h, "done")
      /\ UNCHANGED <<engine, events, busy, last, llm, registered, tick, stop, history>>
  BY DEF Exit, At
<1>2. /\ OneWorker' /\ HandlesOwned' /\ BusyIsClaimed' /\ TickKnowsHandle' /\ DownIsEmpty'
      /\ thread' \in [Handles -> ThreadState]
      /\ \A g \in Handles : g # h => thread'[g] = thread[g]
  BY <1>1, WorkerMoves DEF WorkerPcs
<1>3. UserKnowsLlmState'
  BY <1>1, <1>2, ToldKept DEF At, history
<1>4. TypeOK'
  <2>1. busy' \in BOOLEAN
    BY <1>1, TypeFacts DEF HeartbeatInv
  <2>2. QED
    BY <1>1, <1>2, <2>1, WorkerTyped
<1>5. QED
  BY <1>2, <1>3, <1>4 DEF HeartbeatInv

LEMMA WorkerStepInv ==
  ASSUME HeartbeatInv, NEW h \in Handles, WorkerStep(h)
  PROVE  HeartbeatInv'
BY SnapshotInv, SnapshotFailsInv, ChatInv, StrandInv, HealthInv, PingInv, DeliverInv,
   OutInv, ExitInv
   DEF WorkerStep

-----------------------------------------------------------------------------
(* heartbeat_stop *)

(* A step of the caller that touches no thread.                            *)
LEMMA StopMoves ==
  ASSUME HeartbeatInv, NEW pc \in {"wait", "join"}, NEW h \in Handles \cup {None},
         StopGoto(pc, h), pc = "wait" => stop.pc = "up", registered' \in BOOLEAN,
         UNCHANGED <<engine, events, busy, last, llm, thread, tick, history>>
  PROVE  HeartbeatInv'
<1>1. stop'.pc = pc /\ stop' = [pc |-> pc, handle |-> h]
  BY DEF StopGoto
<1>2. TypeOK'
  BY <1>1 DEF HeartbeatInv, TypeOK, history
<1>3. Working' = Working
  BY DEF Working, Unfinished
<1>4. OneWorker' /\ BusyIsClaimed' /\ UserKnowsLlmState'
  BY <1>3 DEF HeartbeatInv, OneWorker, BusyIsClaimed, Claimed, Reclaiming,
              UserKnowsLlmState, At, history
<1>5. HandlesOwned' /\ TickKnowsHandle' /\ DownIsEmpty'
  BY <1>1 DEF HeartbeatInv, HandlesOwned, TickKnowsHandle, DownIsEmpty, Claimed, At
<1>6. QED
  BY <1>2, <1>4, <1>5 DEF HeartbeatInv

LEMMA StopRemoveInv ==
  ASSUME HeartbeatInv, StopRemove
  PROVE  HeartbeatInv'
BY StopMoves DEF StopRemove

LEMMA StopWaitEndsInv ==
  ASSUME HeartbeatInv, StopWaitEnds
  PROVE  HeartbeatInv'
<1>1. last \in Handles \cup {None} /\ registered \in BOOLEAN
  BY TypeFacts DEF HeartbeatInv
<1>2. QED
  BY <1>1, StopMoves DEF StopWaitEnds

LEMMA StopJoinInv ==
  ASSUME HeartbeatInv, StopJoin
  PROVE  HeartbeatInv'
<1>1. /\ stop.pc = "join" /\ Join(stop.handle)
      /\ last' \in {last, None} /\ stop' = [pc |-> "stopped", handle |-> None]
      /\ UNCHANGED <<engine, events, busy, llm, registered, tick, history>>
  BY DEF StopJoin, StopGoto
<1>2. stop.handle \in Handles \cup {None} /\ last' \in Handles \cup {None}
  BY <1>1 DEF HeartbeatInv, TypeOK
<1>3. /\ thread' \in [Handles -> ThreadState] /\ Working' = Working
      /\ \A g \in Handles : At(g, "deliver")' <=> At(g, "deliver")
  BY <1>1, <1>2, JoinFrees
<1>4. TypeOK'
  BY <1>1, <1>2, <1>3 DEF HeartbeatInv, TypeOK, ThreadState, history
<1>5. OneWorker' /\ BusyIsClaimed'
  BY <1>1, <1>3 DEF HeartbeatInv, OneWorker, BusyIsClaimed, Claimed, Reclaiming
<1>6. UserKnowsLlmState'
  BY <1>1, <1>3 DEF HeartbeatInv, UserKnowsLlmState, history
<1>7. HandlesOwned' /\ TickKnowsHandle' /\ DownIsEmpty'
  <2>1. stop'.pc = "stopped"
    BY <1>1
  <2>2. QED
    BY <2>1 DEF HandlesOwned, TickKnowsHandle, DownIsEmpty
<1>8. QED
  BY <1>4, <1>5, <1>6, <1>7 DEF HeartbeatInv

-----------------------------------------------------------------------------

LEMMA StepInv == HeartbeatInv /\ [Next]_vars => HeartbeatInv'
<1> SUFFICES ASSUME HeartbeatInv, [Next]_vars PROVE HeartbeatInv'
  OBVIOUS
<1>1. CASE HeartbeatInit
  BY <1>1, InitServiceInv
<1>2. CASE \E e \in Events : Post(e)
  BY <1>2, PostInv
<1>3. CASE TickCalled
  BY <1>3, TickCalledInv
<1>4. CASE TickStep
  BY <1>4, TickStepInv
<1>5. CASE \E h \in Handles : WorkerStep(h)
  BY <1>5, WorkerStepInv
<1>6. CASE StopRemove
  BY <1>6, StopRemoveInv
<1>7. CASE StopStep
  BY <1>7, StopWaitEndsInv, StopJoinInv DEF StopStep
<1>8. CASE UNCHANGED vars
  <2>1. TypeOK'
    BY <1>8 DEF HeartbeatInv, TypeOK, vars
  <2>2. QED
    BY <1>8, <2>1, ControlKept DEF HeartbeatInv, vars
<1>9. CASE EngineStops
  BY <1>9, EngineStopsInv
<1>10. QED
  BY <1>1, <1>2, <1>3, <1>4, <1>5, <1>6, <1>7, <1>8, <1>9 DEF Next

(* The inductive invariant: s_busy is claimed for one worker at a time, is *)
(* clear while the scheduler thread reclaims the previous one, and where   *)
(* that thread stands says what s_last_worker is.                          *)
THEOREM HeartbeatInvariant == Spec => []HeartbeatInv
<1>1. HeartbeatInv /\ [Next]_vars => HeartbeatInv'
  BY StepInv
<1>2. QED
  BY <1>1, InitInv, PTL DEF Spec

(* The variables keep their types, and the buffer its size.                *)
THEOREM HeartbeatTypeCorrect == Spec => []TypeOK
<1>1. HeartbeatInv => TypeOK
  BY DEF HeartbeatInv
<1>2. QED
  BY <1>1, HeartbeatInvariant, PTL

(* At most one worker works, and s_busy is set while it does: the flag is  *)
(* tested under s_lock and claimed there, or, after a reclaim that released *)
(* the lock, claimed without a second test by the only thread that claims. *)
THEOREM HeartbeatOneWorker == Spec => []OneWorker
<1>1. HeartbeatInv => OneWorker
  BY DEF HeartbeatInv
<1>2. QED
  BY <1>1, HeartbeatInvariant, PTL

(* The scheduler thread only joins a worker that holds s_busy no longer,   *)
(* so it never waits for an AI call.                                       *)
THEOREM HeartbeatNeverBlocks == Spec => []TickNeverBlocks
<1>1. HeartbeatInv => TickNeverBlocks
  BY DEF HeartbeatInv, BusyIsClaimed, Reclaiming, OneWorker, TickNeverBlocks
<1>2. QED
  BY <1>1, HeartbeatInvariant, PTL

(* No handle is leaked, and none is joined twice, while the service runs.  *)
THEOREM HeartbeatHandlesOwned == Spec => []HandlesOwned
<1>1. HeartbeatInv => HandlesOwned
  BY DEF HeartbeatInv
<1>2. QED
  BY <1>1, HeartbeatInvariant, PTL

(* The user was told the state heartbeat_llm_online answers, unless the    *)
(* notification is under way.                                              *)
THEOREM HeartbeatUserKnows == Spec => []UserKnowsLlmState
<1>1. HeartbeatInv => UserKnowsLlmState
  BY DEF HeartbeatInv
<1>2. QED
  BY <1>1, HeartbeatInvariant, PTL

-----------------------------------------------------------------------------
(* Where the posted events are.  Two workers would share them out between  *)
(* two prompts, so this rests on HeartbeatInv.                             *)

EventsCore ==
  /\ IsInjective(events)
  /\ \A h \in Handles : thread[h].prompt # {} => InCall(h)
  /\ PlacesApart
  /\ PlacesFinite

LEMMA InPromptIs == \A x : x \in InPrompt <=> \E h \in Handles : x \in thread[h].prompt
BY DEF InPrompt

(* While a worker is busy with something else there is no prompt, and the  *)
(* prompt of one that asks the AI is the only one.                         *)
LEMMA OnePrompt ==
  ASSUME HeartbeatInv, EventsCore, NEW h \in Working
  PROVE  /\ \A g \in Handles : g # h => thread[g].prompt = {}
         /\ InPrompt = thread[h].prompt
<1>1. ASSUME NEW g \in Handles, g # h PROVE thread[g].prompt = {}
  <2>1. InCall(g) => g \in Working
    BY WorkingIs DEF InCall, At, InCall
  <2>2. g \notin Working
    BY <1>1, WorkerAlone
  <2>3. QED
    BY <2>1, <2>2 DEF EventsCore
<1>2. h \in Handles
  BY WorkingIs
<1>3. \A x : x \in InPrompt <=> x \in thread[h].prompt
  BY <1>1, <1>2, InPromptIs
<1>4. InPrompt = thread[h].prompt
  BY <1>3
<1>5. QED
  BY <1>1, <1>4

(* Nothing moves between the places. *)
LEMMA PlacesKept ==
  ASSUME EventsCore, InPrompt' = InPrompt,
         UNCHANGED <<events, dropped, reported, lost>>,
         \A h \in Handles : thread'[h].prompt # {} => InCall(h)'
  PROVE  EventsCore'
<1>1. Buffered' = Buffered
  BY DEF Buffered
<1>2. PlacesApart' /\ PlacesFinite'
  BY <1>1 DEF EventsCore, PlacesApart, PlacesFinite
<1>3. QED
  BY <1>2 DEF EventsCore, At, InCall

(* A thread that goes on, and has no prompt, leaves them in place. *)
LEMMA PromptsKept ==
  ASSUME EventsCore,
         \A h \in Handles : /\ thread'[h].prompt = thread[h].prompt
                            /\ InCall(h) => InCall(h)'
  PROVE  /\ InPrompt' = InPrompt
         /\ \A h \in Handles : thread'[h].prompt # {} => InCall(h)'
<1>1. InPrompt' = UNION {thread'[h].prompt : h \in Handles}
  BY DEF InPrompt
<1>2. {thread'[h].prompt : h \in Handles} = {thread[h].prompt : h \in Handles}
  OBVIOUS
<1>3. InPrompt' = InPrompt
  BY <1>1, <1>2 DEF InPrompt
<1>4. QED
  BY <1>3 DEF EventsCore, At, InCall

LEMMA GotoKeepsPrompts ==
  ASSUME HeartbeatInv, EventsCore, NEW h \in Handles, NEW pc, Goto(h, pc),
         ~InCall(h)
  PROVE  /\ InPrompt' = InPrompt
         /\ \A g \in Handles : thread'[g].prompt # {} => InCall(g)'
<1>1. thread \in [Handles -> ThreadState]
  BY TypeFacts DEF HeartbeatInv
<1>2. \A g \in Handles : /\ thread'[g].prompt = thread[g].prompt
                         /\ InCall(g) => InCall(g)'
  BY <1>1 DEF Goto, ThreadState, At, InCall
<1>3. QED
  BY <1>2, PromptsKept

(* A worker that is stranded keeps its prompt.                             *)
LEMMA StrandedPrompts ==
  ASSUME HeartbeatInv, EventsCore, NEW h \in Handles, Goto(h, "stranded")
  PROVE  /\ InPrompt' = InPrompt
         /\ \A g \in Handles : thread'[g].prompt # {} => InCall(g)'
<1>1. thread \in [Handles -> ThreadState]
  BY TypeFacts DEF HeartbeatInv
<1>2. \A g \in Handles : /\ thread'[g].prompt = thread[g].prompt
                         /\ InCall(g) => InCall(g)'
  BY <1>1 DEF Goto, ThreadState, At, InCall
<1>3. QED
  BY <1>2, PromptsKept

LEMMA JoinKeepsPrompts ==
  ASSUME HeartbeatInv, EventsCore, NEW h \in Handles \cup {None}, Join(h)
  PROVE  /\ InPrompt' = InPrompt
         /\ \A g \in Handles : thread'[g].prompt # {} => InCall(g)'
<1>1. CASE h = None
  <2>1. thread' = thread
    BY <1>1 DEF Join
  <2>2. QED
    BY <2>1, PromptsKept DEF At, InCall
<1>2. CASE h # None
  <2>1. h \in Handles /\ Goto(h, "free") /\ ~InCall(h)
    BY <1>2 DEF Join, Goto, At, InCall
  <2>2. QED
    BY <2>1, GotoKeepsPrompts
<1>3. QED
  BY <1>1, <1>2

(* A new event goes to the buffer, or is dropped. *)
LEMMA BufferPlaces ==
  ASSUME HeartbeatInv, EventsCore, NEW e \in Events, e \notin Posted, Buffer(e),
         InPrompt' = InPrompt, UNCHANGED <<reported, lost>>,
         \A h \in Handles : thread'[h].prompt # {} => InCall(h)'
  PROVE  EventsCore'
<1>1. events \in Seq(Events) /\ IsInjective(events)
  BY DEF HeartbeatInv, TypeOK, EventsCore
<1>2. CASE Len(events) < MaxEvents
  <2>1. events' = Append(events, e) /\ dropped' = dropped
    BY <1>2 DEF Buffer
  <2>2. e \notin ToSet(events)
    BY DEF Posted, Buffered
  <2>3. Buffered' = Buffered \cup {e} /\ IsInjective(events')
    BY <1>1, <2>1, <2>2, AppendElements DEF Buffered
  <2>4. PlacesApart' /\ PlacesFinite'
    BY <2>1, <2>3 DEF EventsCore, PlacesApart, PlacesFinite, Posted
  <2>5. QED
    BY <2>3, <2>4 DEF EventsCore, At, InCall
<1>3. CASE ~(Len(events) < MaxEvents)
  <2>1. events' = events /\ dropped' = dropped \cup {e}
    BY <1>3 DEF Buffer
  <2>2. Buffered' = Buffered
    BY <2>1 DEF Buffered
  <2>3. PlacesApart'
    BY <2>1, <2>2 DEF EventsCore, PlacesApart, Posted
  <2>4. PlacesFinite'
    BY <2>1, FS_AddElement DEF EventsCore, PlacesFinite
  <2>5. QED
    BY <1>1, <2>1, <2>3, <2>4 DEF EventsCore, At, InCall
<1>4. QED
  BY <1>2, <1>3

(* The buffer is shared out between the prompt and what is cut off. *)
LEMMA SnapshotPlaces ==
  ASSUME HeartbeatInv, EventsCore, NEW h \in Handles, Snapshot(h)
  PROVE  EventsCore'
<1>1. /\ events \in Seq(Events) /\ IsInjective(events)
      /\ thread \in [Handles -> ThreadState]
      /\ IsFiniteSet(Buffered)
  BY TypeFacts, InjectiveCardinality DEF HeartbeatInv, TypeOK, EventsCore, Buffered
<1>2. h \in Working /\ thread[h].prompt = {}
  BY WorkingIs DEF Snapshot, At, InCall, EventsCore
<1>3. InPrompt = {} /\ \A g \in Handles : thread[g].prompt = {}
  BY <1>2, OnePrompt
<1>4. PICK n \in 0..Len(events) :
        /\ thread' = [thread EXCEPT
                        ![h] = [pc |-> IF events = <<>> THEN "out" ELSE "chat",
                                prompt |-> ToSet(SubSeq(events, 1, n))]]
        /\ lost' = lost \cup ToSet(SubSeq(events, n + 1, Len(events)))
  BY DEF Snapshot, TakePrompt
<1>5. PICK taken, cut : taken = ToSet(SubSeq(events, 1, n))
                        /\ cut = ToSet(SubSeq(events, n + 1, Len(events)))
  OBVIOUS
<1>6. taken \cup cut = Buffered /\ taken \cap cut = {}
  BY <1>1, <1>5, SplitElements DEF Buffered
<1>7. /\ events' = <<>> /\ lost' = lost \cup cut
      /\ UNCHANGED <<dropped, reported>>
      /\ thread'[h].prompt = taken
      /\ thread'[h].pc = IF events = <<>> THEN "out" ELSE "chat"
      /\ \A g \in Handles : g # h => thread'[g] = thread[g]
  BY <1>1, <1>4, <1>5 DEF Snapshot
<1>8. events = <<>> => taken = {}
  BY <1>6 DEF Buffered, ToSet
<1>9. \A g \in Handles : thread'[g].prompt # {} => g = h /\ InCall(g)'
  BY <1>3, <1>7, <1>8 DEF InCall, At
<1>10. InPrompt' = taken
  <2>1. InPrompt' = UNION {thread'[g].prompt : g \in Handles}
    BY DEF InPrompt
  <2>2. \A x : x \in UNION {thread'[g].prompt : g \in Handles} <=> x \in taken
    BY <1>7, <1>9
  <2>3. QED
    BY <2>1, <2>2
<1>11. Buffered' = {} /\ IsInjective(events')
  BY <1>7 DEF Buffered, ToSet, IsInjective
<1>12. PlacesApart'
  BY <1>6, <1>7, <1>10, <1>11 DEF EventsCore, PlacesApart
<1>13. IsFiniteSet(taken) /\ IsFiniteSet(cut)
  <2>1. taken \in SUBSET Buffered /\ cut \in SUBSET Buffered
    BY <1>6
  <2>2. QED
    BY <1>1, <2>1, FS_Subset
<1>14. PlacesFinite'
  BY <1>7, <1>10, <1>13, FS_Union DEF EventsCore, PlacesFinite
<1>15. QED
  BY <1>9, <1>11, <1>12, <1>14 DEF EventsCore, At, InCall

(* The prompt becomes a report, or is lost. *)
LEMMA ChatPlaces ==
  ASSUME HeartbeatInv, EventsCore, NEW h \in Handles, Chat(h)
  PROVE  EventsCore'
<1>1. thread \in [Handles -> ThreadState]
  BY TypeFacts DEF HeartbeatInv
<1>2. h \in Working
  BY WorkingIs DEF Chat, At, InCall
<1>3. InPrompt = thread[h].prompt /\ \A g \in Handles : g # h => thread[g].prompt = {}
  BY <1>2, OnePrompt
<1>4. /\ thread'[h].prompt = {}
      /\ \A g \in Handles : g # h => thread'[g] = thread[g]
      /\ UNCHANGED <<events, dropped>>
      /\ \/ reported' = reported \cup InPrompt /\ lost' = lost
         \/ lost' = lost \cup InPrompt /\ reported' = reported
  BY <1>1, <1>3 DEF Chat
<1>5. \A g \in Handles : thread'[g].prompt = {}
  BY <1>3, <1>4
<1>6. InPrompt' = {}
  <2>1. InPrompt' = UNION {thread'[g].prompt : g \in Handles}
    BY DEF InPrompt
  <2>2. \A x : x \notin UNION {thread'[g].prompt : g \in Handles}
    BY <1>5
  <2>3. QED
    BY <2>1, <2>2
<1>7. Buffered' = Buffered /\ IsInjective(events')
  BY <1>4 DEF Buffered, EventsCore
<1>8. PlacesApart'
  BY <1>4, <1>6, <1>7 DEF EventsCore, PlacesApart
<1>9. PlacesFinite'
  <2>1. /\ IsFiniteSet(InPrompt) /\ IsFiniteSet(dropped)
        /\ IsFiniteSet(reported) /\ IsFiniteSet(lost)
    BY DEF EventsCore, PlacesFinite
  <2>2. IsFiniteSet(reported \cup InPrompt) /\ IsFiniteSet(lost \cup InPrompt)
    BY <2>1, FS_Union
  <2>3. IsFiniteSet(InPrompt')
    BY <1>6, FS_EmptySet
  <2>4. QED
    BY <1>4, <2>1, <2>2, <2>3 DEF PlacesFinite
<1>10. QED
  BY <1>5, <1>7, <1>8, <1>9 DEF EventsCore

LEMMA WorkerPlaces ==
  ASSUME HeartbeatInv, EventsCore, NEW h \in Handles, WorkerStep(h)
  PROVE  EventsCore'
<1>1. CASE Snapshot(h)
  BY <1>1, SnapshotPlaces
<1>2. CASE Chat(h)
  BY <1>2, ChatPlaces
<1>3. CASE Health(h)
  <2>1. Goto(h, "ping") /\ ~InCall(h) /\ UNCHANGED <<reported, lost>>
    BY <1>3 DEF Health, At, InCall
  <2>2. /\ InPrompt' = InPrompt
        /\ \A g \in Handles : thread'[g].prompt # {} => InCall(g)'
    BY <2>1, GotoKeepsPrompts
  <2>3. CASE UNCHANGED <<events, dropped>>
    BY <2>1, <2>2, <2>3, PlacesKept
  <2>4. CASE \E e \in Events \ Posted : Buffer(e)
    BY <2>1, <2>2, <2>4, BufferPlaces
  <2>5. QED
    BY <1>3, <2>3, <2>4 DEF Health
<1>4. CASE SnapshotFails(h) \/ Ping(h) \/ Deliver(h) \/ Out(h) \/ Exit(h)
  <2>1. PICK pc : Goto(h, pc) /\ ~InCall(h)
    BY <1>4 DEF SnapshotFails, Ping, Deliver, Out, Exit, At, InCall
  <2>2. UNCHANGED <<events, dropped, reported, lost>>
    BY <1>4 DEF SnapshotFails, Ping, Deliver, Out, Exit, history
  <2>3. QED
    BY <2>1, <2>2, GotoKeepsPrompts, PlacesKept
<1>5. CASE Strand(h)
  <2>1. Goto(h, "stranded") /\ UNCHANGED <<events, dropped, reported, lost>>
    BY <1>5 DEF Strand, history
  <2>2. QED
    BY <2>1, StrandedPrompts, PlacesKept DEF WorkerPcs
<1>6. QED
  BY <1>1, <1>2, <1>3, <1>4, <1>5 DEF WorkerStep

LEMMA TickPlaces ==
  ASSUME HeartbeatInv, EventsCore, TickStep
  PROVE  EventsCore'
<1>1. UNCHANGED <<events, dropped, reported, lost>>
  BY DEF TickStep, TickEnter, TickReclaim, TickJoin, TickForget, TickClaim,
         TickCreate, TickStore, TickCreateFails, history
<1>2. CASE TickJoin
  <2>1. Join(tick.handle) /\ tick.handle \in Handles \cup {None}
    BY <1>2, TypeFacts DEF TickJoin, HeartbeatInv
  <2>2. QED
    BY <1>1, <2>1, JoinKeepsPrompts, PlacesKept
<1>3. CASE TickCreate
  <2>1. PICK h \in Handles : At(h, "free") /\ Goto(h, FirstPc(tick.pc))
    BY <1>3 DEF TickCreate
  <2>2. ~InCall(h)
    BY <2>1 DEF At, InCall
  <2>3. QED
    BY <1>1, <2>1, <2>2, GotoKeepsPrompts, PlacesKept
<1>4. CASE TickEnter \/ TickReclaim \/ TickForget \/ TickClaim \/ TickStore
           \/ TickCreateFails
  <2>1. thread' = thread
    BY <1>4 DEF TickEnter, TickReclaim, TickForget, TickClaim, TickStore, TickCreateFails
  <2>2. QED
    BY <1>1, <2>1, PromptsKept, PlacesKept DEF At, InCall
<1>5. QED
  BY <1>2, <1>3, <1>4 DEF TickStep

LEMMA StepPlaces == HeartbeatInv /\ EventsCore /\ [Next]_vars => EventsCore'
<1> SUFFICES ASSUME HeartbeatInv, EventsCore, [Next]_vars PROVE EventsCore'
  OBVIOUS
<1>1. CASE HeartbeatInit
  <2>1. events' = <<>> /\ UNCHANGED <<thread, dropped, reported, lost>>
    BY <1>1 DEF HeartbeatInit, history
  <2>2. /\ InPrompt' = InPrompt
        /\ \A h \in Handles : thread'[h].prompt # {} => InCall(h)'
    BY <2>1, PromptsKept DEF At, InCall
  <2>3. Buffered' = {} /\ IsInjective(events')
    BY <2>1 DEF Buffered, ToSet, IsInjective
  <2>4. PlacesApart' /\ PlacesFinite'
    BY <2>1, <2>2, <2>3 DEF EventsCore, PlacesApart, PlacesFinite
  <2>5. QED
    BY <2>2, <2>3, <2>4 DEF EventsCore, At, InCall
<1>2. ASSUME NEW e \in Events, Post(e) PROVE EventsCore'
  <2>1. e \notin Posted /\ Buffer(e) /\ UNCHANGED <<thread, reported, lost>>
    BY <1>2 DEF Post
  <2>2. /\ InPrompt' = InPrompt
        /\ \A h \in Handles : thread'[h].prompt # {} => InCall(h)'
    BY <2>1, PromptsKept DEF At, InCall
  <2>3. QED
    BY <2>1, <2>2, BufferPlaces
<1>3. CASE TickStep
  BY <1>3, TickPlaces
<1>4. CASE \E h \in Handles : WorkerStep(h)
  BY <1>4, WorkerPlaces
<1>5. CASE StopJoin
  <2>1. Join(stop.handle) /\ stop.handle \in Handles \cup {None}
    BY <1>5 DEF StopJoin, HeartbeatInv, TypeOK
  <2>2. UNCHANGED <<events, dropped, reported, lost>>
    BY <1>5 DEF StopJoin, history
  <2>3. QED
    BY <2>1, <2>2, JoinKeepsPrompts, PlacesKept
<1>6. CASE TickCalled \/ StopRemove \/ StopWaitEnds \/ UNCHANGED vars
  <2>1. UNCHANGED <<events, thread, dropped, reported, lost>>
    BY <1>6 DEF TickCalled, StopRemove, StopWaitEnds, vars, history
  <2>2. QED
    BY <2>1, PromptsKept, PlacesKept DEF At, InCall
<1>7. CASE EngineStops
  <2>1. UNCHANGED <<events, dropped, reported, lost>>
    BY <1>7 DEF EngineStops, history
  <2>2. CASE UNCHANGED thread
    BY <2>1, <2>2, PromptsKept, PlacesKept DEF At, InCall
  <2>3. ASSUME NEW h \in Handles, Goto(h, "stranded") PROVE EventsCore'
    BY <2>1, <2>3, StrandedPrompts, PlacesKept
  <2>4. QED
    BY <1>7, <2>2, <2>3 DEF EngineStops
<1>8. QED
  BY <1>1, <1>2, <1>3, <1>4, <1>5, <1>6, <1>7 DEF Next, StopStep

LEMMA InitPlaces == Init => EventsCore
<1> SUFFICES ASSUME Init PROVE EventsCore
  OBVIOUS
<1>1. \A h \in Handles : thread[h].prompt = {}
  BY DEF Init
<1>2. \A x : x \notin InPrompt
  BY <1>1, InPromptIs
<1>3. InPrompt = {}
  BY <1>2
<1>4. Buffered = {} /\ IsInjective(events)
  BY DEF Init, Buffered, ToSet, IsInjective
<1>5. PlacesApart /\ PlacesFinite
  BY <1>3, <1>4, FS_EmptySet DEF Init, PlacesApart, PlacesFinite
<1>6. QED
  BY <1>1, <1>4, <1>5 DEF EventsCore

(* Places that are apart are counted one by one. *)
LEMMA PlacesCounted == HeartbeatInv /\ EventsCore => EventsInv
<1> SUFFICES ASSUME HeartbeatInv, EventsCore PROVE EventsInv
  OBVIOUS
<1>1. IsFiniteSet(Buffered) /\ Cardinality(Buffered) = Len(events) /\ Len(events) \in Nat
  BY InjectiveCardinality, LenProperties DEF HeartbeatInv, TypeOK, EventsCore, Buffered
<1>2. ASSUME NEW A, NEW B, IsFiniteSet(A), IsFiniteSet(B), A \cap B = {}
      PROVE  /\ IsFiniteSet(A \cup B)
             /\ Cardinality(A \cup B) = Cardinality(A) + Cardinality(B)
             /\ Cardinality(A) \in Nat /\ Cardinality(B) \in Nat
  <2>1. IsFiniteSet(A) /\ IsFiniteSet(B) /\ A \cap B = {}
    BY <1>2
  <2>2. Cardinality(A) \in Nat /\ Cardinality(B) \in Nat
    BY <2>1, FS_CardinalityType
  <2>3. Cardinality(A \cap B) = 0
    BY <2>1, FS_EmptySet
  <2>4. /\ IsFiniteSet(A \cup B)
        /\ Cardinality(A \cup B) = Cardinality(A) + Cardinality(B) - Cardinality(A \cap B)
    BY <2>1, FS_Union
  <2>5. QED
    BY <2>2, <2>3, <2>4
<1> DEFINE RL == reported \cup lost
           DRL == dropped \cup RL
           IDRL == InPrompt \cup DRL
<1>3. IsFiniteSet(RL) /\ Cardinality(RL) = Cardinality(reported) + Cardinality(lost)
      /\ Cardinality(reported) \in Nat /\ Cardinality(lost) \in Nat
  BY <1>2 DEF EventsCore, PlacesApart, PlacesFinite
<1>4. IsFiniteSet(DRL) /\ Cardinality(DRL) = Cardinality(dropped) + Cardinality(RL)
      /\ Cardinality(dropped) \in Nat
  <2>1. dropped \cap RL = {} /\ IsFiniteSet(dropped)
    BY DEF EventsCore, PlacesApart, PlacesFinite
  <2> HIDE DEF RL
  <2>2. QED
    BY <1>2, <1>3, <2>1
<1>5. IsFiniteSet(IDRL) /\ Cardinality(IDRL) = Cardinality(InPrompt) + Cardinality(DRL)
      /\ Cardinality(InPrompt) \in Nat
  <2>1. InPrompt \cap DRL = {} /\ IsFiniteSet(InPrompt)
    BY DEF EventsCore, PlacesApart, PlacesFinite
  <2> HIDE DEF DRL
  <2>2. QED
    BY <1>2, <1>4, <2>1
<1>6. Cardinality(Buffered \cup IDRL) = Cardinality(Buffered) + Cardinality(IDRL)
  <2>1. Buffered \cap IDRL = {}
    BY DEF EventsCore, PlacesApart
  <2> HIDE DEF IDRL
  <2>2. QED
    BY <1>1, <1>2, <1>5, <2>1
<1>7. Posted = Buffered \cup IDRL
  BY DEF Posted
<1> HIDE DEF RL, DRL, IDRL
<1>8. Cardinality(Posted) = Len(events) + Cardinality(InPrompt) + Cardinality(dropped)
        + Cardinality(reported) + Cardinality(lost)
  BY <1>1, <1>3, <1>4, <1>5, <1>6, <1>7
<1>9. QED
  BY <1>8 DEF EventsInv, EventsAccounted, EventsCore

(* Every posted event is in exactly one place, through full buffers, cut   *)
(* prompts and failed AI calls: the buffer is emptied under the lock by    *)
(* the one worker there is.                                                *)
THEOREM HeartbeatEventsAccounted == Spec => []EventsInv
<1>1. Init => HeartbeatInv /\ EventsCore
  BY InitInv, InitPlaces
<1>2. HeartbeatInv /\ EventsCore /\ [Next]_vars => HeartbeatInv' /\ EventsCore'
  BY StepInv, StepPlaces
<1>3. HeartbeatInv /\ EventsCore => EventsInv
  BY PlacesCounted
<1>4. QED
  BY <1>1, <1>2, <1>3, PTL DEF Spec

=============================================================================
