----------------------------- MODULE CacheAgent -----------------------------
(***************************************************************************)
(* mindiesd/cache_agent: CacheAgent.apply, called in place of every block  *)
(* (dit_block_cache) or attention (attention_cache) of a transformer,      *)
(* keeps count of steps and blocks by itself and decides from the count    *)
(* whether to compute or to reuse.                                         *)
(*                                                                         *)
(* The caller runs request after request, a request step after step, a     *)
(* step block after block.  The agent is told none of this.  A request may *)
(* run another number of steps than the configured one (the warm-up of     *)
(* examples/service/worker.py does), and the function may raise, which     *)
(* ends the request and leaves the agent's count where it was.             *)
(*                                                                         *)
(* A tensor is known by the call it belongs to.  _time_cache is left out:  *)
(* it memoises a function of its key.                                      *)
(***************************************************************************)
EXTENDS Integers

CONSTANTS
  MaxSteps,     \* bound on steps_count, step_end and the steps of a request
  MaxBlocks,    \* bound on blocks_count and block_end
  MaxInterval,  \* bound on step_interval
  MaxRequests   \* bound on the requests of a run

ASSUME CacheAssumption ==
  /\ MaxSteps \in Nat \ {0} /\ MaxBlocks \in Nat \ {0}
  /\ MaxInterval \in Nat \ {0} /\ MaxRequests \in Nat \ {0}

(* The configurations _check_config accepts. *)
Configs ==
  {c \in [method : {"attention_cache", "dit_block_cache"},
          blocks_count : 1 .. MaxBlocks, steps_count : 1 .. MaxSteps,
          step_start : 0 .. MaxSteps, step_end : 0 .. MaxSteps,
          step_interval : 1 .. MaxInterval,
          block_start : 0 .. MaxBlocks, block_end : 0 .. MaxBlocks] :
     /\ c.step_start <= c.step_end
     /\ c.block_start <= c.block_end
     /\ c.method = "dit_block_cache" => c.block_end <= c.blocks_count}

VARIABLES
  config,       \* the CacheConfig, never changed
  model,        \* the cached function: its outputs, and whether it takes encoder_hidden_states
  cur_step, cur_block, cache, output_count,  \* the agent
  request, length, step, block,              \* the caller: where it is, steps of the request
  whole         \* all requests so far run steps_count steps and none was cut short (history)

agent == <<cur_step, cur_block, cache, output_count>>
caller == <<request, length, step, block>>
vars == <<config, model, agent, caller, whole>>

Attention == config.method = "attention_cache"

(* The call that is made, and the tensors it may leave in the cache: its result,
   the hidden states it was given, or the difference between its result and
   the hidden states given to an earlier call. *)
Calls == [request : Nat, step : Nat, block : Nat]
NoCall == [request |-> 0, step |-> 0, block |-> 0]
Call == [request |-> request, step |-> step, block |-> block]

Tensors == [to : Calls, from : Calls]
None == [to |-> NoCall, from |-> NoCall]
Result(c) == [to |-> c, from |-> NoCall]
Input(c) == [to |-> NoCall, from |-> c]
Minus(c, t) == [to |-> c, from |-> t.from]

(* One place for every block, or one for hidden_states (0) and one for
   encoder_hidden_states (1). *)
Places == IF Attention THEN 0 .. config.blocks_count - 1 ELSE 0 .. 1
Released == [p \in Places |-> None]

Init ==
  /\ config \in Configs
  /\ model \in [outputs : 1 .. 3, encoder : BOOLEAN]
  /\ cur_step = 0 /\ cur_block = 0 /\ cache = Released /\ output_count = 1
  /\ request = 1 /\ length \in 1 .. MaxSteps /\ step = 0 /\ block = 0
  /\ whole = (length = config.steps_count)

-----------------------------------------------------------------------------
(***************************************************************************)
(* The caller.                                                             *)
(***************************************************************************)

NextRequest(completed) ==
  /\ request' = request + 1
  /\ length' \in 1 .. MaxSteps
  /\ step' = 0
  /\ block' = 0
  /\ whole' = (whole /\ completed /\ length' = config.steps_count)

(* The call has returned. *)
Proceed ==
  \/ /\ block + 1 < config.blocks_count
     /\ block' = block + 1
     /\ UNCHANGED <<request, length, step, whole>>
  \/ /\ block + 1 = config.blocks_count
     /\ step + 1 < length
     /\ block' = 0
     /\ step' = step + 1
     /\ UNCHANGED <<request, length, whole>>
  \/ /\ block + 1 = config.blocks_count
     /\ step + 1 = length
     /\ NextRequest(TRUE)

(* The call has raised. *)
Abandon == NextRequest(FALSE)

Calling == request <= MaxRequests

-----------------------------------------------------------------------------
(***************************************************************************)
(* The agent.                                                              *)
(***************************************************************************)

(* apply hands the call to the function without counting it. *)
Bypassed ==
  \/ config.step_start >= config.steps_count
  \/ config.step_end = config.step_start
  \/ config.block_start >= config.blocks_count
  \/ config.block_end = config.block_start
  \/ config.step_interval = 1

(* _counter, after the call has left `updated' in the cache. *)
LastBlock == cur_block + 1 = config.blocks_count

CountsOneMore == cur_step = config.steps_count
LastStep == cur_step + 1 = config.steps_count

NotReleased(updated) == updated
Counted(updated) == IF LastBlock /\ LastStep THEN Released ELSE updated

Count ==
  /\ cur_block' = IF LastBlock THEN 0 ELSE cur_block + 1
  /\ cur_step' = IF ~LastBlock THEN cur_step
                 ELSE IF LastStep THEN 0 ELSE cur_step + 1

(* The step is a whole number of intervals after the first. *)
OnIntervalFromZero == cur_step % config.step_interval = 0
OnInterval == (cur_step - config.step_start) % config.step_interval = 0

(* AttentionCache: reuse up to and including step_end, store before it. *)
ReusesAttention ==
  config.step_start < cur_step /\ cur_step <= config.step_end /\ ~OnInterval

StoresLate == config.step_start < cur_step /\ cur_step < config.step_end
StoresAttention == config.step_start <= cur_step /\ cur_step < config.step_end

(* DiTBlockCache._use_cache. *)
ReusesBlocks ==
  /\ config.step_start <= cur_step /\ ~OnInterval
  /\ config.block_start <= cur_block /\ cur_block < config.block_end

Reuses == ~Bypassed /\ IF Attention THEN ReusesAttention ELSE ReusesBlocks

ReuseAttention ==
  /\ Calling /\ Attention /\ Reuses
  /\ Count
  /\ cache' = Counted(cache)
  /\ Proceed
  /\ UNCHANGED <<config, model, output_count>>

ComputeAttention ==
  /\ Calling /\ Attention /\ ~Bypassed /\ ~Reuses
  /\ Count
  /\ cache' = Counted(IF StoresAttention
                      THEN [cache EXCEPT ![cur_block] = Result(Call)] ELSE cache)
  /\ Proceed
  /\ UNCHANGED <<config, model, output_count>>

(* _get_cache: the first block of the range adds what is cached, the others add
   nothing.  Two outputs need the second input. *)
SecondMissing == output_count = 2 /\ ~model.encoder

ReuseBlocks ==
  /\ Calling /\ ~Attention /\ Reuses
  /\ ~SecondMissing
  /\ Count
  /\ cache' = Counted(cache)
  /\ Proceed
  /\ UNCHANGED <<config, model, output_count>>

ReuseRaises ==
  /\ Calling /\ ~Attention /\ Reuses
  /\ SecondMissing
  /\ Abandon
  /\ UNCHANGED <<config, model, agent>>

(* _update_cache, on the steps that refresh. *)
Refreshes == config.step_start <= cur_step /\ OnInterval
AtLateStart == cur_block = config.block_start + 1
AtStart == cur_block = config.block_start
AtEnd == ~AtStart /\ cur_block = config.block_end - 1

UpdateRaises ==
  Refreshes /\ (model.outputs > 2 \/ (AtEnd /\ model.outputs = 2 /\ ~model.encoder))

Updated ==
  IF Refreshes /\ AtStart
  THEN [p \in Places |-> IF p = 0 \/ model.encoder THEN Input(Call) ELSE None]
  ELSE IF Refreshes /\ AtEnd
  THEN [p \in Places |-> IF p < model.outputs THEN Minus(Call, cache[p]) ELSE cache[p]]
  ELSE cache

ComputeBlock ==
  /\ Calling /\ ~Attention /\ ~Bypassed /\ ~Reuses
  /\ ~UpdateRaises
  /\ output_count' = IF Refreshes THEN model.outputs ELSE output_count
  /\ Count
  /\ cache' = Counted(Updated)
  /\ Proceed
  /\ UNCHANGED <<config, model>>

(* The update raises after the number of outputs is noted. *)
UpdateFails ==
  /\ Calling /\ ~Attention /\ ~Bypassed /\ ~Reuses
  /\ UpdateRaises
  /\ output_count' = model.outputs
  /\ Abandon
  /\ UNCHANGED <<config, model, cur_step, cur_block, cache>>

CallDirectly ==
  /\ Calling /\ Bypassed
  /\ Proceed
  /\ UNCHANGED <<config, model, agent>>

(* The function raises: apply does not come to count the call. *)
FunctionRaises ==
  /\ Calling /\ ~Reuses
  /\ Abandon
  /\ UNCHANGED <<config, model, agent>>

Next ==
  \/ ReuseAttention \/ ComputeAttention
  \/ ReuseBlocks \/ ReuseRaises \/ ComputeBlock \/ UpdateFails
  \/ CallDirectly \/ FunctionRaises

Spec == Init /\ [][Next]_vars

-----------------------------------------------------------------------------
(***************************************************************************)
(* Properties.                                                             *)
(***************************************************************************)

TypeOK ==
  /\ config \in Configs
  /\ model \in [outputs : 1 .. 3, encoder : BOOLEAN]
  /\ cur_step \in 0 .. config.steps_count - 1
  /\ cur_block \in 0 .. config.blocks_count - 1
  /\ cache \in [Places -> Tensors]
  /\ output_count \in 1 .. 3
  /\ request \in Nat /\ length \in Nat /\ step \in Nat
  /\ block \in 0 .. config.blocks_count - 1
  /\ whole \in BOOLEAN

(* What the agent hands out at the start of a range, or for an attention. *)
Wanted == IF Attention THEN cur_block ELSE 0
Handed == Reuses /\ (Attention \/ AtStart)

(* Whatever the caller does, requests cut short and requests of any length
   included, the agent never hands out a cache it has not filled. *)
NeverReusesNothing == Handed => cache[Wanted] # None

(* Whatever the caller does, the end of a range subtracts the input of a range:
   neither the difference of an earlier refresh nor nothing. *)
SubtractsAnInput ==
  ~Attention /\ ~Bypassed /\ ~Reuses /\ Refreshes /\ AtEnd
    => cache[0].to = NoCall /\ cache[0].from # NoCall

(* The latest step due for a refresh when step s is reached. *)
Due(s) == s - ((s - config.step_start) % config.step_interval)

(* The call for block b on step s of this request. *)
ComputedAt(s, b) == [request |-> request, step |-> s, block |-> b]

(* What a range is worth on step s. *)
RangeAt(s) ==
  Minus(ComputedAt(s, config.block_end - 1), Input(ComputedAt(s, config.block_start)))

(* As long as requests run whole, a reuse gives what this request computed for this
   very block, or range, at the latest step due for a refresh: nothing of
   another request, nothing that should have been refreshed. *)
ReusesLatestRefresh ==
  whole /\ Calling /\ Handed =>
    IF Attention THEN cache[block] = Result(ComputedAt(Due(step), block))
    ELSE config.block_end > config.block_start + 1 =>
           \A p \in 0 .. output_count - 1 : cache[p] = RangeAt(Due(step))

(* As long as requests run whole, the agent holds no tensor between two of them
   (cache.py:56: the memory is cleared when steps_count is reached). *)
NothingHeldBetween == whole /\ step = 0 /\ block = 0 => cache = Released

(* The cached result of a range is what is reused (cache.md:19), also when
   the range is one block. *)
RangeResultReused == ~Attention /\ Handed => cache[0].to # NoCall

(* step_end is the last step that uses the cache (cache.md:43). *)
StopsAtStepEnd == Handed => cur_step <= config.step_end
=============================================================================
