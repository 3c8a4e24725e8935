-------------------------- MODULE CacheAgentProofs --------------------------
(***************************************************************************)
(* Proofs about CacheAgent, for any configuration _check_config accepts,   *)
(* any cached function and any caller.                                     *)
(*                                                                         *)
(* The agent counts calls and nothing else, so what it may rely on is what *)
(* its own count has been through: IInv says which places of the cache are *)
(* filled, and with what, at each value of the count.                      *)
(***************************************************************************)
EXTENDS CacheAgent, TLAPS

(* A tensor some call has given. *)
Computed(t) == t.to.request > 0
TakenIn(t) == t.from.request > 0

(* The count is past the first refresh of block b of an attention cache, or past
   the first block of the range on the first step of a block cache. *)
PastStart(b) ==
  cur_step > config.step_start \/ (cur_step = config.step_start /\ cur_block > b)

FilledInv ==
  ~Bypassed =>
    IF Attention THEN \A b \in Places : PastStart(b) => Computed(cache[b])
    ELSE PastStart(config.block_start) => TakenIn(cache[0])

(* Between the two ends of the range, on a step that refreshes, the cache holds the
   hidden states given to the first block. *)
RangeInv ==
  ~Attention /\ ~Bypassed /\ Refreshes
    /\ config.block_start < cur_block /\ cur_block < config.block_end
    => cache[0].to = NoCall /\ TakenIn(cache[0])

(* While requests run whole, the count of the agent is where the caller is. *)
CountInv ==
  /\ whole => length = config.steps_count
  /\ whole /\ ~Bypassed => cur_step = step /\ cur_block = block
  /\ Bypassed => cache = Released

IInv == TypeOK /\ request > 0 /\ FilledInv /\ RangeInv /\ CountInv /\ NothingHeldBetween

-----------------------------------------------------------------------------
(* What the checks of the configuration leave. *)
Fields ==
  /\ config.blocks_count \in Nat \ {0} /\ config.steps_count \in Nat \ {0}
  /\ config.step_start \in Nat /\ config.step_end \in Nat
  /\ config.step_interval \in Nat \ {0}
  /\ config.block_start \in Nat /\ config.block_end \in Nat
  /\ config.step_start <= config.step_end
  /\ config.block_start <= config.block_end
  /\ ~Attention => config.block_end <= config.blocks_count

LEMMA ConfigTyped == ASSUME config \in Configs PROVE Fields
  BY CacheAssumption DEF Configs, Fields, Attention

(* The numbers of a state. *)
Numbers ==
  /\ Fields
  /\ cur_step \in Nat /\ cur_step < config.steps_count
  /\ cur_block \in Nat /\ cur_block < config.blocks_count
  /\ request \in Nat /\ length \in Nat /\ step \in Nat
  /\ block \in Nat /\ block < config.blocks_count
  /\ model.outputs \in 1 .. 3

LEMMA NumbersTyped == ASSUME TypeOK PROVE Numbers
  <1>1. Fields
    BY ConfigTyped DEF TypeOK
  <1>2. model.outputs \in 1 .. 3
    BY DEF TypeOK
  <1>3. config.blocks_count - 1 \in Int /\ config.steps_count - 1 \in Int
    BY <1>1 DEF Fields
  <1>. QED  BY <1>1, <1>2, <1>3 DEF TypeOK, Numbers, Fields

(* The tensors a call leaves. *)
LEMMA TensorsTyped ==
  ASSUME TypeOK
  PROVE  /\ Call \in Calls /\ Call.request = request
         /\ Result(Call) \in Tensors /\ Result(Call).to = Call
         /\ Input(Call) \in Tensors /\ Input(Call).to = NoCall /\ Input(Call).from = Call
         /\ \A t \in Tensors :
              Minus(Call, t) \in Tensors /\ Minus(Call, t).from = t.from
         /\ None \in Tensors /\ NoCall.request = 0
  <1>1. Call \in Calls /\ NoCall \in Calls
    BY NumbersTyped DEF Numbers, Call, NoCall, Calls
  <1>. QED
    BY <1>1 DEF Tensors, Result, Input, Minus, None, Call, NoCall

(* The places of the cache. *)
LEMMA PlacesTyped ==
  ASSUME TypeOK
  PROVE  /\ Attention => cur_block \in Places
         /\ ~Attention => 0 \in Places
         /\ \A p \in Places : p \in Nat
         /\ Released \in [Places -> Tensors]
  <1>1. Released \in [Places -> Tensors]
    BY TensorsTyped DEF Released
  <1>2. config.blocks_count - 1 \in Int /\ cur_block \in 0 .. config.blocks_count - 1
    BY NumbersTyped DEF Numbers, Fields
  <1>3. CASE Attention
    <2>1. Places = 0 .. config.blocks_count - 1
      BY <1>3 DEF Places
    <2>. QED  BY <1>1, <1>2, <1>3, <2>1
  <1>4. CASE ~Attention
    BY <1>1, <1>4 DEF Places
  <1>. QED  BY <1>3, <1>4

-----------------------------------------------------------------------------
(***************************************************************************)
(* The parts of a step.                                                    *)
(***************************************************************************)

(* What an action leaves of the configuration, the model and their conditions. *)
LEMMA SameConfig ==
  ASSUME UNCHANGED config
  PROVE  /\ Bypassed' = Bypassed /\ Attention' = Attention
         /\ Places' = Places /\ Released' = Released
  BY DEF Bypassed, Attention, Places, Released

(* The caller stays within its types and keeps the request number positive. *)
CallerTyped ==
  /\ request \in Nat /\ length \in Nat /\ step \in Nat
  /\ block \in 0 .. config.blocks_count - 1
  /\ whole \in BOOLEAN

(* The first call of another request. *)
RequestBegins(completed) ==
  /\ request' = request + 1 /\ length' \in Nat /\ step' = 0 /\ block' = 0
  /\ whole' \in BOOLEAN
  /\ whole' => whole /\ completed /\ length' = config.steps_count

LEMMA RequestMoves ==
  ASSUME NEW completed \in BOOLEAN, NextRequest(completed)
  PROVE  RequestBegins(completed)
  <1>1. length' \in Nat
    BY CacheAssumption, SMT DEF NextRequest
  <1>2. whole' \in BOOLEAN /\ (whole' => whole /\ completed /\ length' = config.steps_count)
    BY Zenon DEF NextRequest
  <1>. QED  BY <1>1, <1>2, Zenon DEF NextRequest, RequestBegins

(* The three ways to go on after a call. *)
NextBlock ==
  /\ block + 1 < config.blocks_count
  /\ block' = block + 1
  /\ UNCHANGED <<request, length, step, whole>>

NextStep ==
  /\ block + 1 = config.blocks_count
  /\ step + 1 < length
  /\ block' = 0
  /\ step' = step + 1
  /\ UNCHANGED <<request, length, whole>>

RequestEnds ==
  block + 1 = config.blocks_count /\ step + 1 = length /\ RequestBegins(TRUE)

LEMMA ProceedCases ==
  ASSUME Proceed
  PROVE  NextBlock \/ NextStep \/ RequestEnds
  BY RequestMoves, Zenon DEF Proceed, NextBlock, NextStep, RequestEnds

LEMMA ProceedTyped ==
  ASSUME TypeOK, request > 0, UNCHANGED config, Proceed
  PROVE  CallerTyped' /\ request' > 0
  <1>1. Numbers /\ whole \in BOOLEAN
    BY NumbersTyped DEF TypeOK
  <1>2. CASE NextBlock
    BY <1>1, <1>2 DEF NextBlock, CallerTyped, Numbers, Fields
  <1>3. CASE NextStep
    BY <1>1, <1>3 DEF NextStep, CallerTyped, Numbers, Fields
  <1>4. CASE RequestEnds
    BY <1>1, <1>4 DEF RequestEnds, RequestBegins, CallerTyped, Numbers, Fields
  <1>. QED  BY <1>2, <1>3, <1>4, ProceedCases

LEMMA AbandonTyped ==
  ASSUME TypeOK, request > 0, UNCHANGED config, Abandon
  PROVE  CallerTyped' /\ request' > 0 /\ ~whole'
  <1>1. Numbers
    BY NumbersTyped
  <1>2. RequestBegins(FALSE)
    BY RequestMoves DEF Abandon
  <1>. QED  BY <1>1, <1>2 DEF RequestBegins, CallerTyped, Numbers, Fields

(* The first step of the range is one that refreshes. *)
LEMMA ZeroOnInterval ==
  ASSUME Numbers, config.step_start <= cur_step
  PROVE  /\ cur_step = config.step_start => OnInterval
         /\ ~OnInterval => config.step_start < cur_step
  <1>1. 0 % config.step_interval = 0
    BY DEF Numbers, Fields
  <1>. QED  BY <1>1 DEF Numbers, Fields, OnInterval

(* The count: within its bounds, back to the start with nothing in the cache, to the
   next step, or to the next block. *)
Counts(updated) ==
  /\ cur_step' \in 0 .. config.steps_count - 1
  /\ cur_block' \in 0 .. config.blocks_count - 1
  /\ \/ cur_step' = 0 /\ cur_block' = 0 /\ Counted(updated) = Released
     \/ cur_step' = cur_step + 1 /\ cur_block' = 0 /\ Counted(updated) = updated
        /\ cur_block + 1 = config.blocks_count
     \/ cur_step' = cur_step /\ cur_block' = cur_block + 1 /\ Counted(updated) = updated

LEMMA CountsOnce ==
  ASSUME TypeOK, Count, NEW updated
  PROVE  Counts(updated)
  BY NumbersTyped DEF Numbers, Fields, Count, Counts, Counted, LastBlock, LastStep

(* While requests run whole, the caller moves as the agent counts. *)
LEMMA InStep ==
  ASSUME TypeOK, CountInv, ~Bypassed, UNCHANGED config, Count, Proceed, NEW updated,
         cache' = Counted(updated)
  PROVE  CountInv' /\ NothingHeldBetween'
  <1>1. Numbers /\ whole \in BOOLEAN
    BY NumbersTyped DEF TypeOK
  <1>2. ~Bypassed' /\ Released' = Released
    BY SameConfig
  <1>3. ASSUME whole'
        PROVE  /\ length' = config.steps_count
               /\ cur_step' = step' /\ cur_block' = block'
               /\ step' = 0 /\ block' = 0 => Counted(updated) = Released
    <2>1. whole
      BY <1>3, ProceedCases DEF NextBlock, NextStep, RequestEnds, RequestBegins
    <2>2. length = config.steps_count /\ cur_step = step /\ cur_block = block
      BY <2>1 DEF CountInv
    <2>3. CASE NextBlock
      BY <1>1, <2>2, <2>3 DEF Numbers, Fields, NextBlock, Count, LastBlock
    <2>4. CASE NextStep
      BY <1>1, <2>2, <2>4 DEF Numbers, Fields, NextStep, Count, LastBlock, LastStep
    <2>5. CASE RequestEnds
      BY <1>1, <1>3, <2>2, <2>5
         DEF Numbers, Fields, RequestEnds, RequestBegins, Count, Counted, LastBlock, LastStep
    <2>. QED  BY <2>3, <2>4, <2>5, ProceedCases
  <1>. QED  BY <1>2, <1>3 DEF CountInv, NothingHeldBetween

(* What a call has to leave in the cache for the next call to find it filled. *)
AtOrPastStart(b) ==
  cur_step > config.step_start \/ (cur_step = config.step_start /\ cur_block >= b)

FilledBy(updated) ==
  IF Attention THEN \A b \in Places : AtOrPastStart(b) => Computed(updated[b])
  ELSE AtOrPastStart(config.block_start) => TakenIn(updated[0])

RangeBy(updated) ==
  ~Attention /\ Refreshes
    /\ config.block_start <= cur_block /\ cur_block + 1 < config.block_end
    => updated[0].to = NoCall /\ TakenIn(updated[0])

LEMMA CountedStep ==
  ASSUME IInv, ~Bypassed, UNCHANGED <<config, model>>, Count, Proceed,
         NEW updated \in [Places -> Tensors], cache' = Counted(updated),
         output_count' \in 1 .. 3, FilledBy(updated), RangeBy(updated)
  PROVE  IInv'
  <1>1. TypeOK /\ request > 0 /\ CountInv
    BY DEF IInv
  <1>2. Numbers /\ Counts(updated)
    BY <1>1, NumbersTyped, CountsOnce
  <1>3. /\ ~Bypassed' /\ Attention' = Attention
        /\ Places' = Places /\ Released' = Released
    BY SameConfig
  <1>4. CountInv' /\ NothingHeldBetween'
    BY <1>1, InStep
  <1>5. CallerTyped' /\ request' > 0
    BY <1>1, ProceedTyped
  <1>6. cache' \in [Places -> Tensors]
    BY <1>1, <1>2, PlacesTyped DEF Counts
  <1>7. TypeOK'
    BY <1>1, <1>2, <1>3, <1>5, <1>6 DEF TypeOK, CallerTyped, Counts
  <1>8. FilledInv'
    <2>1. \A b \in Nat : PastStart(b)' /\ b < config.blocks_count
                           => AtOrPastStart(b) /\ cache' = updated
      BY <1>2 DEF Numbers, Fields, Counts, PastStart, AtOrPastStart
    <2>2. CASE Attention
      <3>1. \A b \in Places : b \in Nat /\ b < config.blocks_count
        BY <1>2, <2>2 DEF Places, Numbers, Fields
      <3>. QED  BY <1>3, <2>1, <2>2, <3>1 DEF FilledInv, FilledBy, Computed
    <2>3. CASE ~Attention
      <3>1. config.block_start \in Nat /\ config.block_start < config.blocks_count
        BY <1>2 DEF Numbers, Fields, Bypassed
      <3>. QED  BY <1>3, <2>1, <2>3, <3>1 DEF FilledInv, FilledBy, TakenIn
    <2>. QED  BY <2>2, <2>3
  <1>9. RangeInv'
    <2>. SUFFICES ASSUME ~Attention, Refreshes', config.block_start < cur_block',
                         cur_block' < config.block_end
                  PROVE  cache'[0].to = NoCall /\ TakenIn(cache'[0])
      BY <1>3 DEF RangeInv, TakenIn
    <2>1. cur_step' = cur_step /\ cur_block' = cur_block + 1 /\ cache' = updated
      BY <1>2 DEF Numbers, Fields, Counts
    <2>2. Refreshes
      BY <2>1 DEF Refreshes, OnInterval
    <2>3. config.block_start <= cur_block /\ cur_block + 1 < config.block_end
      BY <1>2, <2>1 DEF Numbers, Fields
    <2>. QED  BY <2>1, <2>2, <2>3 DEF RangeBy
  <1>. QED  BY <1>4, <1>5, <1>7, <1>8, <1>9 DEF IInv

(* A call that raises moves the caller and leaves the agent as it was. *)
LEMMA AbandonStep ==
  ASSUME IInv, Abandon,
         UNCHANGED <<config, model, cur_step, cur_block, cache>>, output_count' \in 1 .. 3
  PROVE  IInv'
  <1>1. TypeOK /\ request > 0
    BY DEF IInv
  <1>2. CallerTyped' /\ request' > 0 /\ ~whole'
    BY <1>1, AbandonTyped
  <1>3. /\ Bypassed' = Bypassed /\ Attention' = Attention
        /\ Places' = Places /\ Released' = Released
    BY SameConfig
  <1>4. TypeOK'
    BY <1>1, <1>2, <1>3 DEF TypeOK, CallerTyped
  <1>5. FilledInv'
    BY <1>3 DEF IInv, FilledInv, PastStart, Computed, TakenIn
  <1>6. RangeInv'
    BY <1>3 DEF IInv, RangeInv, TakenIn, Refreshes, OnInterval
  <1>7. CountInv' /\ NothingHeldBetween'
    BY <1>2, <1>3 DEF IInv, CountInv, NothingHeldBetween
  <1>. QED  BY <1>2, <1>4, <1>5, <1>6, <1>7 DEF IInv

-----------------------------------------------------------------------------
(***************************************************************************)
(* The actions.                                                            *)
(***************************************************************************)

LEMMA InitInductive == Init => IInv
  <1>. SUFFICES ASSUME Init PROVE IInv
    OBVIOUS
  <1>1. Fields
    BY ConfigTyped DEF Init
  <1>2. None \in Tensors
    BY DEF None, NoCall, Tensors, Calls
  <1>3. TypeOK
    BY <1>1, <1>2, CacheAssumption DEF Init, Fields, TypeOK, Released
  <1>4. whole => length = config.steps_count
    BY Zenon DEF Init
  <1>5. request > 0 /\ CountInv /\ NothingHeldBetween
    BY <1>4 DEF Init, CountInv, NothingHeldBetween
  <1>6. FilledInv /\ RangeInv
    BY <1>1, <1>3, PlacesTyped DEF Init, Fields, FilledInv, RangeInv, PastStart
  <1>. QED  BY <1>3, <1>5, <1>6 DEF IInv

(* A reuse is past the first refresh: the cache stays as filled as it was. *)
LEMMA ReuseAttentionStep == IInv /\ ReuseAttention => IInv'
  <1>. SUFFICES ASSUME IInv, ReuseAttention PROVE IInv'
    OBVIOUS
  <1>1. Attention /\ ~Bypassed /\ config.step_start < cur_step
    BY DEF ReuseAttention, Reuses, ReusesAttention
  <1>2. cache \in [Places -> Tensors] /\ output_count \in 1 .. 3
    BY DEF IInv, TypeOK
  <1>3. FilledBy(cache)
    BY <1>1 DEF IInv, FilledInv, FilledBy, PastStart
  <1>. QED  BY <1>1, <1>2, <1>3, CountedStep DEF ReuseAttention, RangeBy

LEMMA ComputeAttentionStep == IInv /\ ComputeAttention => IInv'
  <1>. SUFFICES ASSUME IInv, ComputeAttention PROVE IInv'
    OBVIOUS
  <1>. DEFINE updated == IF StoresAttention
                         THEN [cache EXCEPT ![cur_block] = Result(Call)] ELSE cache
  <1>1. Attention /\ ~Bypassed /\ TypeOK /\ request > 0
    BY DEF ComputeAttention, IInv
  <1>2. /\ Numbers /\ cache \in [Places -> Tensors] /\ output_count \in 1 .. 3
        /\ cur_block \in Places
    BY <1>1, NumbersTyped, PlacesTyped DEF TypeOK
  <1>3. Result(Call) \in Tensors /\ Computed(Result(Call))
    BY <1>1, TensorsTyped DEF Computed
  <1>4. updated \in [Places -> Tensors]
    BY <1>2, <1>3
  <1>5. FilledBy(updated)
    <2>. SUFFICES ASSUME NEW b \in Places, AtOrPastStart(b) PROVE Computed(updated[b])
      BY <1>1 DEF FilledBy
    <2>1. CASE PastStart(b)
      <3>1. Computed(cache[b])
        BY <1>1, <2>1 DEF IInv, FilledInv
      <3>. QED  BY <1>2, <1>3, <3>1
    <2>2. CASE ~PastStart(b)
      <3>1. cur_step = config.step_start /\ b = cur_block
        BY <1>1, <1>2, <2>2, PlacesTyped DEF Numbers, Fields, PastStart, AtOrPastStart
      <3>2. StoresAttention
        BY <1>1, <1>2, <3>1 DEF Numbers, Fields, StoresAttention, Bypassed
      <3>. QED  BY <1>2, <1>3, <3>1, <3>2
    <2>. QED  BY <2>1, <2>2
  <1>6. RangeBy(updated)
    BY <1>1 DEF RangeBy
  <1>. HIDE DEF updated
  <1>7. cache' = Counted(updated)
    BY DEF ComputeAttention, updated
  <1>. QED  BY <1>1, <1>2, <1>4, <1>5, <1>6, <1>7, CountedStep DEF ComputeAttention

LEMMA ReuseBlocksStep == IInv /\ ReuseBlocks => IInv'
  <1>. SUFFICES ASSUME IInv, ReuseBlocks PROVE IInv'
    OBVIOUS
  <1>1. ~Attention /\ ~Bypassed /\ Numbers
    BY NumbersTyped DEF ReuseBlocks, Reuses, IInv
  <1>2. config.step_start <= cur_step /\ ~OnInterval
    BY <1>1 DEF ReuseBlocks, Reuses, ReusesBlocks
  <1>3. config.step_start < cur_step
    BY <1>1, <1>2, ZeroOnInterval
  <1>4. cache \in [Places -> Tensors] /\ output_count \in 1 .. 3
    BY DEF IInv, TypeOK
  <1>5. FilledBy(cache)
    BY <1>1, <1>3 DEF IInv, FilledInv, FilledBy, PastStart
  <1>6. RangeBy(cache)
    BY <1>2 DEF RangeBy, Refreshes
  <1>. QED  BY <1>1, <1>4, <1>5, <1>6, CountedStep DEF ReuseBlocks

LEMMA ComputeBlockStep == IInv /\ ComputeBlock => IInv'
  <1>. SUFFICES ASSUME IInv, ComputeBlock PROVE IInv'
    OBVIOUS
  <1>1. ~Attention /\ ~Bypassed /\ ~Reuses /\ TypeOK /\ request > 0
    BY DEF ComputeBlock, IInv
  <1>2. /\ Numbers /\ cache \in [Places -> Tensors] /\ output_count' \in 1 .. 3
        /\ 0 \in Places
    BY <1>1, NumbersTyped, PlacesTyped DEF TypeOK, ComputeBlock, Numbers
  <1>3. /\ Input(Call) \in Tensors /\ Input(Call).to = NoCall /\ TakenIn(Input(Call))
        /\ None \in Tensors
        /\ \A t \in Tensors : Minus(Call, t) \in Tensors /\ Minus(Call, t).from = t.from
    BY <1>1, TensorsTyped DEF TakenIn
  <1>4. Updated \in [Places -> Tensors]
    BY <1>2, <1>3 DEF Updated
  <1>5. TakenIn(cache[0]) => TakenIn(Updated[0])
    BY <1>2, <1>3 DEF Updated, TakenIn
  <1>6. Refreshes /\ AtStart => Updated[0] = Input(Call)
    BY <1>2 DEF Updated
  <1>7. FilledBy(Updated)
    <2>. SUFFICES ASSUME AtOrPastStart(config.block_start) PROVE TakenIn(Updated[0])
      BY <1>1 DEF FilledBy
    <2>1. CASE PastStart(config.block_start)
      BY <1>1, <1>5, <2>1 DEF IInv, FilledInv
    <2>2. CASE ~PastStart(config.block_start)
      <3>1. cur_step = config.step_start /\ AtStart
        BY <1>2, <2>2 DEF Numbers, Fields, PastStart, AtOrPastStart, AtStart
      <3>2. Refreshes
        BY <1>2, <3>1, ZeroOnInterval DEF Refreshes, Numbers, Fields
      <3>. QED  BY <1>3, <1>6, <3>1, <3>2
    <2>. QED  BY <2>1, <2>2
  <1>8. RangeBy(Updated)
    <2>. SUFFICES ASSUME Refreshes, config.block_start <= cur_block,
                         cur_block + 1 < config.block_end
                  PROVE  Updated[0].to = NoCall /\ TakenIn(Updated[0])
      BY DEF RangeBy
    <2>1. CASE AtStart
      BY <1>3, <1>6, <2>1
    <2>2. CASE ~AtStart
      <3>1. config.block_start < cur_block /\ cur_block < config.block_end /\ ~AtEnd
        BY <1>2, <2>2 DEF Numbers, Fields, AtStart, AtEnd
      <3>2. Updated = cache
        BY <2>2, <3>1 DEF Updated
      <3>. QED  BY <1>1, <3>1, <3>2 DEF IInv, RangeInv
    <2>. QED  BY <2>1, <2>2
  <1>. QED  BY <1>1, <1>2, <1>4, <1>7, <1>8, CountedStep DEF ComputeBlock

LEMMA RaiseStep == IInv /\ (ReuseRaises \/ UpdateFails \/ FunctionRaises) => IInv'
  <1>. SUFFICES ASSUME IInv, ReuseRaises \/ UpdateFails \/ FunctionRaises PROVE IInv'
    OBVIOUS
  <1>1. /\ Abandon
        /\ UNCHANGED <<config, model, cur_step, cur_block, cache>>
        /\ output_count' \in {output_count, model.outputs}
    BY DEF ReuseRaises, UpdateFails, FunctionRaises, agent
  <1>2. output_count' \in 1 .. 3
    BY <1>1, NumbersTyped DEF IInv, TypeOK, Numbers
  <1>. QED  BY <1>1, <1>2, AbandonStep

(* The agent never sees the call. *)
LEMMA CallDirectlyStep == IInv /\ CallDirectly => IInv'
  <1>. SUFFICES ASSUME IInv, CallDirectly PROVE IInv'
    OBVIOUS
  <1>1. TypeOK /\ request > 0 /\ Bypassed /\ cache = Released
    BY DEF IInv, CallDirectly, CountInv
  <1>2. UNCHANGED <<config, model, agent>> /\ Proceed
    BY DEF CallDirectly
  <1>3. CallerTyped' /\ request' > 0
    BY <1>1, <1>2, ProceedTyped
  <1>4. Bypassed' /\ Places' = Places /\ Released' = Released /\ Attention' = Attention
    BY <1>1, <1>2, SameConfig
  <1>5. TypeOK'
    BY <1>1, <1>2, <1>3, <1>4 DEF TypeOK, CallerTyped, agent
  <1>6. whole' => length' = config'.steps_count
    BY <1>2, ProceedCases
       DEF NextBlock, NextStep, RequestEnds, RequestBegins, IInv, CountInv, agent
  <1>. QED
    BY <1>1, <1>2, <1>3, <1>4, <1>5, <1>6
       DEF IInv, FilledInv, RangeInv, CountInv, NothingHeldBetween, agent

LEMMA StutterStep == IInv /\ UNCHANGED vars => IInv'
  <1>. SUFFICES ASSUME IInv, UNCHANGED vars PROVE IInv'
    OBVIOUS
  <1>. USE DEF vars, agent, caller
  <1>1. /\ Bypassed' = Bypassed /\ Attention' = Attention
        /\ Places' = Places /\ Released' = Released
    BY SameConfig
  <1>2. TypeOK' /\ request' > 0
    BY <1>1 DEF IInv, TypeOK
  <1>3. FilledInv' /\ RangeInv'
    BY <1>1 DEF IInv, FilledInv, RangeInv, PastStart, Computed, TakenIn, Refreshes, OnInterval
  <1>4. CountInv' /\ NothingHeldBetween'
    BY <1>1 DEF IInv, CountInv, NothingHeldBetween
  <1>. QED  BY <1>2, <1>3, <1>4 DEF IInv

THEOREM Inductive == Spec => []IInv
  <1>1. IInv /\ [Next]_vars => IInv'
    BY ReuseAttentionStep, ComputeAttentionStep, ReuseBlocksStep, ComputeBlockStep,
       RaiseStep, CallDirectlyStep, StutterStep DEF Next
  <1>. QED  BY <1>1, InitInductive, PTL DEF Spec

-----------------------------------------------------------------------------
(* Every variable keeps its type, whatever the configuration. *)
THEOREM TypeCorrect == Spec => []TypeOK
  <1>1. IInv => TypeOK
    BY DEF IInv
  <1>. QED  BY <1>1, Inductive, PTL

(* Whatever the caller does, no reuse finds the cache empty: the calls that reuse
   come after those that fill it in the order the agent counts them, and that
   order does not depend on where the caller believes to be. *)
THEOREM ReusesAreFilled == Spec => []NeverReusesNothing
  <1>1. IInv => NeverReusesNothing
    <2>. SUFFICES ASSUME IInv, Handed PROVE cache[Wanted] # None
      BY DEF NeverReusesNothing
    <2>1. TypeOK /\ Numbers /\ ~Bypassed /\ Reuses
      BY NumbersTyped DEF IInv, Handed, Reuses
    <2>2. None.to.request = 0 /\ None.from.request = 0
      BY DEF None, NoCall
    <2>3. CASE Attention
      <3>1. config.step_start < cur_step /\ cur_block \in Places
        BY <2>1, <2>3, PlacesTyped DEF Reuses, ReusesAttention
      <3>2. Computed(cache[cur_block])
        BY <2>1, <2>3, <3>1 DEF IInv, FilledInv, PastStart
      <3>. QED  BY <2>2, <2>3, <3>2 DEF Wanted, Computed
    <2>4. CASE ~Attention
      <3>1. config.step_start < cur_step
        BY <2>1, <2>4, ZeroOnInterval DEF Reuses, ReusesBlocks
      <3>2. TakenIn(cache[0])
        BY <2>1, <2>4, <3>1 DEF IInv, FilledInv, PastStart
      <3>. QED  BY <2>2, <2>4, <3>2 DEF Wanted, TakenIn
    <2>. QED  BY <2>3, <2>4
  <1>. QED  BY <1>1, Inductive, PTL

(* Whatever the caller does, the end of a range finds the hidden states its
   start has left: no step that refreshes enters a range in the middle. *)
THEOREM EndsFindTheirStart == Spec => []SubtractsAnInput
  <1>1. IInv => SubtractsAnInput
    <2>. SUFFICES ASSUME IInv, ~Attention, ~Bypassed, Refreshes, AtEnd
                  PROVE  cache[0].to = NoCall /\ cache[0].from # NoCall
      BY DEF SubtractsAnInput
    <2>1. Numbers
      BY NumbersTyped DEF IInv
    <2>2. config.block_start < cur_block /\ cur_block < config.block_end
      BY <2>1 DEF Numbers, Fields, AtEnd, AtStart, Bypassed
    <2>3. cache[0].to = NoCall /\ TakenIn(cache[0])
      BY <2>2 DEF IInv, RangeInv
    <2>. QED  BY <2>3 DEF TakenIn, NoCall
  <1>. QED  BY <1>1, Inductive, PTL

(* As long as requests run whole, nothing of a request outlives it. *)
THEOREM NothingOutlivesARequest == Spec => []NothingHeldBetween
  <1>1. IInv => NothingHeldBetween
    BY DEF IInv
  <1>. QED  BY <1>1, Inductive, PTL

-----------------------------------------------------------------------------
(***************************************************************************)
(* What is reused belongs to this request and to the latest refresh.       *)
(***************************************************************************)

(* Division with remainder. *)
LEMMA Division ==
  ASSUME NEW n \in Nat, NEW i \in Nat \ {0}
  PROVE  n \div i \in Int /\ n % i \in 0 .. i - 1 /\ n = i * (n \div i) + (n % i)
  OBVIOUS

(* Within an interval the remainder counts up. *)
LEMMA RemainderCounts ==
  ASSUME NEW n \in Nat \ {0}, NEW i \in Nat \ {0}, n % i # 0
  PROVE  n % i = ((n - 1) % i) + 1
  <1>. DEFINE q == n \div i
              r == n % i
              p == (n - 1) \div i
              s == (n - 1) % i
  <1>1. q \in Int /\ r \in 1 .. i - 1 /\ n = i * q + r
    BY Division
  <1>2. p \in Int /\ s \in 0 .. i - 1 /\ n - 1 = i * p + s
    BY Division
  <1>. HIDE DEF q, r, p, s
  <1>3. i * q + r - 1 = i * p + s
    BY <1>1, <1>2
  <1>4. q = p
    <2>1. CASE q > p
      <3>1. i * (q - p) = s - (r - 1)
        BY <1>1, <1>2, <1>3
      <3>2. i * (q - p) >= i
        BY <1>1, <1>2, <2>1
      <3>. QED  BY <1>1, <1>2, <3>1, <3>2
    <2>2. CASE q < p
      <3>1. i * (p - q) = (r - 1) - s
        BY <1>1, <1>2, <1>3
      <3>2. i * (p - q) >= i
        BY <1>1, <1>2, <2>2
      <3>. QED  BY <1>1, <1>2, <3>1, <3>2
    <2>. QED  BY <1>1, <1>2, <2>1, <2>2
  <1>5. r = s + 1
    BY <1>1, <1>2, <1>3, <1>4
  <1>. QED  BY <1>5 DEF r, s

(* A step that refreshes is due itself, the others inherit what is due. *)
LEMMA DueMoves ==
  ASSUME Numbers, NEW s \in Nat, config.step_start <= s
  PROVE  /\ (s - config.step_start) % config.step_interval = 0 => Due(s) = s
         /\ (s - config.step_start) % config.step_interval # 0 /\ config.step_start < s
              => Due(s) = Due(s - 1)
  <1>. DEFINE n == s - config.step_start
              i == config.step_interval
  <1>1. n \in Nat /\ i \in Nat \ {0} /\ s \in Nat /\ (config.step_start < s => n \in Nat \ {0})
    BY DEF Numbers, Fields
  <1>2. /\ Due(s) = s - (n % i)
        /\ (s - 1) - config.step_start = n - 1
        /\ Due(s - 1) = (s - 1) - ((n - 1) % i)
    <2>1. (s - 1) - config.step_start = n - 1
      BY DEF Numbers, Fields
    <2>. QED  BY <2>1, Zenon DEF Due
  <1>. HIDE DEF n, i
  <1>3. n % i # 0 /\ n \in Nat \ {0} => n % i = ((n - 1) % i) + 1 /\ (n - 1) % i \in Int
    <2>. SUFFICES ASSUME n % i # 0, n \in Nat \ {0}
                  PROVE  n % i = ((n - 1) % i) + 1 /\ (n - 1) % i \in Int
      OBVIOUS
    <2>1. n - 1 \in Nat
      OBVIOUS
    <2>2. (n - 1) % i \in Int
      BY <1>1, <2>1, Division
    <2>. QED  BY <1>1, <2>2, RemainderCounts
  <1>. DEFINE r == n % i
              p == (n - 1) % i
  <1>4. Due(s) = s - r /\ Due(s - 1) = (s - 1) - p
    BY <1>2, Zenon
  <1>5. r # 0 /\ n \in Nat \ {0} => r = p + 1 /\ p \in Int
    BY <1>3, Zenon
  <1>. SUFFICES (r = 0 => Due(s) = s) /\ (r # 0 /\ config.step_start < s => Due(s) = Due(s - 1))
    BY Zenon DEF n, i
  <1>. HIDE DEF r, p
  <1>. QED  BY <1>1, <1>4, <1>5

(* Where a whole call leads: to the next block, to the next step, or to a new
   start. *)
Moves(updated) ==
  \/ cur_step' = 0 /\ cur_block' = 0
  \/ /\ cur_step' = cur_step + 1 /\ cur_block' = 0
     /\ cur_block + 1 = config.blocks_count
     /\ request' = request /\ cache' = updated
  \/ /\ cur_step' = cur_step /\ cur_block' = cur_block + 1
     /\ request' = request /\ cache' = updated

LEMMA MovesOnce ==
  ASSUME IInv, ~Bypassed, whole', Count, Proceed, NEW updated, cache' = Counted(updated)
  PROVE  Moves(updated)
  <1>1. Numbers /\ Counts(updated)
    BY NumbersTyped, CountsOnce DEF IInv
  <1>2. whole
    BY ProceedCases DEF NextBlock, NextStep, RequestEnds, RequestBegins
  <1>3. length = config.steps_count /\ cur_step = step /\ cur_block = block
    BY <1>2 DEF IInv, CountInv
  <1>4. RequestEnds => cur_step' = 0 /\ cur_block' = 0
    BY <1>1, <1>3 DEF RequestEnds, Numbers, Fields, Count, LastBlock, LastStep
  <1>5. ~RequestEnds => request' = request
    BY ProceedCases DEF NextBlock, NextStep
  <1>. QED  BY <1>1, <1>4, <1>5 DEF Counts, Moves

(* The blocks an attention cache has been through on this step hold what is
   due now, the others what was due one step ago. *)
FreshAttention ==
  \A b \in Places :
    /\ b >= cur_block /\ config.step_start < cur_step /\ cur_step <= config.step_end
         => cache[b] = Result(ComputedAt(Due(cur_step - 1), b))
    /\ b < cur_block /\ config.step_start <= cur_step /\ cur_step < config.step_end
         => cache[b] = Result(ComputedAt(Due(cur_step), b))

(* All outputs of the range are cached as they were on step s. *)
RangeCached(s) ==
  /\ output_count = model.outputs /\ model.outputs <= 2
  /\ \A p \in 0 .. model.outputs - 1 : cache[p] = RangeAt(s)

(* The inputs of the range are cached, as many as there are outputs to come. *)
InputsCached ==
  cache[0] = Input(ComputedAt(cur_step, config.block_start))
    /\ (model.encoder => cache[1] = Input(ComputedAt(cur_step, config.block_start)))

(* Before the range on a refreshing step, what was due one step ago; in it, the
   inputs; behind it, and on the other steps, what is due now. *)
FreshRange ==
  config.block_end > config.block_start + 1 =>
    /\ Refreshes /\ config.block_start < cur_block /\ cur_block < config.block_end
         => InputsCached
    /\ config.step_start < cur_step /\ cur_block <= config.block_start
         => RangeCached(Due(cur_step - 1))
    /\ config.step_start <= cur_step /\ config.block_end <= cur_block
         => RangeCached(Due(cur_step))
    /\ config.step_start < cur_step /\ ~OnInterval
         => RangeCached(Due(cur_step))

FreshInv ==
  whole /\ ~Bypassed => IF Attention THEN FreshAttention ELSE FreshRange

LEMMA FreshAttentionStep ==
  ASSUME IInv, FreshInv, Attention, ~Bypassed, whole', UNCHANGED config, Count, Proceed,
         NEW updated \in [Places -> Tensors], cache' = Counted(updated),
         \A b \in Places \ {cur_block} : updated[b] = cache[b],
         config.step_start <= cur_step /\ cur_step < config.step_end
           => updated[cur_block] = Result(ComputedAt(Due(cur_step), cur_block)),
         cur_step = config.step_end => updated = cache
  PROVE  FreshAttention'
  <1>1. Numbers /\ Moves(updated)
    BY NumbersTyped, MovesOnce DEF IInv
  <1>2. FreshAttention
    <2>1. whole
      BY ProceedCases DEF NextBlock, NextStep, RequestEnds, RequestBegins
    <2>. QED  BY <2>1 DEF FreshInv
  <1>3. /\ Places' = Places
        /\ \A b \in Places : b \in Nat /\ b < config.blocks_count
    BY <1>1, SameConfig DEF Places, Numbers, Fields
  <1>. SUFFICES ASSUME NEW b \in Places
       PROVE /\ b >= cur_block' /\ config.step_start < cur_step' /\ cur_step' <= config.step_end
                  => cache'[b] = Result(ComputedAt(Due(cur_step - 1), b))'
             /\ b < cur_block' /\ config.step_start <= cur_step' /\ cur_step' < config.step_end
                  => cache'[b] = Result(ComputedAt(Due(cur_step), b))'
    BY <1>3 DEF FreshAttention
  <1>4. CASE cur_step' = 0 /\ cur_block' = 0
    BY <1>1, <1>3, <1>4 DEF Numbers, Fields
  <1>5. CASE /\ cur_step' = cur_step + 1 /\ cur_block' = 0
             /\ cur_block + 1 = config.blocks_count
             /\ request' = request /\ cache' = updated
    <2>. SUFFICES ASSUME config.step_start < cur_step', cur_step' <= config.step_end
                  PROVE  cache'[b] = Result(ComputedAt(Due(cur_step - 1), b))'
      BY <1>3, <1>5
    <2>1. config.step_start <= cur_step /\ cur_step < config.step_end
      BY <1>1, <1>5 DEF Numbers, Fields
    <2>2. cache'[b] = Result(ComputedAt(Due(cur_step), b))
      <3>1. CASE b = cur_block
        BY <1>5, <2>1, <3>1
      <3>2. CASE b # cur_block
        <4>1. b < cur_block
          BY <1>1, <1>3, <1>5, <3>2 DEF Numbers, Fields
        <4>. QED  BY <1>2, <1>5, <2>1, <3>2, <4>1 DEF FreshAttention
      <3>. QED  BY <3>1, <3>2
    <2>3. cur_step' - 1 = cur_step
      BY <1>1, <1>5 DEF Numbers
    <2>. QED  BY <1>5, <2>2, <2>3 DEF Result, ComputedAt, Due
  <1>6. CASE /\ cur_step' = cur_step /\ cur_block' = cur_block + 1
             /\ request' = request /\ cache' = updated
    <2>1. /\ Result(ComputedAt(Due(cur_step - 1), b))' = Result(ComputedAt(Due(cur_step - 1), b))
          /\ Result(ComputedAt(Due(cur_step), b))' = Result(ComputedAt(Due(cur_step), b))
      BY <1>6 DEF Result, ComputedAt, Due
    <2>2. CASE b > cur_block
      BY <1>1, <1>2, <1>3, <1>6, <2>1, <2>2 DEF FreshAttention, Numbers, Fields
    <2>3. CASE b = cur_block
      BY <1>1, <1>6, <2>1, <2>3 DEF Numbers, Fields
    <2>4. CASE b < cur_block
      BY <1>1, <1>2, <1>3, <1>6, <2>1, <2>4 DEF FreshAttention, Numbers, Fields
    <2>. QED  BY <1>1, <1>3, <2>2, <2>3, <2>4 DEF Numbers
  <1>. QED  BY <1>1, <1>4, <1>5, <1>6 DEF Moves

(* Nothing is claimed of a range of one block. *)
LEMMA ShortRange ==
  ASSUME UNCHANGED config, ~(config.block_end > config.block_start + 1)
  PROVE  FreshRange'
  BY DEF FreshRange

(* The same after a call of the same request. *)
RangeCachedNext(s) ==
  /\ output_count' = model.outputs /\ model.outputs <= 2
  /\ \A p \in 0 .. model.outputs - 1 : cache'[p] = RangeAt(s)

InputsCachedNext(s) ==
  cache'[0] = Input(ComputedAt(s, config.block_start))
    /\ (model.encoder => cache'[1] = Input(ComputedAt(s, config.block_start)))

FreshRangeNext ==
  /\ Refreshes' /\ config.block_start < cur_block' /\ cur_block' < config.block_end
       => InputsCachedNext(cur_step')
  /\ config.step_start < cur_step' /\ cur_block' <= config.block_start
       => RangeCachedNext(Due(cur_step' - 1))
  /\ config.step_start <= cur_step' /\ config.block_end <= cur_block'
       => RangeCachedNext(Due(cur_step'))
  /\ config.step_start < cur_step' /\ ~OnInterval'
       => RangeCachedNext(Due(cur_step'))

LEMMA FreshNext ==
  ASSUME UNCHANGED <<config, model, request>>, FreshRangeNext
  PROVE  FreshRange'
  BY DEF FreshRangeNext, FreshRange, RangeCachedNext, RangeCached, InputsCachedNext,
         InputsCached, RangeAt, ComputedAt, Minus, Input, Due

(* Nothing is claimed of the start of a request. *)
LEMMA FreshAtStart ==
  ASSUME Numbers, ~Bypassed, UNCHANGED config, cur_step' = 0, cur_block' = 0
  PROVE  FreshRange'
  <1>1. config.block_start \in Nat /\ config.block_end \in Nat /\ config.step_start \in Nat
        /\ config.block_start < config.block_end
    BY DEF Numbers, Fields, Bypassed
  <1>. QED  BY <1>1 DEF FreshRange

(* A step that does not refresh leaves a range as it was. *)
LEMMA KeepRangeStep ==
  ASSUME IInv, FreshRange, ~Bypassed, whole', UNCHANGED <<config, model>>,
         Count, Proceed, ~Refreshes, cache' = Counted(cache), UNCHANGED output_count,
         config.block_end > config.block_start + 1
  PROVE  FreshRange'
  <1>1. Numbers /\ Moves(cache)
    BY NumbersTyped, MovesOnce DEF IInv
  <1>2. config.block_start \in Nat /\ config.block_end \in Nat /\ config.step_start \in Nat
        /\ cur_step \in Nat /\ cur_block \in Nat
    BY <1>1 DEF Numbers, Fields
  <1>3. ASSUME config.step_start <= cur_step
        PROVE  config.step_start < cur_step /\ ~OnInterval /\ RangeCached(Due(cur_step))
    <2>1. ~OnInterval
      BY <1>3 DEF Refreshes
    <2>2. config.step_start < cur_step
      BY <1>1, <1>3, <2>1, ZeroOnInterval
    <2>. QED  BY <2>1, <2>2 DEF FreshRange
  <1>4. ASSUME config.step_start <= cur_step, cache' = cache
        PROVE  RangeCachedNext(Due(cur_step))
    BY <1>3, <1>4 DEF RangeCached, RangeCachedNext
  <1>5. CASE cur_step' = 0 /\ cur_block' = 0
    BY <1>1, <1>5, FreshAtStart
  <1>6. CASE /\ cur_step' = cur_step /\ cur_block' = cur_block + 1
             /\ request' = request /\ cache' = cache
    <2>1. ~Refreshes'
      BY <1>6 DEF Refreshes, OnInterval
    <2>2. config.step_start <= cur_step => Due(cur_step - 1) = Due(cur_step)
      BY <1>1, <1>2, <1>3, DueMoves DEF OnInterval
    <2>3. FreshRangeNext
      BY <1>2, <1>4, <1>6, <2>1, <2>2 DEF FreshRangeNext
    <2>. QED  BY <1>6, <2>3, FreshNext
  <1>7. CASE /\ cur_step' = cur_step + 1 /\ cur_block' = 0
             /\ cur_block + 1 = config.blocks_count
             /\ request' = request /\ cache' = cache
    <2>1. config.step_start < cur_step' => config.step_start <= cur_step
      BY <1>2, <1>7
    <2>2. cur_step' - 1 = cur_step
      BY <1>2, <1>7
    <2>3. config.step_start < cur_step' /\ ~OnInterval' => Due(cur_step') = Due(cur_step)
      BY <1>1, <1>2, <1>7, <2>2, DueMoves DEF OnInterval
    <2>4. FreshRangeNext
      BY <1>2, <1>4, <1>7, <2>1, <2>2, <2>3 DEF FreshRangeNext
    <2>. QED  BY <1>7, <2>4, FreshNext
  <1>. QED  BY <1>1, <1>5, <1>6, <1>7 DEF Moves

(* A step that refreshes takes the inputs at the start of a range and the differences
   at its end. *)
LEMMA RefreshRangeStep ==
  ASSUME IInv, FreshRange, ~Attention, ~Bypassed, whole, whole',
         UNCHANGED <<config, model>>, Count, Proceed, Refreshes, ~UpdateRaises,
         cache' = Counted(Updated), output_count' = model.outputs,
         config.block_end > config.block_start + 1
  PROVE  FreshRange'
  <1>1. Numbers /\ Moves(Updated)
    BY NumbersTyped, MovesOnce DEF IInv
  <1>2. /\ config.block_start \in Nat /\ config.block_end \in Nat /\ config.step_start \in Nat
        /\ cur_step \in Nat /\ cur_block \in Nat /\ config.blocks_count \in Nat
        /\ config.block_end <= config.blocks_count
        /\ model.outputs \in 1 .. 2
    BY <1>1 DEF Numbers, Fields, UpdateRaises
  <1>3. config.step_start <= cur_step /\ OnInterval /\ Due(cur_step) = cur_step
    BY <1>1, <1>2, DueMoves DEF Refreshes, OnInterval
  <1>4. Call = ComputedAt(cur_step, cur_block)
    BY DEF IInv, CountInv, Call, ComputedAt
  <1>5. Places = {0, 1}
    BY DEF Places
  (* Before the range, and behind it. *)
  <1>6. ASSUME cur_block < config.block_start \/ config.block_end <= cur_block
        PROVE  Updated = cache
    BY <1>2, <1>6 DEF Updated, AtStart, AtEnd
  <1>7. ASSUME cur_block < config.block_start, cache' = Updated, config.step_start < cur_step
        PROVE  RangeCachedNext(Due(cur_step - 1))
    BY <1>2, <1>6, <1>7 DEF FreshRange, RangeCached, RangeCachedNext
  <1>8. ASSUME config.block_end <= cur_block, cache' = Updated
        PROVE  RangeCachedNext(Due(cur_step))
    BY <1>2, <1>3, <1>6, <1>8 DEF FreshRange, RangeCached, RangeCachedNext
  (* In the range. *)
  <1>9. ASSUME config.block_start <= cur_block, cur_block + 1 < config.block_end,
               cache' = Updated
        PROVE  InputsCachedNext(cur_step)
    <2>1. CASE AtStart
      BY <1>4, <1>5, <1>9, <2>1 DEF Updated, InputsCachedNext, AtStart
    <2>2. CASE ~AtStart
      <3>1. ~AtEnd /\ config.block_start < cur_block /\ cur_block < config.block_end
        BY <1>2, <1>9, <2>2 DEF AtStart, AtEnd
      <3>2. Updated = cache
        BY <2>2, <3>1 DEF Updated
      <3>. QED  BY <1>9, <3>1, <3>2 DEF FreshRange, InputsCached, InputsCachedNext
    <2>. QED  BY <2>1, <2>2
  <1>10. ASSUME cur_block + 1 = config.block_end, cache' = Updated
         PROVE  RangeCachedNext(Due(cur_step))
    <2>1. ~AtStart /\ AtEnd /\ cur_block = config.block_end - 1
          /\ config.block_start < cur_block /\ cur_block < config.block_end
      BY <1>2, <1>10 DEF AtStart, AtEnd
    <2>2. InputsCached
      BY <2>1 DEF FreshRange
    <2>3. model.outputs = 2 => model.encoder
      BY <2>1 DEF UpdateRaises
    <2>4. \A p \in 0 .. model.outputs - 1 :
            p \in Places /\ cache[p] = Input(ComputedAt(cur_step, config.block_start))
      BY <1>2, <1>5, <2>2, <2>3 DEF InputsCached
    <2>5. \A p \in 0 .. model.outputs - 1 : Updated[p] = Minus(Call, cache[p])
      BY <1>2, <2>1, <2>4 DEF Updated
    <2>. QED
      BY <1>2, <1>3, <1>4, <1>10, <2>1, <2>4, <2>5 DEF RangeCachedNext, RangeAt
  <1>11. CASE cur_step' = 0 /\ cur_block' = 0
    BY <1>1, <1>11, FreshAtStart
  <1>12. CASE /\ cur_step' = cur_step /\ cur_block' = cur_block + 1
              /\ request' = request /\ cache' = Updated
    <2>1. OnInterval'
      BY <1>3, <1>12 DEF OnInterval
    <2>2. FreshRangeNext
      BY <1>2, <1>7, <1>8, <1>9, <1>10, <1>12, <2>1 DEF FreshRangeNext
    <2>. QED  BY <1>12, <2>2, FreshNext
  <1>13. CASE /\ cur_step' = cur_step + 1 /\ cur_block' = 0
              /\ cur_block + 1 = config.blocks_count
              /\ request' = request /\ cache' = Updated
    <2>1. RangeCachedNext(Due(cur_step))
      BY <1>2, <1>8, <1>10, <1>13
    <2>2. cur_step' - 1 = cur_step
      BY <1>2, <1>13
    <2>3. ~OnInterval' => Due(cur_step') = Due(cur_step)
      BY <1>1, <1>2, <1>3, <1>13, <2>2, DueMoves DEF OnInterval
    <2>4. FreshRangeNext
      BY <1>2, <1>13, <2>1, <2>2, <2>3 DEF FreshRangeNext
    <2>. QED  BY <1>13, <2>4, FreshNext
  <1>. QED  BY <1>1, <1>11, <1>12, <1>13 DEF Moves

LEMMA FreshInit == Init => FreshInv
  <1>. SUFFICES ASSUME Init, ~Bypassed PROVE IF Attention THEN FreshAttention ELSE FreshRange
    BY DEF FreshInv
  <1>1. Fields
    BY ConfigTyped DEF Init
  <1>2. CASE Attention
    <2>1. \A b \in Places : b \in Nat
      BY <1>1, <1>2 DEF Places, Fields
    <2>. QED  BY <1>1, <1>2, <2>1 DEF Init, Fields, FreshAttention
  <1>3. CASE ~Attention
    BY <1>1, <1>3 DEF Init, Fields, FreshRange, Bypassed
  <1>. QED  BY <1>2, <1>3

LEMMA FreshStep == IInv /\ FreshInv /\ [Next]_vars => FreshInv'
  <1>. SUFFICES ASSUME IInv, FreshInv, [Next]_vars, whole', ~Bypassed'
                PROVE  (IF Attention THEN FreshAttention ELSE FreshRange)'
    BY DEF FreshInv
  <1>1. UNCHANGED <<config, model>>
    BY DEF Next, ReuseAttention, ComputeAttention, ReuseBlocks, ReuseRaises, ComputeBlock,
           UpdateFails, CallDirectly, FunctionRaises, vars
  <1>2. ~Bypassed /\ Attention' = Attention
    BY <1>1, SameConfig
  <1>3. ASSUME Proceed \/ UNCHANGED vars
        PROVE  whole /\ IF Attention THEN FreshAttention ELSE FreshRange
    <2>1. whole
      BY <1>3, ProceedCases DEF NextBlock, NextStep, RequestEnds, RequestBegins, vars
    <2>. QED  BY <1>2, <2>1 DEF FreshInv
  <1>4. TypeOK /\ Numbers /\ cache \in [Places -> Tensors]
    BY NumbersTyped DEF IInv, TypeOK
  <1>5. CASE ReuseAttention
    <2>1. Attention /\ Proceed /\ Count /\ cache' = Counted(cache)
          /\ config.step_start < cur_step /\ cur_step <= config.step_end /\ ~OnInterval
      BY <1>5 DEF ReuseAttention, Reuses, ReusesAttention
    <2>2. block = cur_block /\ cur_block \in Places /\ cur_block \in Nat /\ cur_step \in Nat
      BY <1>2, <1>3, <1>4, <2>1, PlacesTyped DEF IInv, CountInv, Numbers
    <2>3. cache[cur_block] = Result(ComputedAt(Due(cur_step - 1), cur_block))
      BY <1>3, <2>1, <2>2 DEF FreshAttention
    <2>4. Due(cur_step - 1) = Due(cur_step)
      BY <1>4, <2>1, <2>2, DueMoves DEF OnInterval, Numbers, Fields
    <2>5. FreshAttention'
      BY <1>1, <1>2, <1>4, <2>1, <2>3, <2>4, FreshAttentionStep
    <2>. QED  BY <1>2, <2>1, <2>5
  <1>6. CASE ComputeAttention
    <2>. DEFINE updated == IF StoresAttention
                           THEN [cache EXCEPT ![cur_block] = Result(Call)] ELSE cache
    <2>1. Attention /\ Proceed /\ Count /\ cache' = Counted(updated) /\ ~Reuses
      BY <1>6 DEF ComputeAttention
    <2>2. /\ Call = ComputedAt(cur_step, cur_block) /\ cur_block \in Places
          /\ Result(Call) \in Tensors /\ cur_step \in Nat
      BY <1>2, <1>3, <1>4, <2>1, PlacesTyped, TensorsTyped
         DEF IInv, CountInv, Call, ComputedAt, Numbers
    <2>3. /\ updated \in [Places -> Tensors]
          /\ \A b \in Places \ {cur_block} : updated[b] = cache[b]
          /\ cur_step = config.step_end => updated = cache
      BY <1>4, <2>2 DEF StoresAttention, Numbers, Fields
    <2>4. ASSUME config.step_start <= cur_step, cur_step < config.step_end
          PROVE  updated[cur_block] = Result(ComputedAt(Due(cur_step), cur_block))
      <3>1. OnInterval
        BY <1>2, <1>4, <2>1, <2>4, ZeroOnInterval DEF Reuses, ReusesAttention, Numbers, Fields
      <3>2. Due(cur_step) = cur_step
        BY <1>4, <2>2, <2>4, <3>1, DueMoves DEF OnInterval
      <3>3. StoresAttention
        BY <2>4 DEF StoresAttention
      <3>. QED  BY <1>4, <2>2, <3>2, <3>3
    <2>. HIDE DEF updated
    <2>5. FreshAttention'
      BY <1>1, <1>2, <2>1, <2>3, <2>4, FreshAttentionStep
    <2>. QED  BY <1>2, <2>1, <2>5
  <1>7. CASE ReuseBlocks
    <2>1. /\ ~Attention /\ Proceed /\ Count /\ cache' = Counted(cache)
          /\ ~Refreshes /\ UNCHANGED output_count
      BY <1>7 DEF ReuseBlocks, Reuses, ReusesBlocks, Refreshes
    <2>. QED  BY <1>1, <1>2, <1>3, <2>1, KeepRangeStep, ShortRange
  <1>8. CASE ComputeBlock
    <2>1. ~Attention /\ Proceed /\ Count /\ cache' = Counted(Updated) /\ ~UpdateRaises
      BY <1>8 DEF ComputeBlock
    <2>2. CASE Refreshes
      <3>1. output_count' = model.outputs
        BY <1>8, <2>2 DEF ComputeBlock
      <3>. QED  BY <1>1, <1>2, <1>3, <2>1, <2>2, <3>1, RefreshRangeStep, ShortRange
    <2>3. CASE ~Refreshes
      <3>1. output_count' = output_count /\ Updated = cache
        BY <1>8, <2>3 DEF ComputeBlock, Updated
      <3>. QED  BY <1>1, <1>2, <1>3, <2>1, <2>3, <3>1, KeepRangeStep, ShortRange
    <2>. QED  BY <2>2, <2>3
  <1>9. CASE ReuseRaises \/ UpdateFails \/ FunctionRaises
    <2>1. Abandon
      BY <1>9 DEF ReuseRaises, UpdateFails, FunctionRaises
    <2>2. ~whole'
      BY <1>1, <2>1, AbandonTyped DEF IInv
    <2>. QED  BY <2>2
  <1>10. CASE CallDirectly
    BY <1>2, <1>10 DEF CallDirectly
  <1>11. CASE UNCHANGED vars
    <2>. USE DEF vars, agent, caller
    <2>1. FreshAttention' = FreshAttention
      BY <1>11, SameConfig DEF FreshAttention, ComputedAt, Result, Due
    <2>2. FreshRange' = FreshRange
      BY <1>11, SameConfig
         DEF FreshRange, RangeCached, InputsCached, RangeAt, ComputedAt, Minus, Input, Due,
             Refreshes, OnInterval
    <2>. QED  BY <1>2, <1>3, <1>11, <2>1, <2>2
  <1>. QED  BY <1>5, <1>6, <1>7, <1>8, <1>9, <1>10, <1>11 DEF Next

(* As long as requests run whole, a reuse gives what this request computed at the
   latest refresh: the agent and the caller agree on the step, and the cache
   holds what was due one step ago until the step overtakes it. *)
THEOREM ReusesAreFresh == Spec => []ReusesLatestRefresh
  <1>1. IInv /\ FreshInv => ReusesLatestRefresh
    <2>. SUFFICES ASSUME IInv, FreshInv, whole, Handed
                  PROVE  IF Attention THEN cache[block] = Result(ComputedAt(Due(step), block))
                         ELSE config.block_end > config.block_start + 1 =>
                                \A p \in 0 .. output_count - 1 : cache[p] = RangeAt(Due(step))
      BY DEF ReusesLatestRefresh
    <2>1. TypeOK /\ Numbers /\ ~Bypassed /\ Reuses
      BY NumbersTyped DEF IInv, Handed, Reuses
    <2>2. cur_step = step /\ cur_block = block
      BY <2>1 DEF IInv, CountInv
    <2>3. CASE Attention
      <3>1. config.step_start < cur_step /\ cur_step <= config.step_end /\ ~OnInterval
            /\ cur_block \in Places /\ cur_block \in Nat /\ cur_step \in Nat
        BY <2>1, <2>3, PlacesTyped DEF Reuses, ReusesAttention, Numbers
      <3>2. cache[cur_block] = Result(ComputedAt(Due(cur_step - 1), cur_block))
        BY <2>1, <2>3, <3>1 DEF FreshInv, FreshAttention
      <3>3. Due(cur_step - 1) = Due(cur_step)
        BY <2>1, <3>1, DueMoves DEF OnInterval, Numbers, Fields
      <3>. QED  BY <2>2, <2>3, <3>2, <3>3
    <2>4. CASE ~Attention
      <3>1. ~OnInterval /\ config.step_start < cur_step
        BY <2>1, <2>4, ZeroOnInterval DEF Reuses, ReusesBlocks
      <3>2. config.block_end > config.block_start + 1 => RangeCached(Due(cur_step))
        BY <2>1, <2>4, <3>1 DEF FreshInv, FreshRange
      <3>. QED  BY <2>2, <2>4, <3>2 DEF RangeCached
    <2>. QED  BY <2>3, <2>4
  <1>2. Spec => []FreshInv
    BY Inductive, FreshInit, FreshStep, PTL DEF Spec
  <1>. QED  BY <1>1, <1>2, Inductive, PTL
=============================================================================
