---------------------------- MODULE LaserKernel -----------------------------
(***************************************************************************)
(* One core group of laser_attention: the rounds of the matrix core        *)
(* (CubeForward.h, Run) beside those of its two vector cores               *)
(* (VectorForward.h, Run).  The matrix core is a round ahead with the      *)
(* scores and a round behind with the values, so three rounds are under    *)
(* way in two slots of the workspace.  The two vector cores do the same on *)
(* two halves of the lines, and the matrix core waits for both; they are   *)
(* one core here, and a round one instruction: LaserVector has the detail. *)
(***************************************************************************)
EXTENDS LaserCube

(* What Run does, in order. *)
Turn(what, round) == <<[do |-> what, round |-> round]>>

CubeTurns(rounds) ==
  IF rounds = 1
  THEN Turn("cube1", 0) \o Turn("signal", 0) \o Turn("await", 0) \o Turn("cube2", 0)
  ELSE Turn("cube1", 0) \o Turn("signal", 0) \o Turn("cube1", 1)
         \o Turns(rounds - 2, LAMBDA i : Turn("await", i) \o Turn("signal", i + 1)
                                           \o Turn("cube2", i) \o Turn("cube1", i + 2))
         \o Turn("await", rounds - 2) \o Turn("signal", rounds - 1) \o Turn("cube2", rounds - 2)
         \o Turn("await", rounds - 1) \o Turn("cube2", rounds - 1)

-----------------------------------------------------------------------------
(* A round of the vector cores, one instruction here: the scores of the workspace
   become probabilities in place, and sections that continue or end their rows
   leave diagonal matrices. *)
VectorRound(g, core, round) ==
  LET halves == IF VectorRuns(g, core, round) THEN ToSet(VectorHalves(g, core, round)) ELSE {}
      scores == UNION {{<<"gm_S", h.at + c>> : c \in 0 .. h.kx - 1} : h \in halves}
      diags == {<<"rowmax_diag", h.diag>> : h \in {x \in halves : ~x.head}}
                 \union {<<"rowsum_diag", h.diag>> : h \in {x \in halves : x.tail}}
  IN Await(AIV, AIC, "AIC2AIV")
       \o Exec(AIV, "MTE3", scores, scores \union diags)
       \o Signal(AIV, "MTE3", AIC, "AIV2AIC")

-----------------------------------------------------------------------------
(* The instructions of one turn, appended to those so far.  A vector core's round
   stands where the matrix core waits for it: that is the order in which the two
   read and overwrite what they share. *)
DoSections(Section(_, _), After(_, _), acc, ss) ==
  FoldLeft(LAMBDA a, s : [program |-> a.program \o Section(s, a.at), at |-> After(s, a.at)],
           acc, ss)

DoTurn(g, core, acc, turn) ==
  LET ss == IF CubeRuns(g, core, turn.round) THEN CubeSections(g, core, turn.round) ELSE <<>>
  IN CASE turn.do = "cube1" -> DoSections(Cube1Section, AfterCube1, acc, ss)
       [] turn.do = "cube2" -> DoSections(Cube2Section, AfterCube2, acc, ss)
       [] turn.do = "signal" ->
            [acc EXCEPT !.program = @ \o Signal(AIC, "FIX", AIV, "AIC2AIV")]
       [] turn.do = "await" ->
            [acc EXCEPT !.program =
               @ \o VectorRound(g, core, turn.round) \o Await(AIC, AIV, "AIV2AIC")]

LaserCore(g, core) ==
  PresetFlag
    \o FoldLeft(LAMBDA acc, turn : DoTurn(g, core, acc, turn),
                [program |-> <<>>,
                 at |-> [l1a |-> 0, l1b |-> 0, l0a |-> 0, l0b |-> 0, l0c |-> 0]],
                CubeTurns(CubeRounds(g))).program
    \o ClearFlag
=============================================================================
