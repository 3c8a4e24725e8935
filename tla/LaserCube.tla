----------------------------- MODULE LaserCube ------------------------------
(***************************************************************************)
(* The matrix core of laser_attention (op_kernel/CubeForward.h): score     *)
(* blocks Q * K of one round into the workspace (cube1), and the weighted  *)
(* sum of the values P * V of an earlier round onto the output (cube2),    *)
(* which diag_matmul rescales before a section that continues a row and    *)
(* divides by the row sum after a section that ends one.                   *)
(*                                                                         *)
(* The operators give the instructions of one section.  Ping-pong flags    *)
(* flip once a turn, so a flag is the parity of the turns taken before;    *)
(* at counts them: [l1a, l1b, l0a, l0b, l0c].  A section s is one of       *)
(* LaserAddress!CubeSections.  The copy out of the accumulator (FIX) is    *)
(* synchronised with the matrix unit by the unit flag of the hardware,     *)
(* which is written here as two flags of its own: full, and free again.    *)
(* The mask flags upper_right and lower_left are never set: the host       *)
(* launches the kernel without the triangle.                               *)
(***************************************************************************)
EXTENDS AscendInstructions, LaserAddress

CExec(pipe, reads, writes) == Exec(AIC, pipe, reads, writes)
CSet(src, dst, id) == SetFlag(AIC, src, dst, id)
CWait(src, dst, id) == WaitFlag(AIC, src, dst, id)
CSetWait(src, dst, id) == SetWait(AIC, src, dst, id)

(* Seq(0) \o ... \o Seq(n - 1) *)
Turns(n, Part(_)) == FlattenSeq([t \in 1 .. n |-> Part(t - 1)])

L1A(i) == <<"l1a", i % 2>>
L1B(i) == <<"l1b", i % 2>>
L0A(i) == <<"l0a", i % 2>>
L0B(i) == <<"l0b", i % 2>>
L0C(i) == <<"l0c", i % 2>>

(* Blocks of the workspace, rows of the output, diagonal matrices. *)
Score(s, n, m) == <<"gm_S", s.left + m * s.kx + n>>
Output(s, m) == <<"gm_O", s.b, s.n, s.row + m>>
Diag(kind, s, m) == <<kind, s.diag + m>>

(* mad checks the unit flag before its first accumulation and sets it after
   its last; the copy out waits for it and clears it. *)
MadUnchecked(c) == <<>>
MadFirst(c) == CWait("FIX", "M", c % 2)
MadLast(c) == CSet("M", "FIX", c % 2)
CopyOut(c, dst) ==
  CWait("M", "FIX", c % 2)
    \o CExec("FIX", {L0C(c)}, {dst})
    \o CSet("FIX", "M", c % 2)

PresetTooFew ==
  Turns(4, LAMBDA i : CSet("MTE1", "MTE2", i)) \o Turns(4, LAMBDA i : CSet("M", "MTE1", i))

PresetFlag ==
  Turns(4, LAMBDA i : CSet("MTE1", "MTE2", i))
    \o Turns(4, LAMBDA i : CSet("M", "MTE1", i))
    \o Turns(2, LAMBDA c : CSet("FIX", "M", c))

ClearFlag ==
  Turns(4, LAMBDA i : CWait("MTE1", "MTE2", i))
    \o Turns(4, LAMBDA i : CWait("M", "MTE1", i))
    \o Turns(2, LAMBDA c : CWait("FIX", "M", c))

-----------------------------------------------------------------------------
(* One product of 128 x 128 blocks of cube1_base_matmul: row m of the section
   times the column in L0B b. *)
Cube1Product(s, at, n, m) ==
  LET t == at.l0a + n * s.ky + m
      c == at.l0c + n * s.ky + m
      b == at.l0b + n
  IN CWait("M", "MTE1", t % 2)
       \o CExec("MTE1", {L1A(at.l1a)}, {L0A(t)})
       \o CSetWait("MTE1", "M", t % 2)
       \o MadFirst(c)
       \o CExec("M", {L0A(t), L0B(b)}, {L0C(c)})
       \o MadLast(c)
       \o CSet("M", "MTE1", t % 2)
       \o CopyOut(c, Score(s, n, m))

Cube1BaseMatmul(s, at, n) ==
  LET b == at.l0b + n
  IN CWait("M", "MTE1", (b % 2) + 2)
       \o CExec("MTE1", {L1B(at.l1b + n)}, {L0B(b)})
       \o CSetWait("MTE1", "M", (b % 2) + 2)
       \o Turns(s.ky, LAMBDA m : Cube1Product(s, at, n, m))
       \o CSet("M", "MTE1", (b % 2) + 2)

Cube1Column(s, at, n) ==
  LET k == (at.l1b + n) % 2
  IN CWait("MTE1", "MTE2", k)
       \o CExec("MTE2", {}, {L1B(k)})
       \o CSetWait("MTE2", "MTE1", k)
       \o Cube1BaseMatmul(s, at, n)
       \o CSet("MTE1", "MTE2", k)

Cube1Section(s, at) ==
  LET a == (at.l1a % 2) + 2
  IN CWait("MTE1", "MTE2", a)
       \o CExec("MTE2", {}, {L1A(at.l1a)})
       \o CSetWait("MTE2", "MTE1", a)
       \o Turns(s.kx, LAMBDA n : Cube1Column(s, at, n))
       \o CSet("MTE1", "MTE2", a)

AfterCube1(s, at) ==
  [l1a |-> at.l1a + 1, l1b |-> at.l1b + s.kx, l0b |-> at.l0b + s.kx,
   l0a |-> at.l0a + s.kx * s.ky, l0c |-> at.l0c + s.kx * s.ky]

-----------------------------------------------------------------------------
(* The accumulators of row m in cube2 and diag_matmul: pong for the first. *)
Acc(m) == IF m = 0 THEN 1 ELSE 0

(* Instructions that use both halves of a buffer of L0. *)
Whole(l0) == {<<l0, 0>>, <<l0, 1>>}

MatmulFp32(s, kind, y, copy_out) ==
  LET ping == IF y = 0 THEN 0 ELSE 1
  IN CSetWait("MTE1", "MTE2", 7)
       \o CExec("MTE2", {Diag(kind, s, y)}, {<<"diag", ping>>})
       \o CExec("MTE2", {Output(s, y)}, {<<"attention", ping>>})
       \o CSetWait("MTE2", "MTE1", 7)
       \o CSetWait("M", "MTE1", 7)
       \o CExec("MTE1", {<<"diag", ping>>}, Whole("l0a"))
       \o CExec("MTE1", {<<"attention", ping>>}, Whole("l0b"))
       \o CSetWait("MTE1", "M", 7)
       \o MadFirst(Acc(y))
       \o CExec("M", Whole("l0a") \union Whole("l0b"), {L0C(Acc(y))})
       \o (IF copy_out THEN MadLast(Acc(y)) \o CopyOut(Acc(y), Output(s, y)) ELSE <<>>)
       \o CSetWait("M", "MTE1", 7)

DiagMatmul(s, kind, copy_out) ==
  CSetWait("M", "MTE2", 7)
    \o CSetWait("FIX", "MTE2", 7)
    \o Turns(2, LAMBDA y : MatmulFp32(s, kind, y, copy_out))

(* Row j of a turn of cube2: the product of the scores in L1A with the values in
   L0B is added to the accumulator of the row. *)
Cube2Product(s, at, i, j) ==
  LET t == at.l0a + i * s.ky + j
      last_k == i = s.kx - 1
      init == i = 0 /\ s.start
  IN CWait("M", "MTE1", t % 2)
       \o CExec("MTE1", {L1A(at.l1a + i)}, {L0A(t)})
       \o CSetWait("MTE1", "M", t % 2)
       \o (IF init THEN MadFirst(Acc(j)) ELSE <<>>)
       \o CExec("M", {L0A(t), L0B(at.l0b + i)} \union (IF init THEN {} ELSE {L0C(Acc(j))}),
                {L0C(Acc(j))})
       \o (IF last_k
           THEN MadLast(Acc(j)) \o CopyOut(Acc(j), Output(s, j)) \o CSetWait("M", "MTE2", 7)
           ELSE <<>>)
       \o CSet("M", "MTE1", t % 2)

Cube2Turn(s, at, i) ==
  LET a == (at.l1a + i) % 2
      v == (at.l1b + i) % 2
      b == (at.l0b + i) % 2
  IN CWait("MTE1", "MTE2", v)
       \o CWait("MTE1", "MTE2", a + 2)
       \o CExec("MTE2", {Score(s, i, m) : m \in 0 .. 1}, {L1A(a)})
       \o CExec("MTE2", {}, {L1B(v)})
       \o CSetWait("MTE2", "MTE1", v)
       \o CSetWait("MTE2", "MTE1", a + 2)
       \o CWait("M", "MTE1", b + 2)
       \o CExec("MTE1", {L1B(v)}, {L0B(b)})
       \o CSetWait("MTE1", "M", b + 2)
       \o Turns(s.ky, LAMBDA j : Cube2Product(s, at, i, j))
       \o CSet("M", "MTE1", b + 2)
       \o CSet("MTE1", "MTE2", v)
       \o CSet("MTE1", "MTE2", a + 2)

Cube2Section(s, at) ==
  (IF s.start THEN <<>> ELSE DiagMatmul(s, "rowmax_diag", FALSE))
    \o Turns(s.kx, LAMBDA i : Cube2Turn(s, at, i))
    \o (IF s.end THEN DiagMatmul(s, "rowsum_diag", TRUE) ELSE <<>>)

AfterCube2(s, at) ==
  [l1a |-> at.l1a + s.kx, l1b |-> at.l1b + s.kx, l0b |-> at.l0b + s.kx,
   l0a |-> at.l0a + s.kx * s.ky, l0c |-> at.l0c + s.kx * s.ky]
=============================================================================
