---------------------------- MODULE LaserAddress ----------------------------
(***************************************************************************)
(* Which blocks of the attention matrix a core of laser_attention works on *)
(* in a round, and where it puts them                                      *)
(* (op_kernel/AddressMappingForwardOnline.h for the matrix core,           *)
(* op_kernel/AddressMappingVectorForwardOnline.h for its vector cores).    *)
(* Each of the two works the mapping out by itself; nothing but the        *)
(* agreement of the two makes a vector core find its scores and the matrix *)
(* core its diagonal matrices.                                             *)
(*                                                                         *)
(* A geometry g is                                                         *)
(*   cores            cores of this kind that the mapping counts,          *)
(*   perCore, ky      blocks of a round, and rows of blocks of a section,  *)
(*   rows, cols       blocks of one head's matrix,                         *)
(*   heads, batches   how many matrices there are.                         *)
(* Addresses are counted in blocks of 128 x 128.  The triangular mapping   *)
(* is left out: the host launches the kernel without it.                   *)
(***************************************************************************)
EXTENDS Integers, Sequences, FiniteSets, SequencesExt

MaxSwitchTime == 8 \* sections a round may fall into: MAX_SWITCH_TIME

Least(a, b) == IF a < b THEN a ELSE b

CeilOf(a, b) == (a + b - 1) \div b

-----------------------------------------------------------------------------
(* set_tiling: what is derived from the shape. *)
Kx(g) == g.perCore \div g.ky
BlocksPerHead(g) == g.rows * g.cols
BlocksPerBatch(g) == g.heads * BlocksPerHead(g)
TotalBlocks(g) == g.batches * BlocksPerBatch(g)
TotalLines(g) == g.rows * g.heads * g.batches

CubeRounds(g) ==
  CeilOf(CeilOf(TotalLines(g), g.ky * g.cores) * g.ky * g.cols, g.perCore)

(* The first block of a core in a round. *)
OuterRow(g, round) == ((round * Kx(g)) \div g.cols) * (g.cores * g.cols * g.ky)
InnerCol(g, round) == (round * Kx(g)) % g.cols
FirstBlock(g, core, round) ==
  OuterRow(g, round) + core * g.ky * g.cols + InnerCol(g, round)

CubeRuns(g, core, round) == FirstBlock(g, core, round) < TotalBlocks(g)

(* Blocks a core has in all, and what is left of them for a round. *)
CoreBlocks(g, core) ==
  g.cols * g.ky
    * ((TotalLines(g) \div g.ky) \div g.cores
         + IF core < (TotalLines(g) % (g.cores * g.ky)) \div g.ky THEN 1 ELSE 0)

RoundBlocks(g, core, round) ==
  Least(g.perCore, CoreBlocks(g, core) - round * g.perCore)

FirstSection(g, core, round) ==
  LET first == FirstBlock(g, core, round)
  IN [b |-> first \div BlocksPerBatch(g),
      n |-> (first % BlocksPerBatch(g)) \div BlocksPerHead(g),
      iR |-> (OuterRow(g, round) \div g.cols + core * g.ky) % g.rows,
      iC |-> InnerCol(g, round),
      kx |-> RoundBlocks(g, core, round) \div g.ky,
      k |-> RoundBlocks(g, core, round)]

(* A section ends at the end of its rows of blocks; the next one starts the rows
   that are this core's next, in this head or a later one. *)
CutAtRow(g, s) ==
  LET kx == Least(s.kx, g.cols - s.iC)
  IN IF s.iC + s.kx > g.cols THEN [s EXCEPT !.kx = kx, !.k = kx * g.ky] ELSE s

NextSection(g, s, rest) ==
  LET row == s.iR + g.ky * g.cores
      head == s.n + row \div g.rows
  IN [b |-> s.b + head \div g.heads,
      n |-> head % g.heads,
      iR |-> row % g.rows,
      iC |-> 0,
      kx |-> rest \div g.ky,
      k |-> rest]

(* forward_addrMapping_pre: the sections of a core in a round. *)
Sections(g, core, round) ==
  LET Step(acc, i) ==
        IF acc.rest <= 0 THEN acc
        ELSE LET s == CutAtRow(g, acc.next)
                 rest == acc.rest - s.k
             IN [done |-> Append(acc.done, s), rest |-> rest,
                 next |-> NextSection(g, s, rest)]
  IN FoldLeft(Step,
              [done |-> <<>>, rest |-> RoundBlocks(g, core, round),
               next |-> FirstSection(g, core, round)],
              [i \in 1 .. MaxSwitchTime |-> i]).done

(* The blocks of the sections before section i, in the round's slot. *)
BlocksBefore(ss, i) == FoldLeft(+, 0, [h \in 1 .. i - 1 |-> ss[h].k])

Starts(s) == s.iC = 0
Ends(g, s) == s.iC + s.kx >= g.cols - 1

-----------------------------------------------------------------------------
(* The matrix core.  A product of cube1 or cube2 is one block: its place in the
   workspace, the block of the queries (or of the output) and of the keys (or of
   the values). *)
OneSlot(g, core, round) == core * g.perCore

CubeSlot(g, core, round) ==
  core * g.perCore + (IF round % 2 = 1 THEN g.cores * g.perCore ELSE 0)

(* addrMapping_rectangular_cube1, cube1_matmul_op: row m and column c of section i. *)
Cube1Blocks(g, core, round) ==
  LET ss == Sections(g, core, round)
  IN UNION {{[at |-> CubeSlot(g, core, round) + BlocksBefore(ss, i) + m * ss[i].kx + c,
              b |-> ss[i].b, n |-> ss[i].n, row |-> ss[i].iR + m, col |-> ss[i].iC + c] :
              m \in 0 .. g.ky - 1, c \in 0 .. ss[i].kx - 1} : i \in DOMAIN ss}

(* addrMapping_rectangular_cube2: what the matrix core adds to which row of the
   output, and the diagonal matrices it rescales it with. *)
CubeSections(g, core, round) ==
  LET ss == Sections(g, core, round)
  IN [i \in DOMAIN ss |->
       [left |-> CubeSlot(g, core, round) + BlocksBefore(ss, i),
        kx |-> ss[i].kx, ky |-> g.ky,
        b |-> ss[i].b, n |-> ss[i].n, row |-> ss[i].iR, col |-> ss[i].iC,
        start |-> Starts(ss[i]), end |-> Ends(g, ss[i]),
        diag |-> core * 2 * MaxSwitchTime * 2 + ((round % 2) * MaxSwitchTime + i - 1) * g.ky]]

(* The groups of heads that share keys and values: the head of K and V a section of
   head n reads.  group is how many heads the host counts to a group. *)
GqaHead(heads, group, n) == n \div (heads \div (heads \div group))

-----------------------------------------------------------------------------
(* The vector core. *)
VectorRounds(g) ==
  CeilOf(CeilOf(TotalLines(g), g.ky * g.cores) * g.ky * g.cols, g.perCore)

VectorRuns(g, core, round) == FirstBlock(g, core, round) < TotalBlocks(g)

(* forward_addrMapping_pre drops the sections that are empty. *)
VectorSections(g, core, round) ==
  SelectSeq(Sections(g, core, round), LAMBDA s : s.k # 0)

(* addrMapping_nomask: two sections, one per row of blocks, for each; at is the
   first block of the row in the workspace. *)
VectorHalves(g, core, round) ==
  LET ss == VectorSections(g, core, round)
      half(i, m) ==
        [at |-> (round % 2) * g.cores * g.perCore + core * g.perCore
                  + FoldLeft(+, 0, [h \in 1 .. i - 1 |-> 2 * ss[h].kx]) + m * ss[i].kx,
         kx |-> ss[i].kx, b |-> ss[i].b, n |-> ss[i].n, row |-> ss[i].iR + m, col |-> ss[i].iC,
         head |-> Starts(ss[i]), tail |-> Ends(g, ss[i]),
         diag |-> core * g.ky * MaxSwitchTime * 2 + ((round % 2) * MaxSwitchTime + i - 1) * 2 + m]
  IN [j \in 1 .. 2 * Len(ss) |-> half((j + 1) \div 2, (j - 1) % 2)]
=============================================================================
