---------------------------- MODULE MCOperators ----------------------------
(* Calls of the operators for TLC.  A script with one call runs the kernel's program
   at a small geometry; scripts of several calls run a kernel of one instruction and
   are about what the host makes of real shapes. *)
EXTENDS OperatorResults, TLC

Cube == INSTANCE LaserKernel
Vector == INSTANCE LaserVector WITH VectorLines <- 4, RowPerTime <- 1, RowsPerDiag <- 2
Estimate == INSTANCE SparseEstimate WITH Pieces <- 2, Parts <- 1, MaskRows <- 2
AdaSparse == INSTANCE AdaKernel WITH Pieces <- 2

-----------------------------------------------------------------------------
(* Shapes at which the kernels' programs are run. *)
SmallCube ==
  [cores |-> 1, perCore |-> 4, ky |-> 2, rows |-> 2, cols |-> 5, heads |-> 1, batches |-> 1]

Section(head, tail, half) ==
  Vector!VectorSection(AIV, [head |-> head, tail |-> tail, half |-> half, diag |-> half])

SmallPad(bf16) ==
  [aiv |-> 1, ub |-> IF bf16 THEN 1792 ELSE 768, b |-> 2, n |-> 1, bf16 |-> bf16, align |-> 4,
   lengths |-> <<3, 4, 2>>]

Sparse1 ==
  [aiv |-> 1, b |-> 1, n |-> 1, q |-> 2048, kv |-> 9000, stride |-> 8, sparse |-> 128,
   causal |-> FALSE, walk |-> TRUE, threshold |-> <<9, 10>>, rowSparse |-> <<1, 1>>,
   sink |-> TRUE, recent |-> TRUE]

SparseProgram(r) ==
  LET s == Sparse!Shrink(Sparse!Sizes0, r)
  IN Estimate!SparseCore(s, r, Sparse!BlocksOf(s, r, Sparse!SplitNS(s, r), 0))

(* The dimensions of a tensor of b batches, n heads, s rows and 128 columns a head. *)
Dims(layout, b, n, s) ==
  CASE layout \in {"BNSD", "BNSD_BSND"} -> <<b, n, s, 128>>
    [] layout = "BSND" -> <<b, s, n, 128>>
    [] layout \in {"NSD", "NTD_TND"} -> <<n, b * s, 128>>
    [] layout = "SH" -> <<b * s, n * 128>>
    [] OTHER -> <<b, s, n * 128>>

AdaArgs(aiv, layout, type, b, n, nk, q, kv, causal, kept) ==
  LET keys == Dims(layout, b, IF nk = 0 THEN n ELSE nk, kv)
  IN [aiv |-> aiv, query |-> Dims(layout, b, n, q), key |-> keys, value |-> keys, layout |-> layout,
      type |-> type, heads |-> n, keyHeads |-> nk, precise |-> 1, sparse |-> 128, causal |-> causal,
      lengths |-> <<>>, lengthsKV |-> <<>>, kept |-> kept]

(* One core and two heads: a row of three steps, then one of a single step. *)
SmallAda(type) ==
  AdaArgs(1, "BNSD", type, 1, 2, 2, 100, 3000, FALSE,
          [x \in {0} \X (0 .. 1) \X {0} |-> IF x[2] = 0 THEN 0 .. 20 ELSE {3, 7}])

AdaProgram(a) ==
  LET r == AdaSparse!Request(a) IN AdaSparse!AdaCore(r, AdaSparse!TasksOf(r, 0))

P1 == Cube!LaserCore(SmallCube, 0)
P2 == Section(TRUE, FALSE, 0) \o Section(TRUE, FALSE, 1) \o Section(FALSE, TRUE, 0)
P3 == Section(FALSE, FALSE, 0) \o Section(FALSE, FALSE, 1) \o Section(FALSE, FALSE, 0)
P4 == Pre!PreprocessCore(SmallPad(TRUE), 0)
P5 == Pre!PreprocessCore(SmallPad(FALSE), 0)
P6 == SparseProgram(Sparse1)
P7 == SparseProgram([Sparse1 EXCEPT !.n = 2, !.q = 1000, !.kv = 1000, !.causal = TRUE])
P8 == SparseProgram([Sparse1 EXCEPT !.walk = FALSE])
P9 == AdaProgram(SmallAda("BFloat16"))
P10 == AdaProgram(SmallAda("Half"))
P11 == Exec(AIV, "V", {}, {<<"out">>})

MCKernels == {"idle", "cube", "head", "tail", "cast", "move", "steps", "parity", "default",
              "float", "half", "one"}
MCProgram ==
  LET Of(k) == CASE k = "idle" -> <<>>
      [] k = "cube" -> P1
      [] k = "head" -> P2
      [] k = "tail" -> P3
      [] k = "cast" -> P4
      [] k = "move" -> P5
      [] k = "steps" -> P6
      [] k = "parity" -> P7
      [] k = "default" -> P8
      [] k = "float" -> P9
      [] k = "half" -> P10
      [] k = "one" -> P11
  IN [k \in MCKernels |-> Of(k)]
MCUnordered ==
  [k \in MCKernels |->
    CASE k = "head" -> {<<"V", "MTE2", <<AIV, "score", i>>>> : i \in 0 .. 1}
      [] k \in {"cast", "move"} -> Pre!UnorderedZeros
      [] k = "parity" -> Estimate!UnorderedQueries
      [] k = "default" -> Estimate!UnorderedScores
      [] k \in {"float", "half"} -> AdaSparse!UnorderedSeconds
      [] OTHER -> {}]

-----------------------------------------------------------------------------
(* Where operators are found: in the vendor's library, named by the line of
   config.ini that gives the priority or by its last line; in none, since a newline
   ends the file; in a library of the user's. *)
Ours == {"LaserAttention", "LaPreprocess", "SparseBlockEstimate", "AdaBlockSparseAttention"}
Theirs == {"BlockSparseAttention", "RainFusionAttention", "AdaLayerNormV2", "LayerNormWithImplMode"}
Functions(ops) == UNION {{<<op, "GetWorkspaceSize">>, <<op, "">>} : op \in ops}
HugeMem == {<<"InitHugeMemThreadLocal">>, <<"UnInitHugeMemThreadLocal">>, <<"ReleaseHugeMem">>}

Toolkit == <<OpApiLib>> :> (Functions(Theirs) \union HugeMem)
Vendor == <<"vendors", "mindie">> :> Functions(Ours)
Line(priority, vendors) == [priority |-> priority, vendors |-> vendors]

Installed ==
  [custom |-> <<>>, libs |-> Vendor @@ Toolkit,
   config |-> <<Line(FALSE, <<"comment">>), Line(TRUE, <<"other", "mindie">>), Line(FALSE, <<"">>)>>]
LastLine == [Installed EXCEPT !.config = <<Line(FALSE, <<"comment">>), Line(FALSE, <<"mindie">>)>>]
Ended == [Installed EXCEPT !.config = <<Line(FALSE, <<"mindie">>), Line(FALSE, <<"">>)>>]
OfTheUser ==
  [custom |-> <<"a", "b">>, config |-> <<>>,
   libs |-> (<<"custom", "b">> :> Functions(Ours)) @@ Toolkit]

-----------------------------------------------------------------------------
(* Calls. *)
Plain(op, request, program) ==
  [op |-> op, dims |-> <<4, 4, 4>>, types |-> <<"BFloat16", "BFloat16", "BFloat16">>,
   layouts |-> <<"BNSD", "BNSD">>, lengths |-> FALSE, heads |-> 4, sparse |-> 128, align |-> 256,
   request |-> request, kernel |-> program]

La(aic, b, n, nk, q, kv) ==
  Plain("LaserAttention", [aic |-> aic, b |-> b, n |-> n, nk |-> nk, q |-> q, kv |-> kv], "one")
Pad(n, bf16, lengths) ==
  Plain("LaPreprocess",
        [aiv |-> 40, ub |-> 196608, b |-> 1, n |-> n, bf16 |-> bf16, align |-> 256, lengths |-> lengths],
        "one")
Est(aiv, b, n, q, causal) ==
  Plain("SparseBlockEstimate",
        [Sparse1 EXCEPT !.aiv = aiv, !.b = b, !.n = n, !.q = q, !.kv = q, !.causal = causal], "one")

(* The blocks of keys a mask keeps: none, a few, or nearly all. *)
KeptBlocks(b, n, q, kv, causal) ==
  [x \in (0 .. b - 1) \X (0 .. n - 1) \X (0 .. (q - 1) \div 128) |->
    {g \in 0 .. (kv - 1) \div 128 :
      /\ (g * (x[2] + 2) + x[3] + x[1]) % 3 # 0 \/ g = x[3]
      /\ causal => g <= x[3]}]

Ada1(layout, b, n, nk, q, kv, causal) ==
  AdaArgs(4, layout, "BFloat16", b, n, nk, q, kv, causal, KeptBlocks(b, n, q, kv, causal))
AdaOf(args) ==
  [Plain("AdaBlockSparseAttention", args, "one") EXCEPT
     !.types = <<args.type, args.type, args.type>>, !.layouts = <<args.layout, args.layout>>]

Running1(c, program) == [env |-> Installed, calls |-> <<[c EXCEPT !.kernel = program]>>]

(* One call each: the programs of the kernels, and shapes of the sparse attention. *)
SingleCalls ==
  <<<<La(20, 1, 2, 2, 600, 4200), "cube">>, <<La(20, 1, 2, 2, 600, 4200), "head">>,
    <<La(20, 1, 2, 2, 600, 4200), "tail">>,
    <<Pad(24, TRUE, <<3000, 2900, 2900>>), "cast">>, <<Pad(24, FALSE, <<3000, 2900, 2900>>), "move">>,
    <<Est(40, 1, 4, 9000, FALSE), "steps">>, <<Est(40, 1, 4, 9000, FALSE), "parity">>,
    <<Est(40, 1, 4, 9000, FALSE), "default">>,
    <<AdaOf(SmallAda("BFloat16")), "float">>, <<AdaOf(SmallAda("Half")), "half">>,
    <<AdaOf(Ada1("BNSD", 1, 2, 1, 600, 2500, FALSE)), "one">>,
    <<AdaOf([Ada1("BSH", 2, 2, 2, 300, 1500, FALSE) EXCEPT
        !.type = "Half", !.lengths = <<200, 300>>, !.lengthsKV = <<1450>>]), "one">>,
    <<AdaOf(Ada1("BNSD_BSND", 1, 2, 2, 1300, 1300, TRUE)), "one">>,
    <<AdaOf([Ada1("BNSD", 1, 2, 0, 300, 1300, FALSE) EXCEPT !.aiv = 5, !.kept[<<0, 1, 1>>] = {}]), "one">>,
    <<AdaOf([Ada1("BNSD", 1, 2, 2, 300, 300, FALSE) EXCEPT !.type = "Half", !.precise = 0]), "one">>,
    <<AdaOf([Ada1("BNSD", 1, 2, 2, 300, 300, FALSE) EXCEPT !.layout = "NSD"]), "one">>,
    <<AdaOf([Ada1("BSND", 2, 2, 1, 200, 200, FALSE) EXCEPT !.aiv = 2]), "one">>,
    <<AdaOf([Ada1("NSD", 1, 3, 3, 200, 400, FALSE) EXCEPT !.lengthsKV = <<390>>]), "one">>,
    <<AdaOf([Ada1("SH", 1, 2, 2, 300, 300, FALSE) EXCEPT !.lengths = <<300>>]), "one">>,
    <<AdaOf([Ada1("BSND", 1, 2, 1, 260, 500, FALSE) EXCEPT !.layout = "SBH"]), "one">>,
    <<AdaOf([Ada1("NTD_TND", 2, 2, 2, 200, 200, FALSE) EXCEPT !.lengths = <<150, 400>>,
               !.lengthsKV = <<200, 400>>]), "one">>,
    <<AdaOf(Ada1("BNSD", 1, 2, 2, 300, 0, FALSE)), "one">>,
    <<AdaOf([Ada1("BNSD", 1, 2, 1, 3072, 3072, FALSE) EXCEPT
               !.kept = [x \in DOMAIN @ |-> {x[3] % 5, 11 + x[2], 23}]]), "one">>>>

MCScripts ==
  LET Singles == [i \in DOMAIN SingleCalls |-> Running1(SingleCalls[i][1], SingleCalls[i][2])]
      Several ==
        <<[env |-> Installed, calls |->
             <<La(24, 1, 3, 3, 256, 300), La(20, 2, 2, 1, 500, 17000), La(25, 1, 4, 4, 300, 4000)>>],
          [env |-> LastLine, calls |->
             <<Pad(5, TRUE, <<1000, 77, 77>>), Pad(256, TRUE, <<10, 10, 10>>),
               Pad(64, FALSE, <<513, 513, 513>>)>>],
          [env |-> OfTheUser, calls |->
             <<Est(40, 1, 5, 9000, FALSE), Est(48, 1, 2, 1000, TRUE), Est(50, 1, 3, 1700, FALSE),
               [Est(40, 1, 3, 1900, TRUE) EXCEPT !.request.rowSparse = <<1, 2>>, !.request.recent = FALSE]>>],
          [env |-> Installed, calls |->
             <<[La(24, 1, 3, 3, 256, 300) EXCEPT !.dims = <<3, 4, 4>>],
               [Est(40, 1, 2, 1000, TRUE) EXCEPT !.types[1] = "Float8_e4m3fn"],
               [Est(40, 1, 2, 1000, TRUE) EXCEPT !.types[2] = "QInt8"],
               [Est(40, 1, 2, 1000, TRUE) EXCEPT !.layouts[1] = "SBH"]>>],
          [env |-> Ended, calls |->
             <<La(24, 1, 3, 3, 256, 300), Plain("RainFusionAttention", <<>>, "one")>>],
          [env |-> Installed, calls |->
             <<[Plain("BlockSparseAttention", <<>>, "one") EXCEPT !.layouts = <<"TND", "TND">>],
               Plain("LayerNormWithImplMode", <<>>, "one"), La(24, 0, 3, 3, 256, 300),
               Plain("AdaLayerNormV2", <<>>, "one")>>]>>
  IN Singles \o Several

MCScores ==
  UNION {[1 .. n -> 0 .. 2] : n \in {1, 3, 5}}
=============================================================================
