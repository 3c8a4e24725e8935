--------------------------- MODULE OperatorPlugin ---------------------------
(***************************************************************************)
(* What the operator plug-in does for a call before the operator's library *)
(* is asked (csrc/plugin): it looks the operator's functions up, checks    *)
(* some of the arguments and shapes the outputs.                           *)
(*                                                                         *)
(* An environment is [custom, config, libs]: the paths of                  *)
(* ASCEND_CUSTOM_OPP_PATH; the pieces between the newlines of              *)
(* $ASCEND_OPP_PATH/vendors/config.ini, each [priority, vendors], or none  *)
(* if there is no such file; and what each library exports, by its path.   *)
(*                                                                         *)
(* A call is [op, dims, types, layouts, lengths, heads, sparse, align,     *)
(* request, kernel]: the operator, the dimensions of query, key and value, *)
(* the element types of its tensors, the layouts of query and key, whether *)
(* sequence lengths are passed, the arguments of that name, what the       *)
(* library's tiling sees, and the program its kernel is.                   *)
(***************************************************************************)
EXTENDS Integers, Sequences, SequencesExt

OpApiLib == "libopapi.so"

-----------------------------------------------------------------------------
(* find_op_path.cpp *)
(* The first line that starts with load_priority=; if there is none, what was read
   last, which is the last line unless a newline ends it. *)
ReadLoadPriorityLine(pieces) ==
  LET found == SelectSeq(pieces, LAMBDA piece : piece.priority)
  IN IF found # <<>> THEN found[1] ELSE pieces[Len(pieces)]

GetCustomLibPath(env) == [i \in DOMAIN env.custom |-> <<"custom", env.custom[i]>>]

GetDefaultCustomLibPath(env) ==
  IF env.config = <<>> THEN <<>>
  ELSE LET vendors == ReadLoadPriorityLine(env.config).vendors
       IN [i \in DOMAIN vendors |-> <<"vendors", vendors[i]>>]

(* pytorch_npu_helper.h: where a function is found, at most one place. *)
Exports(env, path, api) == path \in DOMAIN env.libs /\ api \in env.libs[path]

GetOpApiFuncAddr(env, api) ==
  LET paths == GetCustomLibPath(env) \o GetDefaultCustomLibPath(env) \o <<<<OpApiLib>>>>
      found == SelectSeq(paths, LAMBDA path : Exports(env, path, api))
  IN IF found = <<>> THEN {} ELSE {found[1]}

ValidateApiAddresses(env, op) ==
  /\ GetOpApiFuncAddr(env, <<op, "GetWorkspaceSize">>) # {}
  /\ GetOpApiFuncAddr(env, <<op, "">>) # {}

HasFunction(env, api) == GetOpApiFuncAddr(env, <<api>>) # {}

-----------------------------------------------------------------------------
(* The checks of an operator's own file. *)
CheckLa(c) == c.dims[1] = 4

CheckLaPreprocess(c) == c.align > 0 /\ \A i \in 1 .. 3 : c.dims[i] = 4

CheckSparseBlockEstimate(c) == c.heads # 0 /\ c.sparse # 0

CheckAdaBlockSparseAttention(c) == c.layouts[1] # "TND"

CheckBlockSparseAttention(c) ==
  /\ \A i \in 1 .. 2 : c.layouts[i] \in {"TND", "BNSD"}
  /\ c.layouts[1] = c.layouts[2]
  /\ c.layouts[1] = "TND" => c.lengths

CheckRainFusionAttention(c) == \A i \in 1 .. 2 : c.layouts[i] \in {"TND", "BNSD"}

CheckAdaLayerNormV2(c) == c.dims[1] = 3

PluginChecks(c) ==
  CASE c.op = "LaserAttention" -> CheckLa(c)
    [] c.op = "LaPreprocess" -> CheckLaPreprocess(c)
    [] c.op = "SparseBlockEstimate" -> CheckSparseBlockEstimate(c)
    [] c.op = "AdaBlockSparseAttention" -> CheckAdaBlockSparseAttention(c)
    [] c.op = "BlockSparseAttention" -> CheckBlockSparseAttention(c)
    [] c.op = "RainFusionAttention" -> CheckRainFusionAttention(c)
    [] c.op = "AdaLayerNormV2" -> CheckAdaLayerNormV2(c)
    [] c.op \in {"AdaLayerNorm", "LayerNormWithImplMode"} -> TRUE

(* A layout the estimate does not know is reported, and the outputs get the sizes
   that are in the uninitialised variables: allocating them may fail. *)
ShapesKnown(c) ==
  c.op = "SparseBlockEstimate" => c.layouts[1] \in {"BNSD", "BSND", "BSH"}

(* ConvertType.  The table names the types up to number 19; later ones, the 8-bit
   floats among them, find the zeros behind it, which stand for float. *)
Undefined == {"ComplexHalf", "QInt8", "QUInt8", "QInt32", "QUInt4x2", "QUInt2x4"}
Named == {"Half", "BFloat16", "Float", "Double", "Long", "Int", "Bool", "Char"}
AclType(type) == IF type \in Named THEN type ELSE "Float"

ConvertTypes(c) == {c.types[i] : i \in DOMAIN c.types} \intersect Undefined = {}

-----------------------------------------------------------------------------
(* Rows of the outputs: of each of la_preprocess, and of the mask. *)
PaddedRows(length, align) == ((length + align - 1) \div align) * align

MaskShape(r) ==
  LET rows == (r.q + r.sparse - 1) \div r.sparse
  IN [rows |-> r.b * r.n * rows, columns |-> ((rows + 31) \div 32) * 32]
=============================================================================
