----------------------------- MODULE Checkpoint -----------------------------
(***************************************************************************)
(* Loading a model: the two checkpoint formats (src/checkpoint/), the      *)
(* canonical configuration (src/config/model_config.cpp), the weights of   *)
(* Qwen3 and Qwen3.5 (src/model/), and the order in which                  *)
(* Worker::init_resources (src/worker/worker.cpp) uses them.               *)
(*                                                                         *)
(* A checkpoint is a record `file`.  A directory has config.json, `json`,  *)
(* a function from keys to values, and model.safetensors: the length of    *)
(* its header, the entries of the header by tensor name, and its size.  A  *)
(* .gguf file is a sequence of metadata entries, one of tensor infos, and  *)
(* its size.  Sizes and offsets are the bytes of the formats, so that a    *)
(* file can be cut short anywhere; the bytes of a tensor are a sequence of *)
(* numbers kept at the offset where they begin.  A value is [type, v].     *)
(***************************************************************************)
EXTENDS Integers, Sequences, SequencesExt, FiniteSetsExt, Functions, TLC

CONSTANTS Files,       \* the checkpoints as they were written
          Damaged(_)   \* what may be on disk instead of a file: with one defect

VARIABLES file,    \* the path the server is started with
          caller,  \* "worker", or "loader": a program that loads the weights only
          stage,   \* the step of the start that comes next
          reader,  \* GGUFReader: offset, metadata_, tensor_infos_, data_start_
          config,  \* ModelConfig
          plan,    \* the loads of Qwen3Weights::load or Qwen35Weights::load to come
          loaded,  \* the tensors loaded, by destination
          error    \* the ErrorCode of the start, "" if there is none

loadVars == <<file, caller, stage, reader, config, plan, loaded, error>>

-----------------------------------------------------------------------------
(* ModelConfig::validate. *)

Abs(n) == IF n < 0 THEN -n ELSE n

Qwen3Fields == {"n_layers", "n_q_heads", "n_kv_heads", "head_dim", "d_model", "d_ff",
                "vocab_size", "max_seq_len"}
SsmFields == {"full_attention_interval", "ssm_conv_kernel", "ssm_state_size",
              "ssm_group_count", "ssm_time_step_rank", "ssm_inner_size", "rotary_dim"}

Validate(c) ==
  /\ \A f \in Qwen3Fields \union {"rope_theta", "rms_norm_eps"} : c[f] > 0
  /\ c.n_kv_heads <= c.n_q_heads
  /\ c.n_q_heads % c.n_kv_heads = 0
  /\ c.arch = "qwen35" =>
       /\ \A f \in SsmFields : c[f] > 0
       /\ c.rotary_dim <= c.head_dim /\ c.rotary_dim % 2 = 0
       /\ c.ssm_inner_size % c.ssm_time_step_rank = 0
       /\ c.ssm_inner_size \div c.ssm_time_step_rank = c.ssm_state_size
       /\ Len(c.layer_types) = c.n_layers + c.nextn_predict_layers

-----------------------------------------------------------------------------
(* HfConfigLoader: config.json. *)

RequiredKeys == {"hidden_size", "num_attention_heads", "num_hidden_layers",
                 "intermediate_size", "vocab_size"}
OptionalInts == {"num_key_value_heads", "head_dim", "max_position_embeddings"}
OptionalFloats == {"rope_theta", "rms_norm_eps"}

FromJson(j) ==
  LET D == j["hidden_size"].v
      nq == j["num_attention_heads"].v
      Optional(key, default) == IF key \in DOMAIN j THEN j[key].v ELSE default
      head_dim == Optional("head_dim", D \div nq)
  IN  [arch |-> "qwen3", d_model |-> D, n_q_heads |-> nq,
       n_layers |-> j["num_hidden_layers"].v, d_ff |-> j["intermediate_size"].v,
       vocab_size |-> j["vocab_size"].v,
       n_kv_heads |-> Optional("num_key_value_heads", nq),
       head_dim |-> head_dim, rotary_dim |-> head_dim,
       max_seq_len |-> Optional("max_position_embeddings", 2048),
       rope_theta |-> Optional("rope_theta", 10000),
       rms_norm_eps |-> Optional("rms_norm_eps", 1)]

(* The error of from_json_impl, "" if it returns a configuration. *)
JsonError(j) ==
  IF "architectures" \notin DOMAIN j \/ j["architectures"].v # "Qwen3ForCausalLM"
  THEN "ModelUnsupportedArch"
  ELSE IF /\ \A key \in RequiredKeys :
               key \in DOMAIN j /\ j[key].type = "int" /\ j[key].v > 0
          /\ j["hidden_size"].v % j["num_attention_heads"].v = 0
          /\ \A key \in OptionalInts \intersect DOMAIN j : j[key].type = "int"
          /\ \A key \in OptionalFloats \intersect DOMAIN j : j[key].type \in {"int", "float"}
          /\ Validate(FromJson(j))
       THEN "" ELSE "ModelConfigInvalid"

-----------------------------------------------------------------------------
(* Reader: model.safetensors. *)

kHeaderSize == 8
SafetensorsStart(f) == kHeaderSize + f.header_len

SafetensorsParses(f) ==
  /\ f.size >= kHeaderSize
  /\ f.header_len > 0 /\ f.header_len <= f.size - kHeaderSize
  /\ DOMAIN f.tensors # {}
  /\ \A t \in Range(f.tensors) :
       /\ t.type \in {"BF16", "F16", "F32"}
       /\ t.begin <= t.end
       /\ t.end <= f.size - SafetensorsStart(f)

-----------------------------------------------------------------------------
(* GGUFReader. *)

ScalarBytes == [u8 |-> 1, i8 |-> 1, bool |-> 1, u16 |-> 2, i16 |-> 2, u32 |-> 4,
                i32 |-> 4, f32 |-> 4, u64 |-> 8, i64 |-> 8, f64 |-> 8]
StringBytes(len) == 8 + len

(* The bytes parse_value reads; an array of strings has their lengths. *)
ValueBytes(value) ==
  CASE value.type \in DOMAIN ScalarBytes -> ScalarBytes[value.type]
    [] value.type = "string" -> StringBytes(value.len)
    [] value.type = "array"  -> 4 + 8 + FoldLeft(LAMBDA sum, len : sum + StringBytes(len),
                                                 0, value.lens)

EntryBytes(e) == StringBytes(e.len) + 4 + ValueBytes(e.value)
InfoBytes(t) == StringBytes(t.len) + 4 + 8 * Len(t.dims) + 4 + 8

GgufTypes == {"F32", "F16", "Q8_0", "BF16"}
Align(offset) == ((offset + 31) \div 32) * 32

Numel(dims) == FoldLeft(LAMBDA n, d : n * d, 1, dims)
kQ8_0BlockSize == 32
kQ8_0BlockBytes == 34

(* tensor_bytes, 0 when it fails *)
TensorBytes(t) ==
  CASE t.type = "F32" -> Numel(t.dims) * 4
    [] t.type \in {"F16", "BF16"} -> Numel(t.dims) * 2
    [] t.type = "Q8_0" -> IF Last(Reverse(t.dims)) % kQ8_0BlockSize # 0 THEN 0
                          ELSE (Numel(t.dims) \div kQ8_0BlockSize) * kQ8_0BlockBytes

(* metadata: the first entry with the key *)
HasMetadata(key) == \E i \in DOMAIN reader.metadata : reader.metadata[i].key = key
Metadata(key) == reader.metadata[Min({i \in DOMAIN reader.metadata :
                                        reader.metadata[i].key = key})].value

FindTensor(name) ==
  {reader.infos[i] : i \in {j \in DOMAIN reader.infos :
     reader.infos[j].name = name /\ \A k \in 1 .. j - 1 : reader.infos[k].name # name}}

-----------------------------------------------------------------------------
(* GgufConfigLoader. *)

GgufInts == {"block_count", "embedding_length", "feed_forward_length", "head_count",
             "head_count_kv", "key_length", "context_length", "full_attention_interval",
             "nextn_predict_layers", "ssm.conv_kernel", "ssm.state_size", "ssm.group_count",
             "ssm.time_step_rank", "ssm.inner_size", "rope.dimension_count"}
GgufFloats == {"rope.freq_base", "rms_epsilon"}

LayerType(i, interval) ==
  IF interval > 0 /\ i % interval = interval - 1 THEN "FullAttention" ELSE "GatedDeltaNet"

MainLayers(blocks, nextn) == blocks - nextn

FromMetadata ==
  LET g(key) == Metadata(key).v
      n_layers == MainLayers(g("block_count"), g("nextn_predict_layers"))
  IN  [arch |-> "qwen35", n_layers |-> n_layers, n_q_heads |-> g("head_count"),
       n_kv_heads |-> g("head_count_kv"), head_dim |-> g("key_length"),
       d_model |-> g("embedding_length"), d_ff |-> g("feed_forward_length"),
       max_seq_len |-> g("context_length"),
       full_attention_interval |-> g("full_attention_interval"),
       nextn_predict_layers |-> g("nextn_predict_layers"),
       ssm_conv_kernel |-> g("ssm.conv_kernel"), ssm_state_size |-> g("ssm.state_size"),
       ssm_group_count |-> g("ssm.group_count"),
       ssm_time_step_rank |-> g("ssm.time_step_rank"),
       ssm_inner_size |-> g("ssm.inner_size"), rotary_dim |-> g("rope.dimension_count"),
       rope_theta |-> g("rope.freq_base"), rms_norm_eps |-> g("rms_epsilon"),
       layer_types |->
         [i \in 1 .. n_layers |-> LayerType(i - 1, g("full_attention_interval"))]
           \o [i \in 1 .. g("nextn_predict_layers") |-> "MtpPredictor"],
       vocab_size |-> Last((CHOOSE t \in FindTensor(<<"token_embd">>) : TRUE).dims)]

(* as_string throws when the architecture is not a string, and nothing     *)
(* between GgufConfigLoader::load and main catches it.                     *)
ConfigThrows ==
  HasMetadata("architecture") /\ Metadata("architecture").type # "string"

(* The error of GgufConfigLoader::load, "" if it returns a configuration. *)
MetadataError ==
  IF ~HasMetadata("architecture") \/ Metadata("architecture").v # "qwen35"
  THEN "ModelUnsupportedArch"
  ELSE IF \/ \E key \in GgufInts :
               ~HasMetadata(key) \/ Metadata(key).type \notin {"u8", "u16", "u32", "u64"}
          \/ \E key \in GgufFloats :
               ~HasMetadata(key) \/ Metadata(key).type \notin {"f32", "f64"}
          \/ MainLayers(Metadata("block_count").v, Metadata("nextn_predict_layers").v) <= 0
       THEN "ModelConfigInvalid"
  ELSE IF FindTensor(<<"token_embd">>) = {} THEN "ModelLoadFailed"
  ELSE IF \/ /\ HasMetadata("tokens") /\ Metadata("tokens").type = "array"
             /\ Len(Metadata("tokens").lens) # FromMetadata.vocab_size
          \/ ~Validate(FromMetadata)
       THEN "ModelConfigInvalid" ELSE ""

-----------------------------------------------------------------------------
(* The weight sources.  GGUF stores the dimensions innermost first. *)

IsGguf == file.kind = "gguf"

Has(name) == IF IsGguf THEN FindTensor(name) # {} ELSE name \in DOMAIN file.tensors

Raw(name) == IF IsGguf THEN CHOOSE t \in FindTensor(name) : TRUE ELSE file.tensors[name]

(* Faulty variant: the dimensions are taken in the order of the file. *)
RawShape(dims) == dims
LogicalShape(dims) == Reverse(dims)

InfoShape(name) == IF IsGguf THEN LogicalShape(Raw(name).dims) ELSE Raw(name).shape

(* raw_tensor_data *)
DataOffset(name) == IF IsGguf THEN reader.data_start + Raw(name).offset
                    ELSE SafetensorsStart(file) + Raw(name).begin
Readable(name) == IsGguf => DataOffset(name) + TensorBytes(Raw(name)) <= file.size
GgufRead(name) == file.bytes[DataOffset(name)]

(* The loader of Qwen3 takes the address of the data and drops its length: *)
(* Tensor::from_host copies the bytes of the shape, whatever the entry's   *)
(* end says.  Past the end of the file they are the zeros of the last page *)
(* of the mapping, or the read faults.                                     *)
ShapeBytes(name) == 2 * Numel(Raw(name).shape)
BytesInFile(name) == file.size - DataOffset(name)
PastTheEnd(name) == ~IsGguf /\ ShapeBytes(name) > BytesInFile(name)
SafetensorsRead(name) ==
  LET data == file.bytes[DataOffset(name)]
  IN  [i \in DOMAIN data |->
         IF i * ShapeBytes(name) <= BytesInFile(name) * Len(data) THEN data[i] ELSE 0]

Read(name) == IF IsGguf THEN GgufRead(name) ELSE SafetensorsRead(name)

-----------------------------------------------------------------------------
(* The conversions of the Qwen3.5 loader.  A float is its sign and the     *)
(* other bits; a number of a Q8_0 tensor is the half-precision scale of    *)
(* its block, d_f16, and its factor q.                                     *)

Float(s, m) == [s |-> s, m |-> m]
SubnormalShift(mant) == CHOOSE n \in 1 .. 10 : mant * 2 ^ n \in 1024 .. 2047

half_to_float(h) ==
  LET s == h \div 32768
      exp == (h \div 1024) % 32
      mant == h % 1024
      shift == SubnormalShift(mant)
  IN  Float(s, CASE exp = 0 /\ mant = 0 -> 0
                 [] exp = 0 /\ mant # 0 ->
                      (127 - 14 - shift) * 2 ^ 23
                        + (((mant * 2 ^ shift) % 1024) * 2 ^ 13)
                 [] exp = 31 -> 255 * 2 ^ 23 + mant * 2 ^ 13
                 [] OTHER -> (exp + 127 - 15) * 2 ^ 23 + mant * 2 ^ 13)

(* The product of a float that came from a half with an 8-bit integer: it  *)
(* has at most 18 significant bits, so no rounding takes place.            *)
FloatTimes(f, q) ==
  LET product == ((2 ^ 23 + (f.m % 2 ^ 23)) \div 2 ^ 13) * Abs(q)
      k == CHOOSE n \in 0 .. 23 : product * 2 ^ n \in 2 ^ 23 .. 2 ^ 24 - 1
      sign == IF q < 0 THEN 1 - f.s ELSE f.s
  IN  IF f.m = 0 \/ q = 0 THEN Float(sign, 0)
      ELSE Float(sign, ((f.m \div 2 ^ 23) + 13 - k) * 2 ^ 23 + product * 2 ^ k - 2 ^ 23)

Dequantize(x) == FloatTimes(half_to_float(x.d_f16), x.q)

float_to_bfloat16(f) ==
  Float(f.s, (f.m + (2 ^ 15 - 1) + ((f.m \div 2 ^ 16) % 2)) \div 2 ^ 16)

Convert(kind, data) ==
  CASE kind \in {"bf16", "f32"} -> data
    [] kind = "f32_bf16" -> [i \in DOMAIN data |-> float_to_bfloat16(data[i])]
    [] kind \in {"q8_bf16", "q_gate"} ->
         [i \in DOMAIN data |-> float_to_bfloat16(Dequantize(data[i]))]

-----------------------------------------------------------------------------
(* What Qwen3Weights::load and Qwen35Weights::load ask of the source, in   *)
(* order.  A destination is a field of the weights, or a field of a layer. *)

Want(dst, name, shape, kind) ==
  [dst |-> dst, name |-> name, shape |-> shape, kind |-> kind, optional |-> FALSE]

(* lw.q_norm and lw.k_norm stay invalid when the checkpoint has no such    *)
(* tensor.                                                                 *)
WantIfAny(dst, name, shape) ==
  [dst |-> dst, name |-> name, shape |-> shape, kind |-> "bf16", optional |-> TRUE]

Qwen3Layer(c, l) ==
  LET D == c.d_model
      q_dim == c.n_q_heads * c.head_dim
      kv_dim == c.n_kv_heads * c.head_dim
      W(field, name, shape) == Want(<<l, field>>, <<l, name>>, shape, "bf16")
  IN  <<W("o", "o_proj", <<D, q_dim>>), W("gate", "gate_proj", <<c.d_ff, D>>),
        W("up", "up_proj", <<c.d_ff, D>>), W("down", "down_proj", <<D, c.d_ff>>),
        W("rms_attn", "input_layernorm", <<D>>),
        W("rms_ffn", "post_attention_layernorm", <<D>>),
        W("q", "q_proj", <<q_dim, D>>), W("k", "k_proj", <<kv_dim, D>>),
        W("v", "v_proj", <<kv_dim, D>>),
        WantIfAny(<<l, "q_norm">>, <<l, "q_norm">>, <<c.head_dim>>),
        WantIfAny(<<l, "k_norm">>, <<l, "k_norm">>, <<c.head_dim>>)>>

Qwen3Plan(c) ==
  <<Want(<<"embed">>, <<"embed_tokens">>, <<c.vocab_size, c.d_model>>, "bf16"),
    Want(<<"lm_head">>, <<"lm_head">>, <<c.vocab_size, c.d_model>>, "bf16"),
    Want(<<"rms_final">>, <<"norm">>, <<c.d_model>>, "bf16")>>
    \o FlattenSeq([i \in 1 .. c.n_layers |-> Qwen3Layer(c, i - 1)])

(* Where load pushes layer l of Qwen3.5: gdn_layers_ or attn_layers_, and  *)
(* the index it gets there.                                                *)
LayerVector(c, l) ==
  IF c.layer_types[l + 1] = "GatedDeltaNet" THEN "gdn_layers" ELSE "attn_layers"
PushIndex(c, l) == Cardinality({i \in 0 .. l - 1 : LayerVector(c, i) = LayerVector(c, l)})

LayerWant(c, l, name, shape, kind) ==
  Want(<<LayerVector(c, l), PushIndex(c, l), name>>, <<l, name>>, shape, kind)

(* The feed-forward part that both kinds of layers have. *)
FeedForwardWants(c, l) ==
  <<LayerWant(c, l, "ffn_gate", <<c.d_ff, c.d_model>>, "q8_bf16"),
    LayerWant(c, l, "ffn_up", <<c.d_ff, c.d_model>>, "q8_bf16"),
    LayerWant(c, l, "ffn_down", <<c.d_model, c.d_ff>>, "q8_bf16"),
    LayerWant(c, l, "post_attention_norm", <<c.d_model>>, "f32_bf16")>>

GdnLayer(c, l) ==
  LET D == c.d_model
      rank == c.ssm_time_step_rank
      head_v_dim == c.ssm_inner_size \div rank
      value_dim == rank * head_v_dim
      conv_dim == 2 * c.ssm_group_count * c.ssm_state_size + value_dim
      W(name, shape, kind) == LayerWant(c, l, name, shape, kind)
  IN  <<W("attn_norm", <<D>>, "f32_bf16"), W("attn_qkv", <<conv_dim, D>>, "q8_bf16"),
        W("attn_gate", <<value_dim, D>>, "q8_bf16"),
        W("ssm_conv1d", <<conv_dim, c.ssm_conv_kernel>>, "f32_bf16"),
        W("ssm_alpha", <<rank, D>>, "q8_bf16"), W("ssm_beta", <<rank, D>>, "q8_bf16"),
        W("ssm_out", <<D, value_dim>>, "q8_bf16"),
        W("ssm_norm", <<head_v_dim>>, "f32_bf16"), W("ssm_a", <<rank>>, "f32"),
        W("ssm_dt", <<rank>>, "f32")>> \o FeedForwardWants(c, l)

AttnLayer(c, l) ==
  LET D == c.d_model
      q_dim == c.n_q_heads * c.head_dim
      kv_dim == c.n_kv_heads * c.head_dim
      W(name, shape, kind) == LayerWant(c, l, name, shape, kind)
  IN  <<W("attn_norm", <<D>>, "f32_bf16"), W("attn_q", <<2 * q_dim, D>>, "q_gate"),
        W("attn_k", <<kv_dim, D>>, "q8_bf16"), W("attn_v", <<kv_dim, D>>, "q8_bf16"),
        W("attn_output", <<D, q_dim>>, "q8_bf16"),
        W("attn_q_norm", <<c.head_dim>>, "f32_bf16"),
        W("attn_k_norm", <<c.head_dim>>, "f32_bf16")>> \o FeedForwardWants(c, l)

Qwen35Plan(c) ==
  <<Want(<<"embed">>, <<"token_embd">>, <<c.vocab_size, c.d_model>>, "q8_bf16"),
    Want(<<"rms_final">>, <<"output_norm">>, <<c.d_model>>, "f32_bf16")>>
    \o FlattenSeq([i \in 1 .. c.n_layers |->
          IF c.layer_types[i] = "GatedDeltaNet" THEN GdnLayer(c, i - 1)
          ELSE AttnLayer(c, i - 1)])

-----------------------------------------------------------------------------
(* What becomes of a tensor that was read. *)

MergeQkv(q, k, v) == q \o k \o v

(* load_q_gate: each head has its rows of q, then its rows of the gate. *)
HeadRows(c, data, part) ==
  FlattenSeq([h \in 1 .. c.n_q_heads |->
    LET from == (2 * (h - 1) + part) * c.head_dim
    IN  SubSeq(data, from + 1, from + c.head_dim)])

(* The weights after want w was met with the data of the checkpoint. *)
Store(w, raw) ==
  LET data == Convert(w.kind, raw)
      At(field) == [w.dst EXCEPT ![Len(w.dst)] = field]
  IN  CASE w.kind = "q_gate" ->
             (At("attn_q") :> HeadRows(config, data, 0))
               @@ (At("attn_gate") :> HeadRows(config, data, 1)) @@ loaded
        [] config.arch = "qwen3" /\ Last(w.dst) = "v" ->
             (At("qkv") :> MergeQkv(loaded[At("q")], loaded[At("k")], data))
               @@ Restrict(loaded, DOMAIN loaded \ {At("q"), At("k")})
        [] config.arch = "qwen35" /\ w.dst = <<"embed">> ->
             (<<"embed">> :> data) @@ (<<"lm_head">> :> data) @@ loaded
        [] OTHER -> (w.dst :> data) @@ loaded

(* The error of load_tensor, read_q8_to_float or read_f32_to_float, ""     *)
(* when the tensor is read.                                                *)
SourceType == [bf16 |-> "BF16", f32 |-> "F32", f32_bf16 |-> "F32",
               q8_bf16 |-> "Q8_0", q_gate |-> "Q8_0"]
WantError(w) ==
  IF ~Has(w.name) THEN "ModelLoadFailed"
  ELSE IF IsGguf /\ TensorBytes(Raw(w.name)) = 0 THEN "ModelShapeMismatch"
  ELSE IF InfoShape(w.name) # w.shape THEN "ModelShapeMismatch"
  ELSE IF Raw(w.name).type # SourceType[w.kind] THEN "ModelUnsupportedDType"
  ELSE IF ~Readable(w.name) THEN "ModelLoadFailed" ELSE ""

-----------------------------------------------------------------------------
(* The start.  main opens the checkpoint and loads the configuration;      *)
(* Worker::init_resources opens it again, creates the model and the        *)
(* storage, and on any error reset_resources drops what was made.          *)

NoReader == [offset |-> 0, metadata |-> <<>>, infos |-> <<>>, data_start |-> 0]
NoWeights == << >>

Init ==
  /\ file \in Files
  /\ caller \in IF file.kind = "gguf" THEN {"worker", "loader"} ELSE {"worker"}
  /\ stage = "open" /\ reader = NoReader /\ config = NoWeights
  /\ plan = <<>> /\ loaded = NoWeights /\ error = ""

Refuse(code) ==
  /\ stage' = "refused" /\ error' = code
  /\ plan' = <<>> /\ loaded' = NoWeights
  /\ UNCHANGED <<file, caller, reader, config>>

(* The process ends: an exception nobody catches, or a fault. *)
Crash ==
  /\ stage' = "crashed" /\ plan' = <<>> /\ loaded' = NoWeights
  /\ UNCHANGED <<file, caller, reader, config, error>>

GoTo(next) == stage' = next /\ UNCHANGED <<file, caller, config, plan, loaded, error>>

(* Before the start: the copy on disk is cut short, or was made wrongly. *)
FileDamaged ==
  /\ stage = "open" /\ file.defect = "none"
  /\ file' \in Damaged(file)
  /\ UNCHANGED <<caller, stage, reader, config, plan, loaded, error>>

(* Checkpoint::open, with Reader::create or the head of GGUFReader::parse *)
Open ==
  /\ stage = "open"
  /\ IF file.kind = "dir" /\ file.complete /\ SafetensorsParses(file)
     THEN GoTo("config") /\ UNCHANGED reader
     ELSE IF file.kind = "gguf" /\ file.size >= 24 /\ file.version = 3
     THEN GoTo("metadata") /\ reader' = [reader EXCEPT !.offset = 24]
     ELSE Refuse("ModelLoadFailed")

(* GGUFReader::parse: the metadata, entry by entry *)
ParseMetadata ==
  /\ stage = "metadata"
  /\ LET n == Len(reader.metadata) + 1
         end == reader.offset + EntryBytes(file.metadata[n])
     IN  IF n > Len(file.metadata) THEN GoTo("infos") /\ UNCHANGED reader
         ELSE IF end > file.size THEN Refuse("ModelLoadFailed")
         ELSE /\ reader' = [reader EXCEPT !.offset = end,
                                          !.metadata = Append(@, file.metadata[n])]
              /\ GoTo("metadata")

(* ... the tensor infos, and the start of the data *)
ParseInfos ==
  /\ stage = "infos"
  /\ LET n == Len(reader.infos) + 1
         info == file.infos[n]
         end == reader.offset + InfoBytes(info)
     IN  IF n > Len(file.infos)
         THEN IF Align(reader.offset) > file.size THEN Refuse("ModelLoadFailed")
              ELSE /\ reader' = [reader EXCEPT !.data_start = Align(reader.offset)]
                   /\ GoTo("config")
         ELSE IF end > file.size \/ Len(info.dims) \notin 1 .. 8
         THEN Refuse("ModelLoadFailed")
         ELSE IF info.type \notin GgufTypes THEN Refuse("ModelUnsupportedDType")
         ELSE /\ reader' = [reader EXCEPT !.offset = end, !.infos = Append(@, info)]
              /\ GoTo("infos")

(* load_config *)
LoadConfig ==
  /\ stage = "config"
  /\ LET code == IF IsGguf THEN MetadataError ELSE JsonError(file.json)
     IN  IF IsGguf /\ ConfigThrows THEN Crash
         ELSE IF code # "" THEN Refuse(code)
         ELSE /\ config' = IF IsGguf THEN FromMetadata ELSE FromJson(file.json)
              /\ stage' = "create"
              /\ UNCHANGED <<file, caller, reader, plan, loaded, error>>

(* ModelRegistry::create, which knows Qwen3 only; or Qwen35Weights::load *)
CreateModel ==
  /\ stage = "create"
  /\ IF config.arch # (IF caller = "worker" THEN "qwen3" ELSE "qwen35")
     THEN Refuse("ModelUnsupportedArch")
     ELSE /\ plan' = IF caller = "worker" THEN Qwen3Plan(config) ELSE Qwen35Plan(config)
          /\ stage' = "weights"
          /\ UNCHANGED <<file, caller, reader, config, loaded, error>>

LoadTensor ==
  /\ stage = "weights" /\ plan # <<>>
  /\ LET w == Head(plan)
     IN  IF w.optional /\ ~Has(w.name)
         THEN plan' = Tail(plan) /\ UNCHANGED <<file, caller, stage, reader, config, loaded, error>>
         ELSE IF WantError(w) # "" THEN Refuse(WantError(w))
         ELSE /\ loaded' = Store(w, Read(w.name)) /\ plan' = Tail(plan)
              /\ UNCHANGED <<file, caller, stage, reader, config, error>>

(* The copy of a tensor reads past the mapping of the file. *)
ReadFaults ==
  /\ stage = "weights" /\ plan # <<>>
  /\ WantError(Head(plan)) = "" /\ PastTheEnd(Head(plan).name)
  /\ Crash

(* RopeCache::create and BlockStorage::create, then the worker is ready *)
CreateCaches ==
  /\ stage = "weights" /\ plan = <<>>
  /\ IF caller = "worker" /\ config.head_dim % 2 # 0 THEN Refuse("InvalidArgument")
     ELSE GoTo("ready") /\ UNCHANGED reader

(* An allocation, a copy or a synchronization of the backend fails. *)
BackendFails == stage \in {"create", "weights"} /\ Refuse("BackendError")

LoadNext == \/ FileDamaged \/ Open \/ ParseMetadata \/ ParseInfos \/ LoadConfig \/ CreateModel
            \/ LoadTensor \/ ReadFaults \/ CreateCaches \/ BackendFails

-----------------------------------------------------------------------------
(* Properties.  file.model has the weights of the model the checkpoint was *)
(* made from: by layer and name, and q, k, v and the gate on their own.    *)
(* file.defect says what is wrong with the file, "none" if nothing is, and *)
(* file.lacks has the weights whose numbers are not in the file although   *)
(* the load does not notice.                                               *)

(* num_kv_layers and num_gdn_layers count, and kv_layer_index and          *)
(* gdn_layer_index find, a layer among those of its type.                  *)
LayersOfType(c, type) == {i \in 0 .. c.n_layers - 1 : c.layer_types[i + 1] = type}
IndexForLayerType(c, l) ==
  Cardinality({i \in 0 .. l - 1 : c.layer_types[i + 1] = c.layer_types[l + 1]})

(* A number is n * 2^e exactly: that of a Q8_0 block, and a float. *)
ExactQ8(x) ==
  LET exp == (x.d_f16 \div 1024) % 32
      mant == x.d_f16 % 1024
  IN  [n |-> (IF exp = 0 THEN mant ELSE 1024 + mant) * Abs(x.q),
       e |-> (IF exp = 0 THEN 1 ELSE exp) - 25,
       s |-> IF x.q < 0 THEN 1 - (x.d_f16 \div 32768) ELSE x.d_f16 \div 32768]
ExactFloat(f) == [n |-> 2 ^ 23 + (f.m % 2 ^ 23), e |-> (f.m \div 2 ^ 23) - 150, s |-> f.s]

(* The bfloat16 b is the one nearest to the number, the even one of two. *)
NearestBfloat16(x, b) ==
  LET k == CHOOSE k \in 0 .. 23 : x.n * 2 ^ k \in 2 ^ 23 .. 2 ^ 24 - 1
      scaled == x.n * 2 ^ k
      Exponent(m) == (m \div 128) - 134 - (x.e - k)
      Distance(m) == Abs(scaled - (128 + (m % 128)) * 2 ^ Exponent(m))
  IN  /\ b.s = x.s
      /\ IF x.n = 0 THEN b.m = 0
         ELSE \A m \in {b.m - 1, b.m + 1} :
                /\ Exponent(b.m) \in 14 .. 18
                /\ \/ Distance(b.m) < Distance(m)
                   \/ Distance(b.m) = Distance(m) /\ b.m % 2 = 0

(* The loaded numbers are what the numbers of the original became. *)
Recovered(original, data, type) ==
  /\ Len(data) = Len(original)
  /\ \A i \in DOMAIN data :
       CASE type = "Q8_0" -> NearestBfloat16(ExactQ8(original[i]), data[i])
         [] type = "F32_BF16" -> NearestBfloat16(ExactFloat(original[i]), data[i])
         [] OTHER -> data[i] = original[i]

(* Where the layers of the loaded model are. *)
LoadedAt(key) ==
  CASE Len(key) = 1 -> loaded[key]
    [] config.arch = "qwen3" /\ key[2] \in {"q", "k", "v"} ->
         LET q_dim == config.n_q_heads * config.head_dim
             kv_dim == config.n_kv_heads * config.head_dim
             from == [q |-> 0, k |-> q_dim, v |-> q_dim + kv_dim]
         IN  SubSeq(loaded[<<key[1], "qkv">>], from[key[2]] + 1,
                    from[key[2]] + IF key[2] = "q" THEN q_dim ELSE kv_dim)
    [] config.arch = "qwen3" /\ key[2] \notin {"q", "k", "v"} -> loaded[key]
    [] OTHER -> loaded[<<IF key[1] \in LayersOfType(config, "FullAttention")
                         THEN "attn_layers" ELSE "gdn_layers",
                         IndexForLayerType(config, key[1]), key[2]>>]

(* The defects that a load does not notice: "predictor", a tensor of the  *)
(* predictor layers is cut short, and "tokens", GGUF has no vocabulary,    *)
(* which the loads do not use; "short", an entry of model.safetensors ends *)
(* before its shape does, while the bytes are there; "norm", a q_norm or   *)
(* k_norm is missing; "overrun", the file ends, as its last entry does,    *)
(* before the shape of that entry.                                         *)
Unnoticed == {"none", "predictor", "tokens", "short", "norm", "overrun"}

(* A model that became ready is the one the checkpoint was made from: every *)
(* tensor is in its place, the rows of q, k, v and of the gate are apart,   *)
(* and each number is the nearest one of the type it is kept in.  Two files *)
(* are the exception: without a q_norm or a k_norm the model is served      *)
(* without that norm, and when the last entry overruns the file, with other *)
(* numbers in that tensor.  Any other file that is cut short, lacks a       *)
(* tensor or a key, or has one of another shape or type never becomes a     *)
(* model.  A file whose defect goes unnoticed is refused only because the    *)
(* backend failed or the server has no such architecture, and the process   *)
(* ends only for an overrun or an architecture that is not a string         *)
(* (Checkpoint::open to Worker::init_resources).                            *)
LoadsTheModel ==
  /\ stage = "ready" =>
       /\ file.defect \in Unnoticed
       /\ \A key \in DOMAIN file.model \ file.lacks :
            Recovered(file.model[key].data, LoadedAt(key), file.model[key].type)
       /\ file.defect = "norm" => DOMAIN loaded \intersect file.lacks = {}
  /\ stage = "refused" /\ file.defect \in Unnoticed =>
       \/ error = "BackendError"
       \/ error = "ModelUnsupportedArch" /\ caller = "worker" /\ IsGguf
  /\ stage = "crashed" => file.defect \in {"overrun", "architecture"}

==============================================================================
